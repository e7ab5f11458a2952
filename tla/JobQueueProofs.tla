--------------------------- MODULE JobQueueProofs ---------------------------
(***************************************************************************)
(* Theorems about JobQueue, for any number of jobs, drains, definitions,   *)
(* events, attempt limits and mishaps, drains that outlive the reclaim     *)
(* threshold and report late included.                                     *)
(***************************************************************************)
EXTENDS JobQueue, FiniteSetTheorems, TLAPS

-----------------------------------------------------------------------------
(* Type correctness. *)

LEMMA RowTypes ==
    ASSUME NEW r \in Row
    PROVE  /\ r.status \in {"absent", "queued", "running", "succeeded", "dead"}
           /\ r.attempts \in Nat /\ r.limit \in AttemptLimits /\ r.key \in Key
           /\ r.due \in BOOLEAN /\ r.lockedBy \in Workers \cup {NoWorker}
           /\ r.stale \in BOOLEAN
BY DEF Row

LEMMA InsertedType ==
    ASSUME NEW limit \in AttemptLimits, NEW key \in Key, NEW due \in BOOLEAN
    PROVE  /\ Inserted(limit, key, due) \in Row
           /\ Inserted(limit, key, due).status = "queued"
           /\ Inserted(limit, key, due).attempts = 0
           /\ Inserted(limit, key, due).key = key
           /\ Inserted(limit, key, due).limit = limit
           /\ Inserted(limit, key, due).stale = FALSE
BY LimitsAssumption DEF Inserted, Absent, Row, NoWorker, Key

LEMMA KeyType ==
    ASSUME NEW d \in Definitions, NEW e \in Events
    PROVE  <<d, e>> \in Key
BY DEF Key

LEMMA ReportedType ==
    ASSUME NEW r \in Row, NEW status \in {"queued", "succeeded", "dead"}
    PROVE  /\ [r EXCEPT !.status = status, !.lockedBy = NoWorker] \in Row
           /\ [r EXCEPT !.status = status, !.lockedBy = NoWorker, !.due = FALSE] \in Row
           /\ [r EXCEPT !.status = status, !.lockedBy = NoWorker, !.stale = FALSE] \in Row
BY DEF Row

LEMMA ClaimedType ==
    ASSUME NEW r \in Row, NEW w \in Workers
    PROVE  [r EXCEPT !.status = "running", !.lockedBy = w, !.stale = FALSE,
                     !.attempts = @ + 1] \in Row
<1>1. r.attempts + 1 \in Nat
  BY RowTypes
<1> QED BY <1>1 DEF Row

LEMMA MarkedType ==
    ASSUME NEW r \in Row
    PROVE  [r EXCEPT !.stale = TRUE] \in Row /\ [r EXCEPT !.due = TRUE] \in Row
BY DEF Row

\* Every reachable state of the queue is well typed, whatever drains, callers
\* and the reclaim do (the columns and CHECKs of job_queue).
THEOREM TypeCorrect == Spec => []TypeOK
<1>1. Init => TypeOK
  BY LimitsAssumption DEF Init, TypeOK, Absent, Row, Key, NotEmitted
<1>2. TypeOK /\ [Next]_vars => TypeOK'
  <2> SUFFICES ASSUME TypeOK, [Next]_vars PROVE TypeOK'
    OBVIOUS
  <2> USE LimitsAssumption DEF TypeOK, history
  <2>1. ASSUME NEW j \in Jobs, NEW key \in CallerKeys \cup {NoKey}, Enqueue(j, key)
        PROVE  TypeOK'
    <3>1. key \in Key
      BY DEF Key
    <3>2. jobs' \in [Jobs -> Row]
      <4>1. PICK limit \in AttemptLimits, due \in BOOLEAN :
               jobs' = [jobs EXCEPT ![j] = Inserted(limit, key, due)]
        BY <2>1 DEF Enqueue
      <4>2. Inserted(limit, key, due) \in Row
        BY <3>1, InsertedType
      <4> QED BY <4>1, <4>2
    <3> QED BY <2>1, <3>2 DEF Enqueue
  <2>2. ASSUME NEW j \in Jobs, BecomeDue(j) PROVE TypeOK'
    BY <2>2, MarkedType DEF BecomeDue
  <2>3. ASSUME NEW j \in Jobs, LockExpires(j) PROVE TypeOK'
    BY <2>3, MarkedType DEF LockExpires
  <2>4. ASSUME NEW j \in Jobs, LockOverrun(j) PROVE TypeOK'
    <3>1. /\ jobs' = [jobs EXCEPT ![j].stale = TRUE]
          /\ mishaps' = mishaps + 1
          /\ overruns' = [overruns EXCEPT ![j] = @ + 1]
          /\ UNCHANGED <<held, events, active, belated>>
      BY <2>4, Zenon DEF LockOverrun
    <3>2. jobs' \in [Jobs -> Row]
      BY <3>1, MarkedType
    <3>3. mishaps' \in Nat /\ overruns' \in [Jobs -> Nat]
      BY <3>1
    <3> QED BY <3>1, <3>2, <3>3
  <2>5. ASSUME NEW e \in Events, EmitEvent(e) PROVE TypeOK'
    <3> DEFINE fresh == {d \in active : ~Taken(<<d, e>>)}
    <3>1. PICK id \in [fresh -> {j \in Jobs : jobs[j].status = "absent"}] :
             jobs' = [j \in Jobs |->
                        IF \E d \in fresh : id[d] = j
                        THEN Inserted(DefaultLimit,
                                      <<CHOOSE d \in fresh : id[d] = j, e>>, TRUE)
                        ELSE jobs[j]]
      BY <2>5 DEF EmitEvent
    <3>2. ASSUME NEW j \in Jobs, \E d \in fresh : id[d] = j
          PROVE  <<CHOOSE d \in fresh : id[d] = j, e>> \in Key
      <4>1. (CHOOSE d \in fresh : id[d] = j) \in Definitions
        BY <3>2
      <4> QED BY <4>1, KeyType
    <3>3. jobs' \in [Jobs -> Row]
      BY <3>1, <3>2, InsertedType
    <3>4. events' \in [Events -> (SUBSET Definitions) \cup {NotEmitted}]
      BY <2>5 DEF EmitEvent
    <3> QED BY <2>5, <3>3, <3>4 DEF EmitEvent
  <2>6. ASSUME NEW d \in Definitions, ToggleDefinition(d) PROVE TypeOK'
    BY <2>6 DEF ToggleDefinition
  <2>7. ASSUME NEW w \in Workers, ClaimJobs(w) PROVE TypeOK'
    <3>1. PICK S \in SUBSET Claimable :
             /\ jobs' = [j \in Jobs |->
                           IF j \in S
                           THEN [jobs[j] EXCEPT !.status = "running", !.lockedBy = w,
                                                !.stale = FALSE, !.attempts = @ + 1]
                           ELSE jobs[j]]
             /\ held' = [held EXCEPT ![w] = @ \cup {Snapshot(j) : j \in S}]
      BY <2>7 DEF ClaimJobs
    <3>2. jobs' \in [Jobs -> Row]
      BY <3>1, ClaimedType
    <3>3. \A j \in S : Snapshot(j) \in Claim
      BY RowTypes DEF Snapshot, Claim, Claimable
    <3>4. held' \in [Workers -> SUBSET Claim]
      BY <3>1, <3>3
    <3> QED BY <2>7, <3>2, <3>4 DEF ClaimJobs
  <2>8. ASSUME NEW w \in Workers, ReportOutcome(w) PROVE TypeOK'
    <3>1. PICK c \in held[w] : CompleteJob(w, c) \/ FailJobForGood(w, c) \/ FailJobForNow(w, c)
      BY <2>8 DEF ReportOutcome
    <3>2. c.job \in Jobs
      BY <3>1 DEF Claim
    <3>b. ASSUME Report(w, c)
          PROVE  held' \in [Workers -> SUBSET Claim] /\ belated' \in [Jobs -> Nat]
      BY <3>b, <3>2 DEF Report
    <3>3. CASE CompleteJob(w, c)
      BY <3>2, <3>3, <3>b, ReportedType DEF CompleteJob
    <3>4. CASE FailJobForGood(w, c)
      BY <3>2, <3>4, <3>b, ReportedType DEF FailJobForGood
    <3>5. CASE FailJobForNow(w, c)
      BY <3>2, <3>5, <3>b, ReportedType DEF FailJobForNow
    <3> QED BY <3>1, <3>3, <3>4, <3>5
  <2>9. ASSUME NEW w \in Workers, Crash(w) PROVE TypeOK'
    BY <2>9 DEF Crash
  <2>10. CASE ReclaimStalled
    BY <2>10, ReportedType DEF ReclaimStalled
  <2>11. CASE UNCHANGED vars
    BY <2>11 DEF vars
  <2> QED BY <2>1, <2>2, <2>3, <2>4, <2>5, <2>6, <2>7, <2>8, <2>9, <2>10, <2>11 DEF Next
<1> QED BY <1>1, <1>2, PTL DEF Spec

-----------------------------------------------------------------------------
(* What the operations do to a job and to the claims. *)

\* What a report does to the job and to the claims.
LEMMA ReportEffect ==
    ASSUME TypeOK, NEW w \in Workers, ReportOutcome(w)
    PROVE  \E c \in held[w] :
             /\ c \in Claim
             /\ held' = [held EXCEPT ![w] = @ \ {c}]
             /\ \A j \in Jobs \ {c.job} : jobs'[j] = jobs[j]
             /\ jobs'[c.job].attempts = jobs[c.job].attempts
             /\ jobs'[c.job].limit = jobs[c.job].limit
             /\ \/ jobs'[c.job].status = "succeeded"
                \/ jobs'[c.job].status = "dead" /\ c.attempts >= jobs[c.job].limit
                \/ jobs'[c.job].status = "queued" /\ ~(c.attempts >= jobs[c.job].limit)
             /\ UNCHANGED <<mishaps, overruns>>
             /\ belated' = IF jobs[c.job].status \in Final
                           THEN [belated EXCEPT ![c.job] = @ + 1] ELSE belated
<1>1. PICK c \in held[w] : CompleteJob(w, c) \/ FailJobForGood(w, c) \/ FailJobForNow(w, c)
  BY DEF ReportOutcome
<1>2. c \in Claim /\ c.job \in Jobs
  BY <1>1 DEF Claim, TypeOK
<1>3. jobs[c.job] \in Row
  BY <1>2 DEF TypeOK
<1> DEFINE Effect ==
      /\ held' = [held EXCEPT ![w] = @ \ {c}]
      /\ \A j \in Jobs \ {c.job} : jobs'[j] = jobs[j]
      /\ jobs'[c.job].attempts = jobs[c.job].attempts
      /\ jobs'[c.job].limit = jobs[c.job].limit
      /\ \/ jobs'[c.job].status = "succeeded"
         \/ jobs'[c.job].status = "dead" /\ c.attempts >= jobs[c.job].limit
         \/ jobs'[c.job].status = "queued" /\ ~(c.attempts >= jobs[c.job].limit)
      /\ UNCHANGED <<mishaps, overruns>>
      /\ belated' = IF jobs[c.job].status \in Final
                    THEN [belated EXCEPT ![c.job] = @ + 1] ELSE belated
<1>4. ASSUME CompleteJob(w, c) PROVE Effect
  <2>1. jobs' = [jobs EXCEPT ![c.job] =
                   [jobs[c.job] EXCEPT !.status = "succeeded", !.lockedBy = NoWorker]]
    BY <1>4 DEF CompleteJob
  <2>2. /\ jobs'[c.job] = [jobs[c.job] EXCEPT !.status = "succeeded", !.lockedBy = NoWorker]
        /\ \A j \in Jobs \ {c.job} : jobs'[j] = jobs[j]
    BY <1>2, <2>1 DEF TypeOK
  <2>3. /\ jobs'[c.job].status = "succeeded"
        /\ jobs'[c.job].attempts = jobs[c.job].attempts
        /\ jobs'[c.job].limit = jobs[c.job].limit
    BY <1>3, <2>2 DEF Row
  <2> QED BY <1>4, <2>2, <2>3 DEF CompleteJob, Report
<1>5. ASSUME FailJobForGood(w, c) PROVE Effect
  <2>1. jobs' = [jobs EXCEPT ![c.job] =
                   [jobs[c.job] EXCEPT !.status = "dead", !.lockedBy = NoWorker]]
    BY <1>5 DEF FailJobForGood
  <2>2. /\ jobs'[c.job] = [jobs[c.job] EXCEPT !.status = "dead", !.lockedBy = NoWorker]
        /\ \A j \in Jobs \ {c.job} : jobs'[j] = jobs[j]
    BY <1>2, <2>1 DEF TypeOK
  <2>3. /\ jobs'[c.job].status = "dead"
        /\ jobs'[c.job].attempts = jobs[c.job].attempts
        /\ jobs'[c.job].limit = jobs[c.job].limit
    BY <1>3, <2>2 DEF Row
  <2> QED BY <1>5, <2>2, <2>3 DEF FailJobForGood, Report, Exhausted
<1>6. ASSUME FailJobForNow(w, c) PROVE Effect
  <2>1. jobs' = [jobs EXCEPT ![c.job] =
                   [jobs[c.job] EXCEPT !.status = "queued", !.lockedBy = NoWorker, !.due = FALSE]]
    BY <1>6 DEF FailJobForNow
  <2>2. /\ jobs'[c.job] = [jobs[c.job] EXCEPT !.status = "queued", !.lockedBy = NoWorker,
                                              !.due = FALSE]
        /\ \A j \in Jobs \ {c.job} : jobs'[j] = jobs[j]
    BY <1>2, <2>1 DEF TypeOK
  <2>3. /\ jobs'[c.job].status = "queued"
        /\ jobs'[c.job].attempts = jobs[c.job].attempts
        /\ jobs'[c.job].limit = jobs[c.job].limit
    BY <1>3, <2>2 DEF Row
  <2> QED BY <1>6, <2>2, <2>3 DEF FailJobForNow, Report, Exhausted
<1>7. Effect
  BY <1>1, <1>4, <1>5, <1>6
<1> QED BY <1>2, <1>7

LEMMA ClaimEffect ==
    ASSUME TypeOK, NEW w \in Workers, ClaimJobs(w)
    PROVE  \E S \in SUBSET Claimable :
             /\ \A j \in S : /\ jobs[j].status = "queued"
                             /\ jobs'[j].status = "running" /\ jobs'[j].lockedBy = w
                             /\ jobs'[j].stale = FALSE
                             /\ jobs'[j].attempts = jobs[j].attempts + 1
                             /\ jobs'[j].limit = jobs[j].limit
             /\ \A j \in Jobs \ S : jobs'[j] = jobs[j]
             /\ held' = [held EXCEPT ![w] = @ \cup {Snapshot(j) : j \in S}]
             /\ UNCHANGED <<mishaps, overruns, belated>>
<1>1. PICK S \in SUBSET Claimable :
         /\ jobs' = [j \in Jobs |->
                       IF j \in S
                       THEN [jobs[j] EXCEPT !.status = "running", !.lockedBy = w,
                                            !.stale = FALSE, !.attempts = @ + 1]
                       ELSE jobs[j]]
         /\ held' = [held EXCEPT ![w] = @ \cup {Snapshot(j) : j \in S}]
         /\ UNCHANGED <<mishaps, overruns, belated>>
  BY DEF ClaimJobs, history
<1>2. S \subseteq Jobs /\ \A j \in S : jobs[j].status = "queued"
  BY DEF Claimable
<1>3. \A j \in S : jobs[j] \in Row
  BY <1>2 DEF TypeOK
<1>4. ASSUME NEW j \in S
      PROVE  /\ jobs'[j].status = "running" /\ jobs'[j].lockedBy = w
             /\ jobs'[j].stale = FALSE
             /\ jobs'[j].attempts = jobs[j].attempts + 1
             /\ jobs'[j].limit = jobs[j].limit
  BY <1>1, <1>2, <1>3 DEF Row
<1>5. \A j \in Jobs \ S : jobs'[j] = jobs[j]
  BY <1>1
<1> QED BY <1>1, <1>2, <1>4, <1>5

\* The rows a producer inserts.
LEMMA ProducerEffect ==
    ASSUME TypeOK,
           \/ \E j \in Jobs, key \in CallerKeys \cup {NoKey} : Enqueue(j, key)
           \/ \E e \in Events : EmitEvent(e)
           \/ \E d \in Definitions : ToggleDefinition(d)
    PROVE  /\ \A j \in Jobs :
                \/ jobs'[j] = jobs[j]
                \/ /\ jobs[j].status = "absent" /\ jobs'[j].status = "queued"
                   /\ jobs'[j].attempts = 0 /\ jobs'[j].limit \in AttemptLimits
           /\ UNCHANGED <<held, mishaps, overruns, belated>>
<1>1. CASE \E j \in Jobs, key \in CallerKeys \cup {NoKey} : Enqueue(j, key)
  <2>1. PICK j \in Jobs, key \in CallerKeys \cup {NoKey} : Enqueue(j, key)
    BY <1>1
  <2>2. PICK limit \in AttemptLimits, due \in BOOLEAN :
           jobs' = [jobs EXCEPT ![j] = Inserted(limit, key, due)]
    BY <2>1 DEF Enqueue
  <2>3. key \in Key
    BY DEF Key
  <2>4. /\ Inserted(limit, key, due).status = "queued"
        /\ Inserted(limit, key, due).attempts = 0
        /\ Inserted(limit, key, due).limit = limit
    BY DEF Inserted, Absent
  <2> QED BY <2>1, <2>2, <2>4 DEF Enqueue, TypeOK, history
<1>2. CASE \E e \in Events : EmitEvent(e)
  <2>1. PICK e \in Events : EmitEvent(e)
    BY <1>2
  <2> DEFINE fresh == {d \in active : ~Taken(<<d, e>>)}
             k(id, j) == <<CHOOSE d \in fresh : id[d] = j, e>>
  <2>2. PICK id \in [fresh -> {j \in Jobs : jobs[j].status = "absent"}] :
           jobs' = [j \in Jobs |->
                      IF \E d \in fresh : id[d] = j
                      THEN Inserted(DefaultLimit, k(id, j), TRUE)
                      ELSE jobs[j]]
    BY <2>1 DEF EmitEvent
  <2>3. ASSUME NEW j \in Jobs, \E d \in fresh : id[d] = j
        PROVE  /\ jobs[j].status = "absent" /\ jobs'[j].status = "queued"
               /\ jobs'[j].attempts = 0 /\ jobs'[j].limit \in AttemptLimits
    <3>1. jobs'[j] = Inserted(DefaultLimit, k(id, j), TRUE)
      BY <2>2, <2>3
    <3>2. (CHOOSE d \in fresh : id[d] = j) \in Definitions
      BY <2>3 DEF TypeOK
    <3>3. k(id, j) \in Key
      BY <3>2, KeyType
    <3>4. DefaultLimit \in AttemptLimits /\ TRUE \in BOOLEAN
      BY LimitsAssumption
    <3>5. /\ Inserted(DefaultLimit, k(id, j), TRUE).status = "queued"
          /\ Inserted(DefaultLimit, k(id, j), TRUE).attempts = 0
          /\ Inserted(DefaultLimit, k(id, j), TRUE).limit = DefaultLimit
      <4> HIDE DEF k
      <4> QED BY <3>3, <3>4, InsertedType, Zenon
    <3>6. jobs[j].status = "absent"
      BY <2>2, <2>3
    <3> QED BY <3>1, <3>4, <3>5, <3>6
  <2>4. UNCHANGED <<held, mishaps, overruns, belated>>
    BY <2>1 DEF EmitEvent, history
  <2> QED BY <2>2, <2>3, <2>4
<1>3. CASE \E d \in Definitions : ToggleDefinition(d)
  BY <1>3 DEF ToggleDefinition, history
<1> QED BY <1>1, <1>2, <1>3

-----------------------------------------------------------------------------
(***************************************************************************)
(* The keys.  Whatever drains do, they never touch a key; what has to be   *)
(* carried along is that a row which is not there has none.                *)
(***************************************************************************)
AbsentHasNoKey ==
    \A j \in Jobs : jobs[j].status = "absent" => jobs[j].key = NoKey

\* One job per idempotency key.
OneJobPerKey ==
    \A j1, j2 \in Jobs : jobs[j1].key = jobs[j2].key /\ jobs[j1].key # NoKey => j1 = j2

KeyInv == TypeOK /\ AbsentHasNoKey /\ OneJobPerKey /\ EmittedMeansQueued

\* Drains, the reclaim and time leave every key, and every event, alone.
LEMMA DrainsKeepKeys ==
    ASSUME TypeOK,
           \/ \E w \in Workers : ClaimJobs(w) \/ ReportOutcome(w) \/ Crash(w)
           \/ ReclaimStalled
           \/ \E j \in Jobs : BecomeDue(j) \/ LockExpires(j) \/ LockOverrun(j)
    PROVE  /\ \A j \in Jobs : /\ jobs'[j].key = jobs[j].key
                              /\ jobs'[j].status = "absent" => jobs[j].status = "absent"
           /\ UNCHANGED events
<1>r. \A j \in Jobs : jobs[j] \in Row
  BY DEF TypeOK
<1>1. ASSUME NEW w \in Workers, ClaimJobs(w)
      PROVE  /\ \A j \in Jobs : /\ jobs'[j].key = jobs[j].key
                                /\ jobs'[j].status = "absent" => jobs[j].status = "absent"
             /\ UNCHANGED events
  <2>1. PICK S \in SUBSET Claimable :
           jobs' = [j \in Jobs |->
                      IF j \in S
                      THEN [jobs[j] EXCEPT !.status = "running", !.lockedBy = w,
                                           !.stale = FALSE, !.attempts = @ + 1]
                      ELSE jobs[j]]
    BY <1>1 DEF ClaimJobs
  <2> QED BY ZenonT(60), <1>1, <1>r, <2>1 DEF ClaimJobs, Row
<1>2. ASSUME NEW w \in Workers, NEW c \in held[w],
             CompleteJob(w, c) \/ FailJobForGood(w, c) \/ FailJobForNow(w, c)
      PROVE  /\ \A j \in Jobs : /\ jobs'[j].key = jobs[j].key
                                /\ jobs'[j].status = "absent" => jobs[j].status = "absent"
             /\ UNCHANGED events
  <2>1. c.job \in Jobs /\ jobs[c.job] \in Row
    BY <1>r DEF TypeOK, Claim
  <2>2. CASE CompleteJob(w, c)
    BY <1>r, <2>1, <2>2 DEF CompleteJob, Row, TypeOK
  <2>3. CASE FailJobForGood(w, c)
    BY <1>r, <2>1, <2>3 DEF FailJobForGood, Row, TypeOK
  <2>4. CASE FailJobForNow(w, c)
    BY <1>r, <2>1, <2>4 DEF FailJobForNow, Row, TypeOK
  <2> QED BY <1>2, <2>2, <2>3, <2>4
<1>3. CASE ReclaimStalled
  BY <1>r, <1>3 DEF ReclaimStalled, Row
<1>4. ASSUME NEW i \in Jobs, BecomeDue(i) \/ LockExpires(i) \/ LockOverrun(i)
      PROVE  /\ \A j \in Jobs : /\ jobs'[j].key = jobs[j].key
                                /\ jobs'[j].status = "absent" => jobs[j].status = "absent"
             /\ UNCHANGED events
  <2>1. \/ jobs' = [jobs EXCEPT ![i].due = TRUE]
        \/ jobs' = [jobs EXCEPT ![i].stale = TRUE]
    BY <1>4 DEF BecomeDue, LockExpires, LockOverrun
  <2>2. UNCHANGED events
    BY <1>4 DEF BecomeDue, LockExpires, LockOverrun
  <2>3. ASSUME NEW j \in Jobs
        PROVE  jobs'[j].key = jobs[j].key /\ jobs'[j].status = jobs[j].status
    <3>1. jobs[j] \in Row /\ jobs[i] \in Row /\ jobs \in [Jobs -> Row]
      BY <1>r DEF TypeOK
    <3>2. CASE jobs' = [jobs EXCEPT ![i].due = TRUE]
      BY <3>1, <3>2 DEF Row
    <3>3. CASE jobs' = [jobs EXCEPT ![i].stale = TRUE]
      BY <3>1, <3>3 DEF Row
    <3> QED BY <2>1, <3>2, <3>3
  <2> QED BY <2>2, <2>3
<1>5. ASSUME NEW w \in Workers, Crash(w)
      PROVE  UNCHANGED jobs /\ UNCHANGED events
  BY <1>5 DEF Crash
<1> QED BY <1>1, <1>2, <1>3, <1>4, <1>5 DEF ReportOutcome

LEMMA PairIsKey ==
    ASSUME NEW d, NEW e
    PROVE  <<d, e>> # NoKey
BY DEF NoKey

LEMMA KeyInvStep ==
    ASSUME KeyInv, TypeOK', [Next]_vars
    PROVE  KeyInv'
<1> USE DEF KeyInv
<1>1. CASE \/ \E w \in Workers : ClaimJobs(w) \/ ReportOutcome(w) \/ Crash(w)
           \/ ReclaimStalled
           \/ \E j \in Jobs : BecomeDue(j) \/ LockExpires(j) \/ LockOverrun(j)
  <2>1. /\ \A j \in Jobs : /\ jobs'[j].key = jobs[j].key
                           /\ jobs'[j].status = "absent" => jobs[j].status = "absent"
        /\ UNCHANGED events
    BY <1>1, DrainsKeepKeys
  <2> QED BY ZenonT(60), <2>1 DEF AbsentHasNoKey, OneJobPerKey, EmittedMeansQueued
<1>2. ASSUME NEW i \in Jobs, NEW key \in CallerKeys \cup {NoKey}, Enqueue(i, key)
      PROVE  KeyInv'
  <2>1. PICK limit \in AttemptLimits, due \in BOOLEAN :
           jobs' = [jobs EXCEPT ![i] = Inserted(limit, key, due)]
    BY <1>2 DEF Enqueue
  <2>2. /\ Inserted(limit, key, due).status = "queued"
        /\ Inserted(limit, key, due).key = key
    BY DEF Inserted, Absent
  <2>3. /\ jobs'[i].status = "queued" /\ jobs'[i].key = key
        /\ \A j \in Jobs \ {i} : jobs'[j] = jobs[j]
        /\ jobs[i].key = NoKey
        /\ key # NoKey => \A j \in Jobs : jobs[j].key # key
        /\ UNCHANGED events
    BY <1>2, <2>1, <2>2 DEF Enqueue, TypeOK, AbsentHasNoKey, Taken
  <2>4. AbsentHasNoKey' /\ OneJobPerKey'
    BY <2>3 DEF AbsentHasNoKey, OneJobPerKey
  <2>5. EmittedMeansQueued'
    <3> SUFFICES ASSUME NEW e \in Events, events'[e] # NotEmitted, NEW d \in events'[e]
                 PROVE  \E j \in Jobs : jobs'[j].key = <<d, e>>
      BY DEF EmittedMeansQueued
    <3>1. PICK j \in Jobs : jobs[j].key = <<d, e>>
      BY <2>3 DEF EmittedMeansQueued
    <3>2. j # i
      BY <2>3, <3>1, PairIsKey
    <3> QED BY <2>3, <3>1, <3>2
  <2> QED BY <2>4, <2>5
<1>3. ASSUME NEW e \in Events, EmitEvent(e) PROVE KeyInv'
  <2> DEFINE fresh == {d \in active : ~Taken(<<d, e>>)}
  <2>1. PICK id \in [fresh -> {j \in Jobs : jobs[j].status = "absent"}] :
           /\ \A d1, d2 \in fresh : id[d1] = id[d2] => d1 = d2
           /\ jobs' = [j \in Jobs |->
                         IF \E d \in fresh : id[d] = j
                         THEN Inserted(DefaultLimit,
                                       <<CHOOSE d \in fresh : id[d] = j, e>>, TRUE)
                         ELSE jobs[j]]
    BY <1>3 DEF EmitEvent
  <2>2. ASSUME NEW d \in fresh
        PROVE  /\ id[d] \in Jobs
               /\ jobs[id[d]].key = NoKey
               /\ jobs'[id[d]].status = "queued"
               /\ jobs'[id[d]].key = <<d, e>>
    <3>1. (CHOOSE x \in fresh : id[x] = id[d]) = d
      BY <2>1
    <3>2. jobs'[id[d]] = Inserted(DefaultLimit, <<d, e>>, TRUE)
      BY <2>1, <3>1
    <3>3. jobs[id[d]].status = "absent" /\ id[d] \in Jobs
      BY <2>1
    <3>4. /\ Inserted(DefaultLimit, <<d, e>>, TRUE).status = "queued"
          /\ Inserted(DefaultLimit, <<d, e>>, TRUE).key = <<d, e>>
      BY DEF Inserted, Absent
    <3> QED BY <3>2, <3>3, <3>4 DEF AbsentHasNoKey
  <2>3. \A j \in Jobs : (\E d \in fresh : j = id[d]) \/ jobs'[j] = jobs[j]
    BY <2>1
  <2>4. \A d \in fresh : \A j \in Jobs : jobs[j].key # <<d, e>>
    BY DEF Taken, NoKey
  <2>5. AbsentHasNoKey'
    BY <2>2, <2>3 DEF AbsentHasNoKey
  <2>6. OneJobPerKey'
    <3> SUFFICES ASSUME NEW j1 \in Jobs, NEW j2 \in Jobs,
                        jobs'[j1].key = jobs'[j2].key, jobs'[j1].key # NoKey
                 PROVE  j1 = j2
      BY DEF OneJobPerKey
    <3> HIDE DEF fresh
    <3>1. CASE \E d1, d2 \in fresh : j1 = id[d1] /\ j2 = id[d2]
      BY <2>2, <3>1
    <3>2. CASE \E d \in fresh : j1 = id[d] /\ jobs'[j2] = jobs[j2]
      BY <2>2, <2>4, <3>2
    <3>3. CASE \E d \in fresh : j2 = id[d] /\ jobs'[j1] = jobs[j1]
      BY <2>2, <2>4, <3>3
    <3>4. CASE jobs'[j1] = jobs[j1] /\ jobs'[j2] = jobs[j2]
      BY <3>4 DEF OneJobPerKey
    <3> QED BY <2>3, <3>1, <3>2, <3>3, <3>4
  <2>7. EmittedMeansQueued'
    <3>1. events' = [events EXCEPT ![e] = active]
      BY <1>3 DEF EmitEvent
    <3>kept. ASSUME NEW d, NEW f, NEW j \in Jobs, jobs[j].key = <<d, f>>
          PROVE  jobs'[j].key = <<d, f>>
      <4>1. \A x \in fresh : j # id[x]
        BY <2>2, <3>kept, PairIsKey
      <4> HIDE DEF fresh
      <4> QED BY <2>3, <3>kept, <4>1
    <3>2. \A d \in active : \E j \in Jobs : jobs'[j].key = <<d, e>>
      <4>1. \A d \in active : d \in fresh \/ \E j \in Jobs : jobs[j].key = <<d, e>>
        BY DEF Taken
      <4> QED BY <2>2, <3>kept, <4>1
    <3>3. \A f \in Events \ {e} : \A d \in events[f] :
             (\E j \in Jobs : jobs[j].key = <<d, f>>) => \E j \in Jobs : jobs'[j].key = <<d, f>>
      BY <3>kept
    <3>4. events'[e] = active /\ \A f \in Events \ {e} : events'[f] = events[f]
      BY <3>1 DEF TypeOK
    <3> QED BY <3>2, <3>3, <3>4 DEF EmittedMeansQueued
  <2> QED BY <2>5, <2>6, <2>7
<1>4. ASSUME NEW d \in Definitions, ToggleDefinition(d) PROVE KeyInv'
  BY <1>4 DEF ToggleDefinition, AbsentHasNoKey, OneJobPerKey, EmittedMeansQueued
<1>5. CASE UNCHANGED vars
  BY <1>5 DEF vars, AbsentHasNoKey, OneJobPerKey, EmittedMeansQueued
<1> QED BY <1>1, <1>2, <1>3, <1>4, <1>5 DEF Next

\* Whatever callers, drains and the reclaim do, and for however long a drain
\* holds a job: one job per idempotency key, and an event that was emitted has
\* the job of every subscriber it found.
THEOREM KeysHold == Spec => [](OneJobPerKey /\ EmittedMeansQueued)
<1>1. Init => KeyInv
  <2> SUFFICES ASSUME Init PROVE KeyInv
    OBVIOUS
  <2>1. TypeOK
    BY LimitsAssumption DEF Init, TypeOK, Absent, Row, Key, NotEmitted
  <2>2. \A j \in Jobs : jobs[j].key = NoKey
    BY DEF Init, Absent
  <2> QED BY <2>1, <2>2 DEF Init, KeyInv, AbsentHasNoKey, OneJobPerKey, EmittedMeansQueued
<1>2. KeyInv /\ TypeOK' /\ [Next]_vars => KeyInv'
  BY KeyInvStep
<1>3. KeyInv => OneJobPerKey /\ EmittedMeansQueued
  BY DEF KeyInv
<1> QED BY <1>1, <1>2, <1>3, TypeCorrect, PTL DEF Spec

-----------------------------------------------------------------------------
(***************************************************************************)
(* The attempts, when claims of one job may overlap.  A report puts a job  *)
(* back only if it was made on a claim below the limit, so what can take a *)
(* job beyond its limit is counted by: the claims below the limit that are *)
(* still in somebody's hand although the row has moved on (Spare), and,    *)
(* once the limit is reached, the attempts beyond it and the row itself if *)
(* it can be claimed again (Spent).  Only a mishap adds to the sum.        *)
(***************************************************************************)
\* Can the job be claimed again without anyone reporting a failure first?
Open(j) == \/ jobs[j].status = "queued"
           \/ jobs[j].status = "running" /\ (jobs[j].stale \/ ~InHand(j))

Spare(j) == {n \in 1..(jobs[j].limit - 1) :
                HeldAt(j, n) /\ (n = jobs[j].attempts => Open(j))}

Spent(j) == IF jobs[j].attempts >= jobs[j].limit
            THEN jobs[j].attempts - jobs[j].limit + (IF Open(j) THEN 1 ELSE 0)
            ELSE 0

Within(j) == Cardinality(Spare(j)) + Spent(j) <= mishaps

\* Every claim has a number of its own: only one drain was handed it.
OneHolder ==
    \A w1, w2 \in Workers : \A c \in held[w1] : c \in held[w2] => w1 = w2

ClaimsPast ==
    \A w \in Workers : \A c \in held[w] :
        /\ jobs[c.job].status # "absent"
        /\ c.attempts \in 1..jobs[c.job].attempts

BudgetInv ==
    /\ TypeOK
    /\ OneHolder
    /\ ClaimsPast
    /\ \A j \in Jobs : Within(j)
    /\ DeadOnlyWhenExhausted

-----------------------------------------------------------------------------
(* How the number of spare claims changes. *)

LEMMA NoLarger ==
    ASSUME NEW A, IsFiniteSet(A), NEW B, B \subseteq A
    PROVE  /\ Cardinality(A) \in Nat /\ Cardinality(B) \in Nat
           /\ Cardinality(B) <= Cardinality(A)
<1>1. IsFiniteSet(B) /\ Cardinality(B) <= Cardinality(A)
  BY FS_Subset
<1> QED BY <1>1, FS_CardinalityType

LEMMA OneLess ==
    ASSUME NEW A, IsFiniteSet(A), NEW x \in A, NEW B, B \subseteq A \ {x}
    PROVE  /\ Cardinality(A) \in Nat /\ Cardinality(B) \in Nat
           /\ Cardinality(B) + 1 <= Cardinality(A)
<1>1. IsFiniteSet(A \ {x}) /\ Cardinality(A \ {x}) = Cardinality(A) - 1
  BY FS_RemoveElement
<1>2. Cardinality(B) \in Nat /\ Cardinality(B) <= Cardinality(A \ {x})
  BY <1>1, NoLarger
<1>3. Cardinality(A) \in Nat
  BY FS_CardinalityType
<1> QED BY <1>1, <1>2, <1>3

LEMMA OneMore ==
    ASSUME NEW A, IsFiniteSet(A), NEW x, NEW B, B \subseteq A \cup {x}
    PROVE  /\ Cardinality(A) \in Nat /\ Cardinality(B) \in Nat
           /\ Cardinality(B) <= Cardinality(A) + 1
<1>1. /\ IsFiniteSet(A \cup {x})
      /\ Cardinality(A \cup {x}) = Cardinality(A) \/ Cardinality(A \cup {x}) = Cardinality(A) + 1
  BY FS_AddElement
<1>2. Cardinality(B) \in Nat /\ Cardinality(B) <= Cardinality(A \cup {x})
  BY <1>1, NoLarger
<1>3. Cardinality(A) \in Nat
  BY FS_CardinalityType
<1> QED BY <1>1, <1>2, <1>3

LEMMA Exchange ==
    ASSUME NEW A, IsFiniteSet(A), NEW x \in A, NEW y, NEW B, B \subseteq (A \ {x}) \cup {y}
    PROVE  /\ Cardinality(A) \in Nat /\ Cardinality(B) \in Nat
           /\ Cardinality(B) <= Cardinality(A)
<1>1. IsFiniteSet(A \ {x}) /\ Cardinality(A \ {x}) = Cardinality(A) - 1
  BY FS_RemoveElement
<1>2. Cardinality(B) \in Nat /\ Cardinality(B) <= Cardinality(A \ {x}) + 1
  BY <1>1, OneMore
<1>3. Cardinality(A) \in Nat
  BY FS_CardinalityType
<1> QED BY <1>1, <1>2, <1>3

\* The spare claims are numbered below the limit.
LEMMA SpareFinite ==
    ASSUME NEW k \in Nat \ {0}, NEW A, A \subseteq 1..(k - 1)
    PROVE  IsFiniteSet(A) /\ Cardinality(A) \in Nat
<1>1. 1 \in Int /\ k - 1 \in Int
  OBVIOUS
<1>2. IsFiniteSet(1..(k - 1))
  BY <1>1, FS_Interval
<1>3. IsFiniteSet(A)
  BY <1>2, FS_Subset
<1> QED BY <1>3, FS_CardinalityType

\* Somebody has the job in hand exactly if some attempt of it is held.
LEMMA InHandAt ==
    ASSUME NEW h \in [Workers -> SUBSET Claim], NEW j \in Jobs
    PROVE  (\E w \in Workers : \E c \in h[w] : c.job = j)
             <=> \E n \in Nat : \E w \in Workers : [job |-> j, attempts |-> n] \in h[w]
<1>1. ASSUME NEW w \in Workers, NEW c \in h[w], c.job = j
      PROVE  c.attempts \in Nat /\ [job |-> j, attempts |-> c.attempts] \in h[w]
  <2>1. c \in Claim
    OBVIOUS
  <2>2. c = [job |-> j, attempts |-> c.attempts]
    BY <2>1, <1>1 DEF Claim
  <2> QED BY <2>1, <2>2 DEF Claim
<1> QED BY <1>1

-----------------------------------------------------------------------------
(* What the kinds of step do to the budget of one job. *)

LEMMA BudgetTypes ==
    ASSUME TypeOK, NEW j \in Jobs
    PROVE  /\ jobs[j].attempts \in Nat /\ jobs[j].limit \in Nat \ {0} /\ mishaps \in Nat
           /\ Spent(j) \in Nat
           /\ IsFiniteSet(Spare(j)) /\ Cardinality(Spare(j)) \in Nat
<1>1. jobs[j] \in Row /\ mishaps \in Nat
  BY DEF TypeOK
<1>2. jobs[j].attempts \in Nat /\ jobs[j].limit \in Nat \ {0}
  BY <1>1, RowTypes, LimitsAssumption
<1>3. Spent(j) \in Nat
  BY <1>2 DEF Spent
<1>4. Spare(j) \subseteq 1..(jobs[j].limit - 1)
  BY DEF Spare
<1> QED BY <1>1, <1>2, <1>3, <1>4, SpareFinite

\* The same at the next state, for a job whose limit stays.
LEMMA BudgetTypesNext ==
    ASSUME TypeOK', NEW j \in Jobs
    PROVE  /\ jobs'[j].attempts \in Nat /\ jobs'[j].limit \in Nat \ {0} /\ mishaps' \in Nat
           /\ Spent(j)' \in Nat
           /\ IsFiniteSet(Spare(j)') /\ Cardinality(Spare(j)') \in Nat
<1>1. jobs'[j] \in Row /\ mishaps' \in Nat
  BY DEF TypeOK
<1>2. jobs'[j].attempts \in Nat /\ jobs'[j].limit \in Nat \ {0}
  BY <1>1, RowTypes, LimitsAssumption
<1>3. Spent(j)' \in Nat
  BY <1>2 DEF Spent
<1>4. Spare(j)' \subseteq 1..(jobs'[j].limit - 1)
  BY DEF Spare
<1> QED BY <1>1, <1>2, <1>3, <1>4, SpareFinite

\* Nothing is handed out and the row does not come up for a claim.
LEMMA WithinKept ==
    ASSUME TypeOK, TypeOK', NEW j \in Jobs, Within(j),
           jobs'[j].attempts = jobs[j].attempts, jobs'[j].limit = jobs[j].limit,
           \A n \in Nat : HeldAt(j, n)' => HeldAt(j, n),
           Open(j)' => Open(j), mishaps <= mishaps'
    PROVE  Within(j)'
<1>1. Spare(j)' \subseteq Spare(j)
  BY DEF Spare
<1>2. Cardinality(Spare(j)') <= Cardinality(Spare(j))
  BY <1>1, BudgetTypes, NoLarger
<1>3. Spent(j)' <= Spent(j)
  BY BudgetTypes DEF Spent
<1> QED BY <1>2, <1>3, BudgetTypes, BudgetTypesNext DEF Within

\* A mishap may bring the row up for one more claim.
LEMMA WithinMishap ==
    ASSUME TypeOK, TypeOK', NEW j \in Jobs, Within(j),
           jobs'[j].attempts = jobs[j].attempts, jobs'[j].limit = jobs[j].limit,
           \A n \in Nat : HeldAt(j, n)' => HeldAt(j, n),
           mishaps' = mishaps + 1
    PROVE  Within(j)'
<1>1. CASE jobs[j].attempts >= jobs[j].limit
  <2>0. \A n \in 1..(jobs[j].limit - 1) : n \in Nat /\ n # jobs[j].attempts
    BY <1>1, BudgetTypes
  <2>1. Spare(j)' \subseteq Spare(j)
    BY <2>0 DEF Spare
  <2>2. Cardinality(Spare(j)') <= Cardinality(Spare(j))
    BY <2>1, BudgetTypes, NoLarger
  <2>3. Spent(j)' <= Spent(j) + 1
    BY BudgetTypes DEF Spent
  <2> QED BY <2>2, <2>3, BudgetTypes, BudgetTypesNext DEF Within
<1>2. CASE ~(jobs[j].attempts >= jobs[j].limit)
  <2>1. Spare(j)' \subseteq Spare(j) \cup {jobs[j].attempts}
    BY DEF Spare
  <2>2. Cardinality(Spare(j)') <= Cardinality(Spare(j)) + 1
    BY <2>1, BudgetTypes, OneMore
  <2>3. Spent(j)' = 0 /\ Spent(j) = 0
    BY <1>2 DEF Spent
  <2> QED BY <2>2, <2>3, BudgetTypes, BudgetTypesNext DEF Within
<1> QED BY <1>1, <1>2

\* A report uses up the claim it is made on; one below the limit may put the
\* row back.
LEMMA WithinReport ==
    ASSUME TypeOK, TypeOK', NEW j \in Jobs, Within(j), NEW k \in Nat,
           jobs'[j].attempts = jobs[j].attempts, jobs'[j].limit = jobs[j].limit,
           k # 0, HeldAt(j, k),
           \A n \in Nat : HeldAt(j, n)' => HeldAt(j, n) /\ n # k,
           Open(j)' => k < jobs[j].limit, mishaps' = mishaps
    PROVE  Within(j)'
<1> USE BudgetTypes
<1>1. CASE Open(j)' => Open(j)
  BY <1>1, WithinKept
<1>2. CASE Open(j)' /\ ~Open(j) /\ k = jobs[j].attempts
  <2>1. Spare(j)' \subseteq Spare(j)
    BY <1>2 DEF Spare
  <2>2. Cardinality(Spare(j)') <= Cardinality(Spare(j))
    BY <2>1, NoLarger
  <2>3. Spent(j)' = 0 /\ Spent(j) = 0
    BY <1>2 DEF Spent
  <2> QED BY <2>2, <2>3, BudgetTypesNext DEF Within
<1>3. CASE Open(j)' /\ ~Open(j) /\ k # jobs[j].attempts
  <2>1. k \in Spare(j)
    <3>1. k \in 1..(jobs[j].limit - 1)
      BY <1>3
    <3> QED BY <1>3, <3>1 DEF Spare
  <2>2. CASE jobs[j].attempts >= jobs[j].limit
    <3>0. \A n \in 1..(jobs[j].limit - 1) : n \in Nat /\ n # jobs[j].attempts
      BY <2>2
    <3>1. Spare(j)' \subseteq Spare(j) \ {k}
      BY <3>0 DEF Spare
    <3>2. Cardinality(Spare(j)') + 1 <= Cardinality(Spare(j))
      BY <2>1, <3>1, OneLess
    <3>3. Spent(j)' <= Spent(j) + 1
      BY DEF Spent
    <3> QED BY <3>2, <3>3, BudgetTypesNext DEF Within
  <2>3. CASE ~(jobs[j].attempts >= jobs[j].limit)
    <3>1. Spare(j)' \subseteq (Spare(j) \ {k}) \cup {jobs[j].attempts}
      BY DEF Spare
    <3>2. Cardinality(Spare(j)') <= Cardinality(Spare(j))
      BY <2>1, <3>1, Exchange
    <3>3. Spent(j)' = 0 /\ Spent(j) = 0
      BY <2>3 DEF Spent
    <3> QED BY <3>2, <3>3, BudgetTypesNext DEF Within
  <2> QED BY <2>2, <2>3
<1> QED BY <1>1, <1>2, <1>3

\* A claim of a row that is up for one uses up exactly that.
LEMMA WithinClaim ==
    ASSUME TypeOK, TypeOK', NEW j \in Jobs, Within(j), Open(j), ~Open(j)',
           jobs'[j].attempts = jobs[j].attempts + 1, jobs'[j].limit = jobs[j].limit,
           \A n \in Nat : HeldAt(j, n)' => HeldAt(j, n) \/ n = jobs[j].attempts + 1,
           mishaps' = mishaps
    PROVE  Within(j)'
<1> USE BudgetTypes
<1>1. Spare(j)' \subseteq Spare(j)
  BY DEF Spare
<1>2. Cardinality(Spare(j)') <= Cardinality(Spare(j))
  BY <1>1, NoLarger
<1>3. Spent(j)' <= Spent(j)
  BY DEF Spent
<1> QED BY <1>2, <1>3, BudgetTypesNext DEF Within

\* A row that nobody has claimed yet.
LEMMA WithinFresh ==
    ASSUME TypeOK', NEW j \in Jobs, jobs'[j].attempts = 0, \A n \in Nat : ~HeldAt(j, n)'
    PROVE  Within(j)'
<1>1. Spare(j)' = {}
  BY BudgetTypesNext DEF Spare
<1>2. Cardinality(Spare(j)') = 0
  BY <1>1, FS_EmptySet
<1>3. Spent(j)' = 0
  BY BudgetTypesNext DEF Spent
<1> QED BY <1>2, <1>3, BudgetTypesNext DEF Within

-----------------------------------------------------------------------------
LEMMA BudgetInit == Init => BudgetInv
<1> SUFFICES ASSUME Init PROVE BudgetInv
  OBVIOUS
<1>1. TypeOK
  BY LimitsAssumption DEF Init, TypeOK, Absent, Row, Key, NotEmitted
<1>2. \A w \in Workers : held[w] = {}
  BY DEF Init
<1>3. \A j \in Jobs : jobs[j].status = "absent" /\ jobs[j].attempts = 0
  BY DEF Init, Absent
<1>4. ASSUME NEW j \in Jobs PROVE Within(j)
  <2>1. Spare(j) = {}
    BY <1>2 DEF Spare, HeldAt
  <2>2. Cardinality(Spare(j)) = 0
    BY <2>1, FS_EmptySet
  <2>3. Spent(j) = 0
    BY <1>1, <1>3, BudgetTypes DEF Spent
  <2> QED BY <1>1, <2>2, <2>3, BudgetTypes DEF Within
<1> QED BY <1>1, <1>2, <1>3, <1>4 DEF BudgetInv, OneHolder, ClaimsPast, DeadOnlyWhenExhausted

LEMMA BudgetStep ==
    ASSUME BudgetInv, TypeOK', [Next]_vars
    PROVE  BudgetInv'
<1> USE DEF BudgetInv
<1>t. \A j \in Jobs : /\ jobs[j] \in Row /\ jobs[j].attempts \in Nat /\ jobs[j].limit \in Nat \ {0}
                      /\ jobs'[j].attempts \in Nat
  BY BudgetTypes, BudgetTypesNext DEF TypeOK
<1>m. mishaps \in Nat
  BY DEF TypeOK
<1>n. \A w \in Workers : \A c \in held[w] : c \in Claim /\ c.job \in Jobs /\ c.attempts \in Nat
  BY DEF TypeOK, Claim
<1>p. \A j \in Jobs : \A n \in Nat : HeldAt(j, n) =>
          n # 0 /\ n <= jobs[j].attempts /\ jobs[j].status # "absent"
  <2> SUFFICES ASSUME NEW j \in Jobs, NEW n \in Nat, NEW w \in Workers,
                      [job |-> j, attempts |-> n] \in held[w]
               PROVE  n # 0 /\ n <= jobs[j].attempts /\ jobs[j].status # "absent"
    BY DEF HeldAt
  <2>1. n \in 1..jobs[j].attempts /\ jobs[j].status # "absent"
    BY DEF ClaimsPast
  <2> QED BY <2>1, <1>t
<1>1. CASE \/ \E j \in Jobs, key \in CallerKeys \cup {NoKey} : Enqueue(j, key)
           \/ \E e \in Events : EmitEvent(e)
           \/ \E d \in Definitions : ToggleDefinition(d)
  <2>1. /\ \A j \in Jobs :
             \/ jobs'[j] = jobs[j]
             \/ /\ jobs[j].status = "absent" /\ jobs'[j].status = "queued"
                /\ jobs'[j].attempts = 0 /\ jobs'[j].limit \in AttemptLimits
        /\ UNCHANGED <<held, mishaps>>
    BY <1>1, ProducerEffect
  <2>2. OneHolder' /\ ClaimsPast'
    BY <2>1, <1>n DEF OneHolder, ClaimsPast
  <2>3. ASSUME NEW j \in Jobs PROVE Within(j)'
    <3>1. \A n \in Nat : HeldAt(j, n)' <=> HeldAt(j, n)
      BY <2>1 DEF HeldAt
    <3>2. CASE jobs'[j] = jobs[j]
      <4>1. Open(j)' <=> Open(j)
        BY <2>1, <3>2 DEF Open, InHand
      <4> QED BY <2>1, <3>1, <3>2, <4>1, <1>m, WithinKept
    <3>3. CASE jobs[j].status = "absent" /\ jobs'[j].attempts = 0
      BY <3>1, <3>3, <1>p, WithinFresh
    <3> QED BY <2>1, <3>2, <3>3
  <2>4. DeadOnlyWhenExhausted'
    BY <2>1 DEF DeadOnlyWhenExhausted
  <2> QED BY <2>2, <2>3, <2>4
<1>2. ASSUME NEW w \in Workers, ClaimJobs(w) PROVE BudgetInv'
  <2>1. PICK S \in SUBSET Claimable :
           /\ \A j \in S : /\ jobs[j].status = "queued"
                           /\ jobs'[j].status = "running" /\ jobs'[j].lockedBy = w
                           /\ jobs'[j].stale = FALSE
                           /\ jobs'[j].attempts = jobs[j].attempts + 1
                           /\ jobs'[j].limit = jobs[j].limit
           /\ \A j \in Jobs \ S : jobs'[j] = jobs[j]
           /\ held' = [held EXCEPT ![w] = @ \cup {Snapshot(j) : j \in S}]
           /\ UNCHANGED mishaps
    BY <1>2, ClaimEffect
  <2>2. S \subseteq Jobs
    BY DEF Claimable
  <2>3. \A v \in Workers : \A c \in held'[v] :
           c \in held[v] \/ (v = w /\ \E j \in S : c = Snapshot(j))
    BY <2>1 DEF TypeOK
  <2>4. \A v \in Workers : held[v] \subseteq held'[v]
    BY <2>1 DEF TypeOK
  <2>5. \A j \in S : \A v \in Workers : Snapshot(j) \notin held[v]
    <3> SUFFICES ASSUME NEW j \in S, NEW v \in Workers, Snapshot(j) \in held[v] PROVE FALSE
      OBVIOUS
    <3>1. jobs[j].attempts + 1 \in 1..jobs[j].attempts
      BY DEF ClaimsPast, Snapshot
    <3> QED BY <3>1, <2>2, <1>t
  <2>6. OneHolder'
    BY <2>3, <2>5 DEF OneHolder
  <2>7. ClaimsPast'
    <3> SUFFICES ASSUME NEW v \in Workers, NEW c \in held'[v]
                 PROVE  jobs'[c.job].status # "absent" /\ c.attempts \in 1..jobs'[c.job].attempts
      BY DEF ClaimsPast
    <3>1. CASE c \in held[v]
      <4>1. /\ jobs[c.job].status # "absent" /\ c.attempts \in 1..jobs[c.job].attempts
            /\ c.job \in Jobs
        BY <3>1, <1>n DEF ClaimsPast
      <4> QED BY <4>1, <2>1, <1>t
    <3>2. CASE v = w /\ \E j \in S : c = Snapshot(j)
      <4>1. PICK j \in S : c = Snapshot(j)
        BY <3>2
      <4>2. c.job = j /\ c.attempts = jobs[j].attempts + 1
        BY <4>1 DEF Snapshot
      <4> QED BY <4>2, <2>1, <2>2, <1>t
    <3> QED BY <2>3, <3>1, <3>2
  <2>8. ASSUME NEW j \in Jobs PROVE Within(j)'
    <3>1. CASE j \in S
      <4>1. InHand(j)'
        <5>1. Snapshot(j) \in held'[w]
          BY <3>1, <2>1 DEF TypeOK
        <5>2. Snapshot(j).job = j
          BY DEF Snapshot
        <5> QED BY <5>1, <5>2 DEF InHand
      <4>2. Open(j) /\ ~Open(j)'
        BY <2>1, <3>1, <4>1 DEF Open
      <4>3. ASSUME NEW n \in Nat, HeldAt(j, n)'
            PROVE  HeldAt(j, n) \/ n = jobs[j].attempts + 1
        <5>1. PICK v \in Workers : [job |-> j, attempts |-> n] \in held'[v]
          BY <4>3 DEF HeldAt
        <5> QED BY <5>1, <2>3 DEF HeldAt, Snapshot
      <4> QED BY <2>1, <3>1, <4>2, <4>3, WithinClaim
    <3>2. CASE j \notin S
      <4>1. \A v \in Workers : \A c \in held'[v] : c.job = j => c \in held[v]
        BY <2>3, <3>2 DEF Snapshot
      <4>2. \A n \in Nat : HeldAt(j, n)' => HeldAt(j, n)
        BY <4>1 DEF HeldAt
      <4>3. InHand(j)' <=> InHand(j)
        BY <2>4, <4>1 DEF InHand
      <4> QED BY <2>1, <3>2, <4>2, <4>3, <1>m, WithinKept DEF Open
    <3> QED BY <3>1, <3>2
  <2>9. DeadOnlyWhenExhausted'
    BY <2>1, <2>2 DEF DeadOnlyWhenExhausted
  <2> QED BY <2>6, <2>7, <2>8, <2>9
<1>3. ASSUME NEW w \in Workers, ReportOutcome(w) PROVE BudgetInv'
  <2>1. PICK c \in held[w] :
           /\ c \in Claim
           /\ held' = [held EXCEPT ![w] = @ \ {c}]
           /\ \A j \in Jobs \ {c.job} : jobs'[j] = jobs[j]
           /\ jobs'[c.job].attempts = jobs[c.job].attempts
           /\ jobs'[c.job].limit = jobs[c.job].limit
           /\ \/ jobs'[c.job].status = "succeeded"
              \/ jobs'[c.job].status = "dead" /\ c.attempts >= jobs[c.job].limit
              \/ jobs'[c.job].status = "queued" /\ ~(c.attempts >= jobs[c.job].limit)
           /\ UNCHANGED mishaps
    BY <1>3, ReportEffect
  <2>2. /\ c.job \in Jobs /\ c.attempts \in Nat
        /\ c = [job |-> c.job, attempts |-> c.attempts]
    BY <2>1, <1>n DEF Claim
  <2>3. \A v \in Workers : held'[v] \subseteq held[v] /\ c \notin held'[v]
    <3>1. \A v \in Workers : held'[v] \subseteq held[v]
      BY <2>1 DEF TypeOK
    <3>2. \A v \in Workers : c \in held[v] => v = w
      BY DEF OneHolder
    <3>3. c \notin held'[w]
      BY <2>1 DEF TypeOK
    <3> QED BY <3>1, <3>2, <3>3
  <2>4. OneHolder'
    BY <2>3 DEF OneHolder
  <2>5. ClaimsPast'
    BY <2>1, <2>3, <1>n DEF ClaimsPast
  <2>6. HeldAt(c.job, c.attempts)
    BY <2>2 DEF HeldAt
  <2>7. ASSUME NEW j \in Jobs PROVE Within(j)'
    <3>1. \A n \in Nat : HeldAt(j, n)' => HeldAt(j, n)
      BY <2>3 DEF HeldAt
    <3>2. CASE j = c.job
      <4>1. \A n \in Nat : HeldAt(j, n)' => HeldAt(j, n) /\ n # c.attempts
        BY <2>2, <2>3, <3>1, <3>2 DEF HeldAt
      <4>2. Open(j)' => c.attempts < jobs[j].limit
        BY <2>1, <2>2, <3>2, <1>t DEF Open
      <4>3. c.attempts # 0 /\ HeldAt(j, c.attempts)
        BY <2>2, <2>6, <3>2, <1>p
      <4> QED BY <2>1, <2>2, <3>2, <4>1, <4>2, <4>3, WithinReport
    <3>3. CASE j # c.job
      <4>1. \A v \in Workers : \A d \in held[v] : d.job = j => d \in held'[v]
        BY <2>1, <3>3 DEF TypeOK
      <4>2. InHand(j)' <=> InHand(j)
        BY <2>3, <4>1 DEF InHand
      <4> QED BY <2>1, <3>1, <3>3, <4>2, <1>m, WithinKept DEF Open
    <3> QED BY <3>2, <3>3
  <2>8. DeadOnlyWhenExhausted'
    <3>1. c.attempts <= jobs[c.job].attempts
      BY <2>2, <2>6, <1>p
    <3> QED BY <2>1, <2>2, <3>1, <1>t DEF DeadOnlyWhenExhausted
  <2> QED BY <2>4, <2>5, <2>7, <2>8
<1>4. ASSUME NEW w \in Workers, Crash(w) PROVE BudgetInv'
  <2>1. /\ UNCHANGED jobs
        /\ mishaps' = mishaps + 1
        /\ held' = [held EXCEPT ![w] = {}]
    BY <1>4 DEF Crash
  <2>2. \A v \in Workers : held'[v] \subseteq held[v]
    BY <2>1 DEF TypeOK
  <2>3. OneHolder' /\ ClaimsPast' /\ DeadOnlyWhenExhausted'
    BY <2>1, <2>2 DEF OneHolder, ClaimsPast, DeadOnlyWhenExhausted
  <2>4. ASSUME NEW j \in Jobs PROVE Within(j)'
    <3>1. \A n \in Nat : HeldAt(j, n)' => HeldAt(j, n)
      BY <2>2 DEF HeldAt
    <3> QED BY <2>1, <3>1, WithinMishap
  <2> QED BY <2>3, <2>4
<1>5. CASE ReclaimStalled
  <2>1. /\ jobs' = [j \in Jobs |->
                      IF j \in Stalled
                      THEN [jobs[j] EXCEPT !.status = "queued", !.lockedBy = NoWorker,
                                           !.stale = FALSE]
                      ELSE jobs[j]]
        /\ UNCHANGED <<held, mishaps>>
    BY <1>5 DEF ReclaimStalled
  <2>2. ASSUME NEW j \in Jobs
        PROVE  \/ jobs'[j] = jobs[j]
               \/ /\ jobs[j].status = "running" /\ jobs[j].stale
                  /\ jobs'[j].status = "queued"
                  /\ jobs'[j].attempts = jobs[j].attempts
                  /\ jobs'[j].limit = jobs[j].limit
    BY <2>1, <1>t DEF Stalled, Row
  <2>a. \A j \in Jobs : /\ jobs'[j].attempts = jobs[j].attempts
                        /\ jobs'[j].limit = jobs[j].limit
                        /\ jobs'[j].status = jobs[j].status \/ jobs'[j].status = "queued"
    BY <2>2
  <2>3. OneHolder' /\ ClaimsPast' /\ DeadOnlyWhenExhausted'
    <3>1. OneHolder'
      BY <2>1 DEF OneHolder
    <3>2. ClaimsPast'
      BY ZenonT(60), <2>1, <2>a, <1>n DEF ClaimsPast
    <3>3. DeadOnlyWhenExhausted'
      BY <2>a DEF DeadOnlyWhenExhausted
    <3> QED BY <3>1, <3>2, <3>3
  <2>4. ASSUME NEW j \in Jobs PROVE Within(j)'
    <3>1. \A n \in Nat : HeldAt(j, n)' => HeldAt(j, n)
      BY <2>1 DEF HeldAt
    <3>2. InHand(j)' <=> InHand(j)
      BY <2>1 DEF InHand
    <3>3. Open(j)' => Open(j)
      BY <2>2, <3>2 DEF Open
    <3>4. mishaps' = mishaps
      BY <2>1, Zenon
    <3>5. Within(j)
      OBVIOUS
    <3> QED BY <2>a, <3>1, <3>3, <3>4, <3>5, <1>m, WithinKept
  <2> QED BY <2>3, <2>4
<1>6. ASSUME NEW j \in Jobs, BecomeDue(j) \/ LockExpires(j) PROVE BudgetInv'
  <2>1. /\ UNCHANGED <<held, mishaps>>
        /\ \A i \in Jobs : /\ jobs'[i].status = jobs[i].status
                           /\ jobs'[i].attempts = jobs[i].attempts
                           /\ jobs'[i].limit = jobs[i].limit
                           /\ jobs'[i].stale = jobs[i].stale \/ ~InHand(i)
    BY <1>6, <1>t DEF BecomeDue, LockExpires, Row, TypeOK
  <2>2. OneHolder' /\ ClaimsPast' /\ DeadOnlyWhenExhausted'
    BY <2>1, <1>n DEF OneHolder, ClaimsPast, DeadOnlyWhenExhausted
  <2>3. ASSUME NEW i \in Jobs PROVE Within(i)'
    <3>1. \A n \in Nat : HeldAt(i, n)' => HeldAt(i, n)
      BY <2>1 DEF HeldAt
    <3>2. Open(i)' => Open(i)
      BY <2>1 DEF Open, InHand
    <3> QED BY <2>1, <3>1, <3>2, <1>m, WithinKept
  <2> QED BY <2>2, <2>3
<1>7. ASSUME NEW j \in Jobs, LockOverrun(j) PROVE BudgetInv'
  <2>1. /\ jobs' = [jobs EXCEPT ![j].stale = TRUE]
        /\ held' = held
        /\ mishaps' = mishaps + 1
    BY <1>7, Zenon DEF LockOverrun
  <2>2. \A i \in Jobs : /\ jobs'[i].status = jobs[i].status
                        /\ jobs'[i].attempts = jobs[i].attempts
                        /\ jobs'[i].limit = jobs[i].limit
    BY <2>1, <1>t DEF Row, TypeOK
  <2>3. OneHolder' /\ ClaimsPast' /\ DeadOnlyWhenExhausted'
    BY <2>1, <2>2, <1>n DEF OneHolder, ClaimsPast, DeadOnlyWhenExhausted
  <2>4. ASSUME NEW i \in Jobs PROVE Within(i)'
    <3>1. \A n \in Nat : HeldAt(i, n)' => HeldAt(i, n)
      BY <2>1 DEF HeldAt
    <3> QED BY <2>1, <2>2, <3>1, WithinMishap
  <2> QED BY <2>3, <2>4
<1>8. CASE UNCHANGED vars
  BY <1>8 DEF vars, OneHolder, ClaimsPast, Within, Spare, Spent, Open, InHand, HeldAt,
              DeadOnlyWhenExhausted
<1> QED BY <1>1, <1>2, <1>3, <1>4, <1>5, <1>6, <1>7, <1>8 DEF Next

\* A job is executed at most max_attempts times plus once per crash or overrun,
\* and is given up only when its attempts are used up, also when a drain
\* outlives the reclaim threshold and reports late on a claim that others have
\* taken over (failJob compares the snapshot's attempts, not the row's).
THEOREM AttemptsAreHonest == Spec => []AttemptsHonest
<1>1. BudgetInv => AttemptsHonest
  <2> SUFFICES ASSUME BudgetInv, NEW j \in Jobs
               PROVE  jobs[j].attempts <= jobs[j].limit + mishaps
    BY DEF AttemptsHonest, AttemptsAccountedFor, BudgetInv
  <2>1. Spent(j) <= mishaps
    BY BudgetTypes DEF BudgetInv, Within
  <2> QED BY <2>1, BudgetTypes DEF BudgetInv, Spent
<1> QED BY <1>1, BudgetInit, BudgetStep, TypeCorrect, PTL DEF Spec

-----------------------------------------------------------------------------
(***************************************************************************)
(* The claims.  Of one job: an overrun makes room for one more drain at    *)
(* work on it; a claim of a queued row fills the room the row gives up; a  *)
(* report empties one, and one that finds the job settled is counted in    *)
(* belated instead.  SnapshotCurrent follows job by job where no room was  *)
(* ever made.                                                              *)
(***************************************************************************)
Room(j) ==
    /\ Cardinality(AttemptsInHand(j)) + belated[j]
         <= overruns[j] + (IF Locked(j) THEN 1 ELSE 0)
    /\ belated[j] <= overruns[j]

ClaimInv == BudgetInv /\ SnapshotCurrent /\ \A j \in Jobs : Room(j)

LEMMA RoomTypes ==
    ASSUME TypeOK, NEW j \in Jobs
    PROVE  /\ IsFiniteSet(AttemptsInHand(j)) /\ Cardinality(AttemptsInHand(j)) \in Nat
           /\ overruns[j] \in Nat /\ belated[j] \in Nat
<1>1. jobs[j].attempts \in Nat /\ overruns[j] \in Nat /\ belated[j] \in Nat
  BY BudgetTypes DEF TypeOK
<1>2. IsFiniteSet(0..jobs[j].attempts)
  <2>1. 0 \in Int /\ jobs[j].attempts \in Int
    BY <1>1
  <2> QED BY <2>1, FS_Interval
<1>3. AttemptsInHand(j) \subseteq 0..jobs[j].attempts
  BY DEF AttemptsInHand
<1>4. IsFiniteSet(AttemptsInHand(j))
  BY <1>2, <1>3, FS_Subset
<1> QED BY <1>1, <1>4, FS_CardinalityType

LEMMA RoomTypesNext ==
    ASSUME TypeOK', NEW j \in Jobs
    PROVE  /\ Cardinality(AttemptsInHand(j)') \in Nat
           /\ overruns'[j] \in Nat /\ belated'[j] \in Nat
<1>1. jobs'[j].attempts \in Nat /\ overruns'[j] \in Nat /\ belated'[j] \in Nat
  BY BudgetTypesNext DEF TypeOK
<1>2. IsFiniteSet(0..jobs'[j].attempts)
  <2>1. 0 \in Int /\ jobs'[j].attempts \in Int
    BY <1>1
  <2> QED BY <2>1, FS_Interval
<1>3. AttemptsInHand(j)' \subseteq 0..jobs'[j].attempts
  BY DEF AttemptsInHand
<1>4. IsFiniteSet(AttemptsInHand(j)')
  BY <1>2, <1>3, FS_Subset
<1> QED BY <1>1, <1>4, FS_CardinalityType

\* Nothing is handed out, and the room the row gives up an overrun makes.
LEMMA RoomKept ==
    ASSUME TypeOK, TypeOK', NEW j \in Jobs, Room(j),
           jobs'[j].attempts = jobs[j].attempts,
           \A n \in Nat : HeldAt(j, n)' => HeldAt(j, n),
           belated'[j] = belated[j],
           \/ overruns'[j] = overruns[j] /\ (Locked(j) => Locked(j)')
           \/ overruns'[j] = overruns[j] + 1
    PROVE  Room(j)'
<1>1. AttemptsInHand(j)' \subseteq AttemptsInHand(j)
  BY BudgetTypes DEF AttemptsInHand
<1>2. Cardinality(AttemptsInHand(j)') <= Cardinality(AttemptsInHand(j))
  BY <1>1, RoomTypes, NoLarger
<1> QED BY <1>2, RoomTypes, RoomTypesNext DEF Room

\* Nobody is at work on the job.
LEMMA RoomEmpty ==
    ASSUME TypeOK, TypeOK', NEW j \in Jobs, Room(j), \A n \in Nat : ~HeldAt(j, n)',
           belated'[j] = belated[j], overruns'[j] = overruns[j]
    PROVE  Room(j)'
<1>1. AttemptsInHand(j)' = {}
  BY BudgetTypesNext DEF AttemptsInHand
<1>2. Cardinality(AttemptsInHand(j)') = 0
  BY <1>1, FS_EmptySet
<1> QED BY <1>2, RoomTypes, RoomTypesNext DEF Room

\* A claim takes the room of the row that was queued.
LEMMA RoomClaim ==
    ASSUME TypeOK, TypeOK', NEW j \in Jobs, Room(j), ~Locked(j), Locked(j)',
           jobs'[j].attempts = jobs[j].attempts + 1,
           \A n \in Nat : HeldAt(j, n)' => HeldAt(j, n) \/ n = jobs[j].attempts + 1,
           belated'[j] = belated[j], overruns'[j] = overruns[j]
    PROVE  Room(j)'
<1>1. AttemptsInHand(j)' \subseteq AttemptsInHand(j) \cup {jobs[j].attempts + 1}
  BY BudgetTypes DEF AttemptsInHand
<1>2. Cardinality(AttemptsInHand(j)') <= Cardinality(AttemptsInHand(j)) + 1
  BY <1>1, RoomTypes, OneMore
<1> QED BY <1>2, RoomTypes, RoomTypesNext DEF Room

\* A report gives its room up, unless the job was settled already.
LEMMA RoomReport ==
    ASSUME TypeOK, TypeOK', NEW j \in Jobs, Room(j), NEW k \in 0..jobs[j].attempts,
           HeldAt(j, k), jobs'[j].attempts = jobs[j].attempts,
           \A n \in Nat : HeldAt(j, n)' => HeldAt(j, n) /\ n # k,
           overruns'[j] = overruns[j],
           \/ jobs[j].status \in Final /\ belated'[j] = belated[j] + 1
           \/ belated'[j] = belated[j]
    PROVE  Room(j)'
<1>1. k \in AttemptsInHand(j)
  BY DEF AttemptsInHand
<1>2. AttemptsInHand(j)' \subseteq AttemptsInHand(j) \ {k}
  BY BudgetTypes DEF AttemptsInHand
<1>3. Cardinality(AttemptsInHand(j)') + 1 <= Cardinality(AttemptsInHand(j))
  BY <1>1, <1>2, RoomTypes, OneLess
<1>4. jobs[j].status \in Final => ~Locked(j)
  BY DEF Final, Locked
<1> QED BY <1>3, <1>4, RoomTypes, RoomTypesNext DEF Room

\* A drain at work on a job whose lock never ran out: the row stands for it.
LEMMA HeldIsLocked ==
    ASSUME ClaimInv, NEW w \in Workers, NEW c \in held[w], overruns[c.job] = 0
    PROVE  Locked(c.job)
<1> USE DEF ClaimInv, BudgetInv
<1>1. /\ c \in Claim /\ c.job \in Jobs /\ c.attempts \in Nat
      /\ c = [job |-> c.job, attempts |-> c.attempts]
  BY DEF TypeOK, Claim
<1>2. c.attempts \in 1..jobs[c.job].attempts
  BY DEF ClaimsPast
<1>3. c.attempts \in AttemptsInHand(c.job)
  BY <1>1, <1>2, BudgetTypes DEF AttemptsInHand, HeldAt
<1>4. Cardinality(AttemptsInHand(c.job)) >= 1
  <2>1. {} \subseteq AttemptsInHand(c.job) \ {c.attempts}
    OBVIOUS
  <2>2. Cardinality({}) + 1 <= Cardinality(AttemptsInHand(c.job))
    BY <1>1, <1>3, <2>1, RoomTypes, OneLess
  <2> QED BY <2>2, <1>1, RoomTypes, FS_EmptySet
<1> QED BY <1>1, <1>4, RoomTypes DEF Room

-----------------------------------------------------------------------------
LEMMA ClaimInvInit == Init => ClaimInv
<1> SUFFICES ASSUME Init PROVE ClaimInv
  OBVIOUS
<1>1. BudgetInv
  BY BudgetInit
<1>2. SnapshotCurrent
  BY DEF Init, SnapshotCurrent
<1>3. ASSUME NEW j \in Jobs PROVE Room(j)
  <2>1. AttemptsInHand(j) = {}
    BY DEF Init, AttemptsInHand, HeldAt
  <2>2. Cardinality(AttemptsInHand(j)) = 0
    BY <2>1, FS_EmptySet
  <2>3. overruns[j] = 0 /\ belated[j] = 0
    BY DEF Init
  <2> QED BY <2>2, <2>3 DEF Room
<1> QED BY <1>1, <1>2, <1>3 DEF ClaimInv

LEMMA ClaimInvStep ==
    ASSUME ClaimInv, TypeOK', [Next]_vars
    PROVE  ClaimInv'
<1> USE DEF ClaimInv
<1>b. BudgetInv /\ BudgetInv' /\ TypeOK
  BY BudgetStep DEF BudgetInv
<1>p. OneHolder /\ ClaimsPast
  BY <1>b DEF BudgetInv
<1>t. \A j \in Jobs : /\ jobs[j] \in Row /\ jobs[j].attempts \in Nat
                      /\ overruns[j] \in Nat /\ belated[j] \in Nat
  BY <1>b, BudgetTypes, RoomTypes DEF TypeOK
<1>n. \A w \in Workers : \A c \in held[w] :
         /\ c \in Claim /\ c.job \in Jobs /\ c.attempts \in Nat
         /\ c = [job |-> c.job, attempts |-> c.attempts]
  BY <1>b DEF TypeOK, Claim
<1>1. CASE \/ \E j \in Jobs, key \in CallerKeys \cup {NoKey} : Enqueue(j, key)
           \/ \E e \in Events : EmitEvent(e)
           \/ \E d \in Definitions : ToggleDefinition(d)
  <2>1. /\ \A j \in Jobs :
             \/ jobs'[j] = jobs[j]
             \/ /\ jobs[j].status = "absent" /\ jobs'[j].status = "queued"
                /\ jobs'[j].attempts = 0 /\ jobs'[j].limit \in AttemptLimits
        /\ UNCHANGED <<held, mishaps, overruns, belated>>
    BY <1>1, <1>b, ProducerEffect
  <2>2. SnapshotCurrent'
    BY <2>1, <1>n DEF SnapshotCurrent
  <2>3. ASSUME NEW j \in Jobs PROVE Room(j)'
    <3>1. \A n \in Nat : HeldAt(j, n)' <=> HeldAt(j, n)
      BY <2>1 DEF HeldAt
    <3>2. CASE jobs'[j] = jobs[j]
      <4>1. Locked(j)' <=> Locked(j)
        BY <3>2 DEF Locked
      <4> QED BY <2>1, <3>1, <3>2, <4>1, <1>b, RoomKept
    <3>3. CASE jobs[j].status = "absent"
      <4>1. \A n \in Nat : ~HeldAt(j, n)
        BY <3>3, <1>p DEF HeldAt, ClaimsPast
      <4> QED BY <2>1, <3>1, <4>1, <1>b, RoomEmpty
    <3> QED BY <2>1, <3>2, <3>3
  <2> QED BY <1>b, <2>2, <2>3
<1>2. ASSUME NEW w \in Workers, ClaimJobs(w) PROVE ClaimInv'
  <2>1. PICK S \in SUBSET Claimable :
           /\ \A j \in S : /\ jobs[j].status = "queued"
                           /\ jobs'[j].status = "running" /\ jobs'[j].lockedBy = w
                           /\ jobs'[j].stale = FALSE
                           /\ jobs'[j].attempts = jobs[j].attempts + 1
                           /\ jobs'[j].limit = jobs[j].limit
           /\ \A j \in Jobs \ S : jobs'[j] = jobs[j]
           /\ held' = [held EXCEPT ![w] = @ \cup {Snapshot(j) : j \in S}]
           /\ UNCHANGED <<mishaps, overruns, belated>>
    BY <1>2, <1>b, ClaimEffect
  <2>2. S \subseteq Jobs
    BY DEF Claimable
  <2>3. \A v \in Workers : \A c \in held'[v] :
           c \in held[v] \/ (v = w /\ \E j \in S : c = Snapshot(j))
    BY <1>b, <2>1 DEF TypeOK
  <2>4. SnapshotCurrent'
    <3> SUFFICES ASSUME NEW v \in Workers, NEW c \in held'[v], overruns[c.job] = 0
                 PROVE  /\ jobs'[c.job].status = "running"
                        /\ jobs'[c.job].lockedBy = v
                        /\ jobs'[c.job].attempts = c.attempts
      BY <2>1 DEF SnapshotCurrent
    <3>1. CASE c \in held[v]
      <4>1. jobs[c.job].status = "running" /\ c.job \in Jobs
        BY <3>1, <1>n DEF SnapshotCurrent
      <4>2. jobs'[c.job] = jobs[c.job]
        BY <2>1, <4>1
      <4> QED BY <3>1, <4>2 DEF SnapshotCurrent
    <3>2. CASE v = w /\ \E j \in S : c = Snapshot(j)
      BY <3>2, <2>1 DEF Snapshot
    <3> QED BY <2>3, <3>1, <3>2
  <2>5. ASSUME NEW j \in Jobs PROVE Room(j)'
    <3>1. CASE j \in S
      <4>1. ~Locked(j) /\ Locked(j)'
        BY <2>1, <3>1 DEF Locked
      <4>2. ASSUME NEW n \in Nat, HeldAt(j, n)'
            PROVE  HeldAt(j, n) \/ n = jobs[j].attempts + 1
        <5>1. PICK v \in Workers : [job |-> j, attempts |-> n] \in held'[v]
          BY <4>2 DEF HeldAt
        <5> QED BY <5>1, <2>3 DEF HeldAt, Snapshot
      <4> QED BY <2>1, <3>1, <4>1, <4>2, <1>b, RoomClaim
    <3>2. CASE j \notin S
      <4>1. \A v \in Workers : \A c \in held'[v] : c.job = j => c \in held[v]
        BY <2>3, <3>2 DEF Snapshot
      <4>2. \A n \in Nat : HeldAt(j, n)' => HeldAt(j, n)
        BY <4>1 DEF HeldAt
      <4>3. Locked(j)' <=> Locked(j)
        BY <2>1, <3>2 DEF Locked
      <4> QED BY <2>1, <3>2, <4>2, <4>3, <1>b, RoomKept
    <3> QED BY <3>1, <3>2
  <2> QED BY <1>b, <2>4, <2>5
<1>3. ASSUME NEW w \in Workers, ReportOutcome(w) PROVE ClaimInv'
  <2>1. PICK c \in held[w] :
           /\ c \in Claim
           /\ held' = [held EXCEPT ![w] = @ \ {c}]
           /\ \A j \in Jobs \ {c.job} : jobs'[j] = jobs[j]
           /\ jobs'[c.job].attempts = jobs[c.job].attempts
           /\ overruns' = overruns
           /\ belated' = IF jobs[c.job].status \in Final
                         THEN [belated EXCEPT ![c.job] = @ + 1] ELSE belated
    BY <1>3, <1>b, ReportEffect
  <2>2. \A v \in Workers : held'[v] \subseteq held[v] /\ c \notin held'[v]
    <3>1. \A v \in Workers : held'[v] \subseteq held[v]
      BY <1>b, <2>1 DEF TypeOK
    <3>2. \A v \in Workers : c \in held[v] => v = w
      BY <1>p DEF OneHolder
    <3>3. c \notin held'[w]
      BY <1>b, <2>1 DEF TypeOK
    <3> QED BY <3>1, <3>2, <3>3
  <2>3. SnapshotCurrent'
    <3> SUFFICES ASSUME NEW v \in Workers, NEW d \in held'[v], overruns[d.job] = 0
                 PROVE  /\ jobs'[d.job].status = "running"
                        /\ jobs'[d.job].lockedBy = v
                        /\ jobs'[d.job].attempts = d.attempts
      BY <2>1 DEF SnapshotCurrent
    <3>1. d \in held[v] /\ d # c
      BY <2>2
    <3>2. d.job # c.job
      <4> SUFFICES ASSUME d.job = c.job PROVE FALSE
        OBVIOUS
      <4>1. d.attempts = c.attempts
        BY <3>1 DEF SnapshotCurrent
      <4> QED BY <3>1, <4>1, <1>n
    <3>3. jobs'[d.job] = jobs[d.job]
      BY <2>1, <3>1, <3>2, <1>n
    <3> QED BY <3>1, <3>3 DEF SnapshotCurrent
  <2>4. ASSUME NEW j \in Jobs PROVE Room(j)'
    <3>1. \A n \in Nat : HeldAt(j, n)' => HeldAt(j, n)
      BY <2>2 DEF HeldAt
    <3>2. CASE j = c.job
      <4>1. c.attempts \in 0..jobs[j].attempts /\ c = [job |-> j, attempts |-> c.attempts]
        BY <2>1, <3>2, <1>n, <1>p, <1>t DEF ClaimsPast
      <4>2. HeldAt(j, c.attempts)
        BY <4>1 DEF HeldAt
      <4>3. \A n \in Nat : HeldAt(j, n)' => HeldAt(j, n) /\ n # c.attempts
        BY <2>2, <3>1, <4>1 DEF HeldAt
      <4>4. \/ jobs[j].status \in Final /\ belated'[j] = belated[j] + 1
            \/ belated'[j] = belated[j]
        BY <1>b, <2>1, <3>2 DEF TypeOK
      <4> QED BY <2>1, <3>2, <4>1, <4>2, <4>3, <4>4, <1>b, RoomReport
    <3>3. CASE j # c.job
      <4>1. belated'[j] = belated[j]
        BY <1>b, <2>1, <3>3 DEF TypeOK
      <4>2. Locked(j)' <=> Locked(j)
        BY <2>1, <3>3 DEF Locked
      <4> QED BY <2>1, <3>1, <3>3, <4>1, <4>2, <1>b, RoomKept
    <3> QED BY <3>2, <3>3
  <2> QED BY <1>b, <2>3, <2>4
<1>4. ASSUME NEW w \in Workers, Crash(w) PROVE ClaimInv'
  <2>1. /\ UNCHANGED <<jobs, overruns, belated>>
        /\ held' = [held EXCEPT ![w] = {}]
    BY <1>4 DEF Crash, history
  <2>2. \A v \in Workers : held'[v] \subseteq held[v]
    BY <1>b, <2>1 DEF TypeOK
  <2>3. SnapshotCurrent'
    BY <2>1, <2>2 DEF SnapshotCurrent
  <2>4. ASSUME NEW j \in Jobs PROVE Room(j)'
    <3>1. \A n \in Nat : HeldAt(j, n)' => HeldAt(j, n)
      BY <2>2 DEF HeldAt
    <3>2. Locked(j)' <=> Locked(j)
      BY <2>1 DEF Locked
    <3> QED BY <2>1, <3>1, <3>2, <1>b, RoomKept
  <2> QED BY <1>b, <2>3, <2>4
<1>5. CASE ReclaimStalled
  <2>1. /\ jobs' = [j \in Jobs |->
                      IF j \in Stalled
                      THEN [jobs[j] EXCEPT !.status = "queued", !.lockedBy = NoWorker,
                                           !.stale = FALSE]
                      ELSE jobs[j]]
        /\ UNCHANGED <<held, overruns, belated>>
    BY <1>5 DEF ReclaimStalled, history
  <2>2. ASSUME NEW j \in Jobs
        PROVE  /\ jobs'[j] = jobs[j] \/ ~Locked(j)
               /\ jobs'[j].attempts = jobs[j].attempts
    BY <2>1, <1>t DEF Stalled, Locked, Row
  <2>3. SnapshotCurrent'
    <3>1. ASSUME NEW v \in Workers, NEW c \in held[v], overruns[c.job] = 0
          PROVE  jobs'[c.job] = jobs[c.job]
      <4>1. Locked(c.job)
        BY <3>1, HeldIsLocked
      <4> QED BY <2>2, <4>1, <1>n
    <3> SUFFICES ASSUME NEW v \in Workers, NEW c \in held[v], overruns[c.job] = 0
                 PROVE  /\ jobs'[c.job].status = "running"
                        /\ jobs'[c.job].lockedBy = v
                        /\ jobs'[c.job].attempts = c.attempts
      BY <2>1 DEF SnapshotCurrent
    <3>2. /\ jobs[c.job].status = "running"
          /\ jobs[c.job].lockedBy = v
          /\ jobs[c.job].attempts = c.attempts
      BY DEF SnapshotCurrent
    <3>3. jobs'[c.job] = jobs[c.job]
      BY <3>1
    <3> QED BY <3>2, <3>3
  <2>4. ASSUME NEW j \in Jobs PROVE Room(j)'
    <3>1. \A n \in Nat : HeldAt(j, n)' => HeldAt(j, n)
      BY <2>1 DEF HeldAt
    <3>2. Locked(j) => Locked(j)'
      BY <2>2 DEF Locked
    <3> QED BY <2>1, <2>2, <3>1, <3>2, <1>b, RoomKept
  <2> QED BY <1>b, <2>3, <2>4
<1>6. ASSUME NEW j \in Jobs, BecomeDue(j) \/ LockExpires(j) \/ LockOverrun(j)
      PROVE  ClaimInv'
  <2>1. /\ UNCHANGED <<held, belated>>
        /\ \A i \in Jobs : /\ jobs'[i].status = jobs[i].status
                           /\ jobs'[i].attempts = jobs[i].attempts
                           /\ jobs'[i].lockedBy = jobs[i].lockedBy
                           /\ \/ jobs'[i].stale = jobs[i].stale /\ overruns'[i] = overruns[i]
                              \/ ~InHand(i) /\ overruns'[i] = overruns[i]
                              \/ overruns'[i] = overruns[i] + 1
    <3>1. CASE BecomeDue(j)
      BY <3>1, <1>b, <1>t DEF BecomeDue, Row, TypeOK, history
    <3>2. CASE LockExpires(j)
      BY <3>2, <1>b, <1>t DEF LockExpires, Row, TypeOK, history
    <3>3. CASE LockOverrun(j)
      <4>1. /\ jobs' = [jobs EXCEPT ![j].stale = TRUE]
            /\ overruns' = [overruns EXCEPT ![j] = @ + 1]
            /\ UNCHANGED <<held, belated>>
        BY <3>3, Zenon DEF LockOverrun
      <4> QED BY <4>1, <1>b, <1>t DEF Row, TypeOK
    <3> QED BY <1>6, <3>1, <3>2, <3>3
  <2>2. SnapshotCurrent'
    <3> SUFFICES ASSUME NEW v \in Workers, NEW c \in held[v], overruns'[c.job] = 0
                 PROVE  /\ jobs'[c.job].status = "running"
                        /\ jobs'[c.job].lockedBy = v
                        /\ jobs'[c.job].attempts = c.attempts
      BY <2>1 DEF SnapshotCurrent
    <3>1. /\ overruns[c.job] = 0
          /\ jobs'[c.job].status = jobs[c.job].status
          /\ jobs'[c.job].lockedBy = jobs[c.job].lockedBy
          /\ jobs'[c.job].attempts = jobs[c.job].attempts
      BY <2>1, <1>n, <1>t
    <3>2. /\ jobs[c.job].status = "running"
          /\ jobs[c.job].lockedBy = v
          /\ jobs[c.job].attempts = c.attempts
      BY <3>1 DEF SnapshotCurrent
    <3> QED BY <3>1, <3>2
  <2>3. ASSUME NEW i \in Jobs PROVE Room(i)'
    <3>1. \A n \in Nat : HeldAt(i, n)' <=> HeldAt(i, n)
      BY <2>1 DEF HeldAt
    <3>2. CASE jobs'[i].stale = jobs[i].stale /\ overruns'[i] = overruns[i]
      <4>1. Locked(i)' <=> Locked(i)
        BY <2>1, <3>2 DEF Locked
      <4> QED BY <2>1, <3>1, <3>2, <4>1, <1>b, RoomKept
    <3>3. CASE ~InHand(i) /\ overruns'[i] = overruns[i]
      <4>1. \A n \in Nat : ~HeldAt(i, n)
        BY <3>3 DEF HeldAt, InHand
      <4> QED BY <2>1, <3>1, <3>3, <4>1, <1>b, RoomEmpty
    <3>4. CASE overruns'[i] = overruns[i] + 1
      BY <2>1, <3>1, <3>4, <1>b, RoomKept
    <3> QED BY <2>1, <3>2, <3>3, <3>4
  <2> QED BY <1>b, <2>2, <2>3
<1>7. CASE UNCHANGED vars
  <2>1. SnapshotCurrent'
    BY <1>7 DEF vars, SnapshotCurrent
  <2>2. \A j \in Jobs : Room(j)'
    BY <1>7 DEF vars, Room, AttemptsInHand, HeldAt, Locked
  <2> QED BY <1>b, <2>1, <2>2
<1> QED BY <1>1, <1>2, <1>3, <1>4, <1>5, <1>6, <1>7 DEF Next

\* Whatever crashes and overruns: a drain's snapshot of a job whose lock never
\* ran out is current when it is used and nobody else has one, and beyond the
\* one claim a locked row stands for, no more drains are at work on a job, or
\* report on it once it is settled, than its lock was overrun.
THEOREM ClaimsHold == Spec => []ClaimsCurrent
<1>1. Init => ClaimInv
  BY ClaimInvInit
<1>2. ClaimInv /\ TypeOK' /\ [Next]_vars => ClaimInv'
  BY ClaimInvStep
<1>3. ClaimInv => ClaimsCurrent
  BY DEF ClaimInv, ClaimsCurrent, OverlapAccountedFor, Room
<1> QED BY <1>1, <1>2, <1>3, TypeCorrect, PTL DEF Spec

\* A job that has succeeded or is dead is touched by nothing but a report that
\* came late, after an overrun of its own lock, and by no more of them than
\* there were overruns: no claim or reclaim revives it, and without an overrun
\* it never changes again.
THEOREM FinalStays == Spec => FinalIsFinal
<1> DEFINE OnlyLate(j) ==
      jobs[j].status \in Final /\ jobs'[j] # jobs[j] =>
          belated'[j] = belated[j] + 1 /\ belated'[j] <= overruns[j]
<1>1. Init => ClaimInv
  BY ClaimInvInit
<1>2. ClaimInv /\ TypeOK' /\ [Next]_vars => ClaimInv'
  BY ClaimInvStep
<1>3. ClaimInv /\ ClaimInv' /\ [Next]_vars => [\A j \in Jobs : OnlyLate(j)]_vars
  <2> SUFFICES ASSUME ClaimInv, ClaimInv', Next, NEW j \in Jobs, jobs[j].status \in Final,
                      jobs'[j] # jobs[j]
               PROVE  belated'[j] = belated[j] + 1 /\ belated'[j] <= overruns[j]
    OBVIOUS
  <2> USE DEF Final
  <2>t. TypeOK
    BY DEF ClaimInv, BudgetInv
  <2>1. CASE \/ \E i \in Jobs, key \in CallerKeys \cup {NoKey} : Enqueue(i, key)
             \/ \E e \in Events : EmitEvent(e)
             \/ \E d \in Definitions : ToggleDefinition(d)
    BY <2>1, <2>t, ProducerEffect
  <2>2. ASSUME NEW w \in Workers, ClaimJobs(w) PROVE FALSE
    BY <2>2, <2>t, ClaimEffect
  <2>3. ASSUME NEW w \in Workers, ReportOutcome(w)
        PROVE  belated'[j] = belated[j] + 1 /\ belated'[j] <= overruns[j]
    <3>1. PICK c \in held[w] :
             /\ \A i \in Jobs \ {c.job} : jobs'[i] = jobs[i]
             /\ overruns' = overruns
             /\ belated' = IF jobs[c.job].status \in Final
                           THEN [belated EXCEPT ![c.job] = @ + 1] ELSE belated
      BY <2>3, <2>t, ReportEffect
    <3>2. j = c.job
      BY <3>1
    <3>3. belated'[j] = belated[j] + 1
      BY <2>t, <3>1, <3>2 DEF TypeOK
    <3>4. belated'[j] <= overruns'[j]
      BY DEF ClaimInv, Room
    <3> QED BY <3>1, <3>3, <3>4
  <2>4. ASSUME NEW w \in Workers, Crash(w) PROVE FALSE
    BY <2>4 DEF Crash
  <2>5. CASE ReclaimStalled
    BY <2>5 DEF ReclaimStalled, Stalled
  <2>6. ASSUME NEW i \in Jobs, BecomeDue(i) \/ LockExpires(i) \/ LockOverrun(i)
        PROVE  FALSE
    <3>1. jobs[i].status # jobs[j].status
      BY <2>6 DEF BecomeDue, LockExpires, LockOverrun
    <3>2. \/ jobs' = [jobs EXCEPT ![i].due = TRUE]
          \/ jobs' = [jobs EXCEPT ![i].stale = TRUE]
      BY <2>6 DEF BecomeDue, LockExpires, LockOverrun
    <3> QED BY <2>t, <3>1, <3>2 DEF TypeOK
  <2> QED BY <2>1, <2>2, <2>3, <2>4, <2>5, <2>6 DEF Next
<1> QED BY <1>1, <1>2, <1>3, TypeCorrect, PTL DEF Spec, FinalIsFinal

=============================================================================
