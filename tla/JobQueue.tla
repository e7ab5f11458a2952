------------------------------ MODULE JobQueue ------------------------------
(***************************************************************************)
(* The Postgres-backed job queue of packages/workflow/src/queue.ts.        *)
(*                                                                         *)
(* Each operation of the queue runs in its own tenant transaction and is   *)
(* one action.  A drain (a worker that claims jobs, performs them and      *)
(* reports the outcome) is driven from outside the repository: what it     *)
(* keeps between claimJobs and completeJob / failJob is the ClaimedJob it  *)
(* was handed, a snapshot that is not re-read from the table.              *)
(*                                                                         *)
(* Wall-clock time is abstracted to the two comparisons the queue makes:   *)
(* "due" stands for run_after <= now(), "stale" for locked_at older than   *)
(* the reclaim threshold.  The claim order (ORDER BY run_after) is left    *)
(* open: a drain may take any of the due jobs.                             *)
(***************************************************************************)
EXTENDS Naturals, FiniteSets

CONSTANTS
    Jobs,           \* row identities of job_queue
    Workers,        \* drains, by the workerId they pass to claimJobs
    Definitions,    \* workflow definitions that may subscribe to an event
    Events,         \* identities of domain_events rows
    CallerKeys,     \* idempotency keys callers of enqueue choose themselves
    AttemptLimits,  \* the max_attempts values callers of enqueue use
    DefaultLimit,   \* max_attempts when the caller names none (5 in the code)
    DrainLimit,     \* the limit argument of claimJobs
    MaxMishaps      \* bound: how many crashes and overruns a behaviour has

ASSUME LimitsAssumption ==
    /\ AttemptLimits \subseteq Nat \ {0}
    /\ DefaultLimit \in AttemptLimits
    /\ DrainLimit \in Nat \ {0}
    /\ MaxMishaps \in Nat

VARIABLES
    jobs,     \* the job_queue table
    held,     \* per drain, the ClaimedJob snapshots it has not reported on
    events,   \* the emitted domain_events, each with the subscribers it found
    active,   \* definitions whose status is 'active'
    mishaps   \* crashes and overruns so far, bounded by MaxMishaps

\* History of each job, which no guard reads and the properties count with:
VARIABLES
    overruns, \* how often its lock expired while a drain was at work on it
    belated   \* how many reports found it settled already

history == <<overruns, belated>>

vars == <<jobs, held, events, active, mishaps, overruns, belated>>

NoKey == <<>>
NoWorker == "none"
Key == (Definitions \X Events) \cup CallerKeys \cup {NoKey}
Final == {"succeeded", "dead"}

Row == [status: {"absent", "queued", "running", "succeeded", "dead"},
        attempts: Nat, limit: AttemptLimits, key: Key,
        due: BOOLEAN, lockedBy: Workers \cup {NoWorker}, stale: BOOLEAN]

NotEmitted == {NoKey}   \* no event, as opposed to one without subscribers

Claim == [job: Jobs, attempts: Nat]

Absent == [status |-> "absent", attempts |-> 0, limit |-> DefaultLimit,
           key |-> NoKey, due |-> FALSE, lockedBy |-> NoWorker, stale |-> FALSE]

TypeOK ==
    /\ jobs \in [Jobs -> Row]
    /\ held \in [Workers -> SUBSET Claim]
    /\ events \in [Events -> (SUBSET Definitions) \cup {NotEmitted}]
    /\ active \in SUBSET Definitions
    /\ mishaps \in Nat
    /\ overruns \in [Jobs -> Nat] /\ belated \in [Jobs -> Nat]

Init ==
    /\ jobs = [j \in Jobs |-> Absent]
    /\ held = [w \in Workers |-> {}]
    /\ events = [e \in Events |-> NotEmitted]
    /\ active \in SUBSET Definitions
    /\ mishaps = 0
    /\ overruns = [j \in Jobs |-> 0] /\ belated = [j \in Jobs |-> 0]

Inserted(limit, key, due) ==
    [Absent EXCEPT !.status = "queued", !.limit = limit, !.key = key, !.due = due]

Taken(key) == key # NoKey /\ \E j \in Jobs : jobs[j].key = key

-----------------------------------------------------------------------------
(* Producers. *)

\* enqueue: a new row, unless its idempotency key is taken (ON CONFLICT DO
\* NOTHING: the caller is told "deduplicated" and nothing changes).
Enqueue(j, key) ==
    /\ jobs[j].status = "absent"
    /\ ~Taken(key)
    /\ \E limit \in AttemptLimits, due \in BOOLEAN :
          jobs' = [jobs EXCEPT ![j] = Inserted(limit, key, due)]
    /\ UNCHANGED <<held, events, active, mishaps, history>>

\* Seeded fault: the event commits in a transaction of its own, the jobs never do.
EmitEvent_Alone(e) ==
    /\ events[e] = NotEmitted
    /\ events' = [events EXCEPT ![e] = active]
    /\ UNCHANGED <<jobs, held, active, mishaps, history>>

\* emitEvent: the event and one workflow.start job per active subscriber,
\* keyed <subscriber>:<event>, in one transaction.  A taken key inserts
\* nothing (ON CONFLICT DO NOTHING).
EmitEvent(e) ==
    LET fresh == {d \in active : ~Taken(<<d, e>>)}
    IN  /\ events[e] = NotEmitted
        /\ events' = [events EXCEPT ![e] = active]
        /\ \E id \in [fresh -> {j \in Jobs : jobs[j].status = "absent"}] :
              /\ \A d1, d2 \in fresh : id[d1] = id[d2] => d1 = d2
              /\ jobs' = [j \in Jobs |->
                            IF \E d \in fresh : id[d] = j
                            THEN Inserted(DefaultLimit,
                                          <<CHOOSE d \in fresh : id[d] = j, e>>, TRUE)
                            ELSE jobs[j]]
        /\ UNCHANGED <<held, active, mishaps, history>>

\* An administrator activates or pauses a definition (not code under src/:
\* the rows emitEvent reads are edited elsewhere).
ToggleDefinition(d) ==
    /\ active' = IF d \in active THEN active \ {d} ELSE active \cup {d}
    /\ UNCHANGED <<jobs, held, events, mishaps, history>>

-----------------------------------------------------------------------------
(* Drains. *)

\* Seeded fault: dead jobs are picked up again.
Claimable_Dead == {j \in Jobs : jobs[j].status \in {"queued", "dead"} /\ jobs[j].due}

Claimable == {j \in Jobs : jobs[j].status = "queued" /\ jobs[j].due}

\* Seeded fault: the drain is handed the number of attempts before the claim.
Snapshot_Before(j) == [job |-> j, attempts |-> jobs[j].attempts]

\* The ClaimedJob returned (RETURNING j.attempts, after the increment).
Snapshot(j) == [job |-> j, attempts |-> jobs[j].attempts + 1]

\* claimJobs: FOR UPDATE SKIP LOCKED makes the selection and the update one
\* step; rows a concurrent drain has locked are passed over, so fewer than
\* there are may be taken.
ClaimJobs(w) ==
    /\ Claimable # {}
    /\ \E S \in SUBSET Claimable :
          /\ S # {} /\ Cardinality(S) <= DrainLimit
          /\ jobs' = [j \in Jobs |->
                        IF j \in S
                        THEN [jobs[j] EXCEPT !.status = "running", !.lockedBy = w,
                                             !.stale = FALSE, !.attempts = @ + 1]
                        ELSE jobs[j]]
          /\ held' = [held EXCEPT ![w] = @ \cup {Snapshot(j) : j \in S}]
    /\ UNCHANGED <<events, active, mishaps, history>>

\* The drain is done with the claim, whatever has become of the job meanwhile.
Report(w, c) ==
    /\ held' = [held EXCEPT ![w] = @ \ {c}]
    /\ belated' = IF jobs[c.job].status \in Final
                  THEN [belated EXCEPT ![c.job] = @ + 1] ELSE belated

\* completeJob: keyed by the job id alone.
CompleteJob(w, c) ==
    /\ c \in held[w]
    /\ jobs' = [jobs EXCEPT ![c.job] =
                  [@ EXCEPT !.status = "succeeded", !.lockedBy = NoWorker]]
    /\ Report(w, c)
    /\ UNCHANGED <<events, active, mishaps, overruns>>

\* failJob's test (job.attempts >= job.maxAttempts), with two seeded faults:
\* one attempt too few, one too many.
Exhausted_Early(c) == c.attempts + 1 >= jobs[c.job].limit
Exhausted_Late(c) == c.attempts > jobs[c.job].limit

Exhausted(c) == c.attempts >= jobs[c.job].limit

\* Seeded fault: "failed", which the table allows and no query looks for.
FailJobForGood_Status(w, c) ==
    /\ c \in held[w]
    /\ Exhausted(c)
    /\ jobs' = [jobs EXCEPT ![c.job] = [@ EXCEPT !.status = "failed", !.lockedBy = NoWorker]]
    /\ Report(w, c)
    /\ UNCHANGED <<events, active, mishaps, overruns>>

\* failJob, attempts exhausted: the dead letter state.
FailJobForGood(w, c) ==
    /\ c \in held[w]
    /\ Exhausted(c)
    /\ jobs' = [jobs EXCEPT ![c.job] = [@ EXCEPT !.status = "dead", !.lockedBy = NoWorker]]
    /\ Report(w, c)
    /\ UNCHANGED <<events, active, mishaps, overruns>>

\* failJob, attempts left: queued again, to run after the backoff.
FailJobForNow(w, c) ==
    /\ c \in held[w]
    /\ ~Exhausted(c)
    /\ jobs' = [jobs EXCEPT ![c.job] =
                  [@ EXCEPT !.status = "queued", !.lockedBy = NoWorker, !.due = FALSE]]
    /\ Report(w, c)
    /\ UNCHANGED <<events, active, mishaps, overruns>>

\* A drain dies (deployment, timeout): the snapshots it held are gone.
Crash(w) ==
    /\ held[w] # {}
    /\ mishaps < MaxMishaps
    /\ mishaps' = mishaps + 1
    /\ held' = [held EXCEPT ![w] = {}]
    /\ UNCHANGED <<jobs, events, active, history>>

-----------------------------------------------------------------------------
(* Housekeeping and time. *)

\* Seeded faults: the age of the lock is not looked at; the wrong status is.
Stalled_AnyAge == {j \in Jobs : jobs[j].status = "running"}
Stalled_Queued == {j \in Jobs : jobs[j].status = "queued" /\ jobs[j].stale}

Stalled == {j \in Jobs : jobs[j].status = "running" /\ jobs[j].stale}

\* reclaimStalled: every running job whose lock is too old goes back.
ReclaimStalled ==
    /\ Stalled # {}
    /\ jobs' = [j \in Jobs |->
                  IF j \in Stalled
                  THEN [jobs[j] EXCEPT !.status = "queued", !.lockedBy = NoWorker,
                                       !.stale = FALSE]
                  ELSE jobs[j]]
    /\ UNCHANGED <<held, events, active, mishaps, history>>

\* run_after passes.
BecomeDue(j) ==
    /\ jobs[j].status = "queued" /\ ~jobs[j].due
    /\ jobs' = [jobs EXCEPT ![j].due = TRUE]
    /\ UNCHANGED <<held, events, active, mishaps, history>>

InHand(j) == \E w \in Workers : \E c \in held[w] : c.job = j

\* The lock of a job nobody works on any more passes the reclaim threshold.
LockExpires(j) ==
    /\ jobs[j].status = "running" /\ ~jobs[j].stale
    /\ ~InHand(j)
    /\ jobs' = [jobs EXCEPT ![j].stale = TRUE]
    /\ UNCHANGED <<held, events, active, mishaps, history>>

\* The lock passes the threshold while a drain is still at work on the job.
LockOverrun(j) ==
    /\ mishaps < MaxMishaps
    /\ jobs[j].status = "running" /\ ~jobs[j].stale
    /\ InHand(j)
    /\ jobs' = [jobs EXCEPT ![j].stale = TRUE]
    /\ mishaps' = mishaps + 1
    /\ overruns' = [overruns EXCEPT ![j] = @ + 1]
    /\ UNCHANGED <<held, events, active, belated>>

-----------------------------------------------------------------------------
ReportOutcome(w) ==
    \E c \in held[w] : CompleteJob(w, c) \/ FailJobForGood(w, c) \/ FailJobForNow(w, c)

Next ==
    \/ \E j \in Jobs, key \in CallerKeys \cup {NoKey} : Enqueue(j, key)
    \/ \E j \in Jobs : BecomeDue(j) \/ LockExpires(j) \/ LockOverrun(j)
    \/ \E e \in Events : EmitEvent(e)
    \/ \E d \in Definitions : ToggleDefinition(d)
    \/ \E w \in Workers : ClaimJobs(w) \/ ReportOutcome(w) \/ Crash(w)
    \/ ReclaimStalled

Spec == Init /\ [][Next]_vars

(***************************************************************************)
(* A cron drains the queue and reclaims stalled jobs again and again, time *)
(* passes, and a drain that is still alive reports on each job it holds.   *)
(***************************************************************************)
Fairness ==
    /\ WF_vars(\E w \in Workers : ClaimJobs(w))
    /\ \A w \in Workers : WF_vars(ReportOutcome(w))
    /\ WF_vars(ReclaimStalled)
    /\ \A j \in Jobs : WF_vars(BecomeDue(j)) /\ WF_vars(LockExpires(j))

FairSpec == Spec /\ Fairness

-----------------------------------------------------------------------------
(* Properties. *)

\* A drain's snapshot is still the truth when it is used, unless the lock of
\* this very job has run out under it: the job is running, locked by that drain
\* alone, on the very attempt it was handed, so that failJob compares a current
\* number with max_attempts.  An overrun of one job never touches another.
SnapshotCurrent ==
    \A w \in Workers : \A c \in held[w] :
        overruns[c.job] = 0 =>
            /\ jobs[c.job].status = "running"
            /\ jobs[c.job].lockedBy = w
            /\ jobs[c.job].attempts = c.attempts

HeldAt(j, n) == \E w \in Workers : [job |-> j, attempts |-> n] \in held[w]

AttemptsInHand(j) == {n \in 0..jobs[j].attempts : HeldAt(j, n)}

\* Does the row still stand for a drain at work on it?
Locked(j) == jobs[j].status = "running" /\ ~jobs[j].stale

\* Beyond the one claim a locked row stands for, no more drains are at work on
\* a job, or have reported after it was settled, than its lock was overrun.
OverlapAccountedFor ==
    \A j \in Jobs :
        Cardinality(AttemptsInHand(j)) + belated[j]
            <= overruns[j] + (IF Locked(j) THEN 1 ELSE 0)

\* A job is executed at most max_attempts times, plus once for each time a
\* drain died under it: reclaimStalled does not look at the attempts.
AttemptsAccountedFor ==
    \A j \in Jobs : jobs[j].attempts <= jobs[j].limit + mishaps

\* A job is given up only when its attempts really are used up.
DeadOnlyWhenExhausted ==
    \A j \in Jobs : jobs[j].status = "dead" => jobs[j].attempts >= jobs[j].limit

\* What claimJobs' FOR UPDATE SKIP LOCKED and the reclaim threshold give
\* together: a job has one drain at work on it and that drain's snapshot is
\* current, and each overrun of its lock adds one drain at most.
ClaimsCurrent == SnapshotCurrent /\ OverlapAccountedFor

\* max_attempts is kept to, from above and from below, also when claims overlap.
AttemptsHonest == AttemptsAccountedFor /\ DeadOnlyWhenExhausted

\* Every subscriber an emitted event found has its job in the table.
EmittedMeansQueued ==
    \A e \in Events : events[e] # NotEmitted =>
        \A d \in events[e] : \E j \in Jobs : jobs[j].key = <<d, e>>

\* A job that has succeeded or is dead is touched by nothing but the report of
\* a drain whose lock on it ran out (completeJob and failJob go by the id
\* alone), and in its whole life by no more reports than its lock had overruns:
\* never by a claim or a reclaim, and never at all if no lock of it ran out.
FinalIsFinal ==
    [][\A j \in Jobs : jobs[j].status \in Final /\ jobs'[j] # jobs[j] =>
           belated'[j] = belated[j] + 1 /\ belated'[j] <= overruns[j]]_vars

\* Nothing is silently dropped: a queued job ends up succeeded or dead,
\* whatever fails and whoever dies on the way.
EveryJobSettles ==
    \A j \in Jobs : jobs[j].status = "queued" ~> jobs[j].status \in Final

=============================================================================
