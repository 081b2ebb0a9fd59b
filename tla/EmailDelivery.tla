---------------------------- MODULE EmailDelivery ----------------------------
(***************************************************************************)
(* One email row in Postgres, its BullMQ job in Redis, and everybody who   *)
(* touches either: worker processes running processEmail concurrently      *)
(* (apps/api/src/queue/emailWorker.ts), the reconciler                     *)
(* (scheduler/reconciler.ts), the cancel endpoint                          *)
(* (modules/emails/emails.service.ts) and the enqueue half of              *)
(* scheduleCampaign.  Every await that separates two shared reads or       *)
(* writes is a step boundary.  Time is abstract: a job's delay and the     *)
(* hourly quota's verdict are nondeterministic, lockedAt is null, fresh    *)
(* or stale with respect to STALE_LOCK_MS.                                 *)
(***************************************************************************)
EXTENDS Integers, FiniteSets

CONSTANTS
    Emails,         \* email_jobs rows (the row id is also the BullMQ jobId)
    Procs,          \* process incarnations; a restarted process is another one
    Runs,           \* slots in which a process executes processEmail
    Sweeps,         \* executions of reconcile(), at boot or by the timer
    HostOf,         \* the process a run or a sweep executes in
    None,           \* "no process", "no run", "no email"
    MaxAttempts,    \* MAX_ATTEMPTS: of the row and of the BullMQ job
    MaxReschedules, \* MAX_RESCHEDULES
    MaxStalledCount,\* maxStalledCount of the BullMQ worker
    ResendModes,    \* RESEND_SUSPECT_JOBS; both while a deployment changes it
    SmtpOutcomes,   \* how an SMTP handoff may end
    StoreFaults,    \* steps whose Postgres or Redis call may throw ("sweep":
                    \* those of reconcile)
    Cancellable,    \* rows the user may cancel
    Mortal,         \* processes that may crash
    SlowRuns,       \* may a live run outlast STALE_LOCK_MS?
    LiveStalls,     \* may a live run lose its BullMQ lock?
    MaxFlushes      \* bound: how often Redis may lose its data

Pending  == {"SCHEDULED", "QUEUED"}
Terminal == {"SENT", "FAILED", "CANCELLED"}
Statuses == Pending \cup {"PROCESSING"} \cup Terminal
JobStates == {"absent", "queued", "active", "completed", "failed"}
\* The steps of processEmail at which the run holds the row's claim ...
Owning == {"reserve", "send", "record", "reject", "catch", "defer"}
\* ... and all of them; "ack*" is the report BullMQ gets from the processor.
Acks  == {"ackDone", "ackRetry", "ackDead"}
Steps == {"load", "claim", "count", "delay"} \cup Owning \cup Acks

ASSUME BudgetAssumption ==
    /\ MaxAttempts \in Nat \ {0}
    /\ MaxReschedules \in Nat \ {0}
    /\ MaxStalledCount \in Nat
    /\ MaxFlushes \in Nat
ASSUME ActorAssumption ==
    /\ HostOf \in [Runs \cup Sweeps -> Procs]
    /\ None \notin Procs \cup Runs \cup Emails
    /\ Mortal \subseteq Procs
    /\ Cancellable \subseteq Emails
ASSUME FaultAssumption ==
    /\ SmtpOutcomes \subseteq {"accepted", "rejected", "error", "lostReply"}
    /\ StoreFaults \subseteq (Steps \cup {"sweep"}) \ (Acks \cup {"send"})
    /\ ResendModes \cup {SlowRuns, LiveStalls} \subseteq BOOLEAN

VARIABLES
    status, attempts, rescheduleCount, lockedBy, lockedAt,   \* email_jobs
    jobState, jobOwner, attemptsMade, stalledCount,          \* BullMQ
    pc, email, rowAttempts, rowReschedules,                  \* processEmail
    sweepPc, toResend, toFail, page,                         \* reconcile
    cancelPc,                                                \* cancelEmail
    toEnqueue,                                               \* scheduleCampaign
    alive, flushes,                                          \* environment
    handed, accepted                                         \* SMTP server

rowVars   == <<status, attempts, rescheduleCount, lockedBy, lockedAt>>
jobVars   == <<jobState, jobOwner, attemptsMade, stalledCount>>
runVars   == <<pc, email, rowAttempts, rowReschedules>>
sweepVars == <<sweepPc, toResend, toFail, page>>
apiVars   == <<cancelPc, toEnqueue>>
envVars   == <<alive, flushes>>
smtpVars  == <<handed, accepted>>
vars == <<rowVars, jobVars, runVars, sweepVars, apiVars, envVars, smtpVars>>

\* Every variable has its type, a run holds an email iff it is in a job, and a
\* row carries an owner and an age in its lock columns exactly while it is
\* PROCESSING: every status update outside the claim clears both columns.
TypeOK ==
    /\ status \in [Emails -> Statuses]
    /\ attempts \in [Emails -> Int]
    /\ rescheduleCount \in [Emails -> Nat]
    /\ lockedBy \in [Emails -> Procs \cup {None}]
    /\ lockedAt \in [Emails -> {"null", "fresh", "stale"}]
    /\ \A e \in Emails : /\ lockedBy[e] = None <=> status[e] # "PROCESSING"
                         /\ lockedAt[e] = "null" <=> status[e] # "PROCESSING"
    /\ jobState \in [Emails -> JobStates]
    /\ jobOwner \in [Emails -> Runs \cup {None}]
    /\ attemptsMade \in [Emails -> Nat]
    /\ stalledCount \in [Emails -> Nat]
    /\ pc \in [Runs -> Steps \cup {"idle"}]
    /\ email \in [Runs -> Emails \cup {None}]
    /\ \A r \in Runs : email[r] = None <=> pc[r] = "idle"
    /\ rowAttempts \in [Runs -> Int]
    /\ rowReschedules \in [Runs -> Nat]
    /\ sweepPc \in [Sweeps -> {"idle", "abandoned", "outstanding"}]
    /\ toResend \in [Sweeps -> SUBSET Emails]
    /\ toFail \in [Sweeps -> SUBSET Emails]
    /\ page \in [Sweeps -> SUBSET Emails]
    /\ cancelPc \in [Emails -> {"idle", "write", "remove", "done"}]
    /\ toEnqueue \in SUBSET Emails
    /\ alive \in [Procs -> BOOLEAN]
    /\ flushes \in 0..MaxFlushes
    /\ handed \in [Emails -> Nat]
    /\ accepted \in [Emails -> Nat]

\* scheduleCampaign has committed the rows and has not yet told Redis.
Init ==
    /\ status = [e \in Emails |-> "SCHEDULED"]
    /\ attempts = [e \in Emails |-> 0]
    /\ rescheduleCount = [e \in Emails |-> 0]
    /\ lockedBy = [e \in Emails |-> None]
    /\ lockedAt = [e \in Emails |-> "null"]
    /\ jobState = [e \in Emails |-> "absent"]
    /\ jobOwner = [e \in Emails |-> None]
    /\ attemptsMade = [e \in Emails |-> 0]
    /\ stalledCount = [e \in Emails |-> 0]
    /\ pc = [r \in Runs |-> "idle"]
    /\ email = [r \in Runs |-> None]
    /\ rowAttempts = [r \in Runs |-> 0]
    /\ rowReschedules = [r \in Runs |-> 0]
    /\ sweepPc = [c \in Sweeps |-> "idle"]
    /\ toResend = [c \in Sweeps |-> {}]
    /\ toFail = [c \in Sweeps |-> {}]
    /\ page = [c \in Sweeps |-> {}]
    /\ cancelPc = [e \in Emails |-> "idle"]
    /\ toEnqueue = Emails
    /\ alive = [p \in Procs |-> TRUE]
    /\ flushes = 0
    /\ handed = [e \in Emails |-> 0]
    /\ accepted = [e \in Emails |-> 0]

------------------------------------------------------------------------------
(* Writes shared by several actions. *)

\* Every status update except the claim clears both lock columns; the buggy
\* variant leaves the age of the lock behind.
SetStatusKeepsAge(e, s) ==
    /\ status' = [status EXCEPT ![e] = s]
    /\ lockedBy' = [lockedBy EXCEPT ![e] = None]
    /\ UNCHANGED lockedAt

SetStatus(e, s) ==
    /\ status' = [status EXCEPT ![e] = s]
    /\ lockedBy' = [lockedBy EXCEPT ![e] = None]
    /\ lockedAt' = [lockedAt EXCEPT ![e] = "null"]

\* Queue.add: a silent no-op when a job with that id is still known.
AddJob(e) ==
    jobState' = [jobState EXCEPT ![e] = IF @ = "absent" THEN "queued" ELSE @]

GoTo(r, step) ==
    /\ pc' = [pc EXCEPT ![r] = step]
    /\ UNCHANGED <<email, rowAttempts, rowReschedules>>

\* processEmail returns or throws: what it read of the row is gone.
Return(r, ack) ==
    /\ pc' = [pc EXCEPT ![r] = ack]
    /\ rowAttempts' = [rowAttempts EXCEPT ![r] = 0]
    /\ rowReschedules' = [rowReschedules EXCEPT ![r] = 0]
    /\ UNCHANGED email

\* The set of runs that currently hold the claim of row e.
Owners(e) == {r \in Runs : email[r] = e /\ pc[r] \in Owning}
------------------------------------------------------------------------------
(* scheduleCampaign, second half *)

EnqueueEmailJobs(e) ==
    /\ e \in toEnqueue
    /\ toEnqueue' = toEnqueue \ {e}
    /\ AddJob(e)
    /\ UNCHANGED <<rowVars, jobOwner, attemptsMade, stalledCount, runVars,
                   sweepVars, cancelPc, envVars, smtpVars>>

------------------------------------------------------------------------------
(* BullMQ, external: hands jobs to runs and recovers stalled ones *)

Fetch(r, e) ==
    /\ pc[r] = "idle" /\ alive[HostOf[r]]
    /\ jobState[e] = "queued"
    /\ jobState' = [jobState EXCEPT ![e] = "active"]
    /\ jobOwner' = [jobOwner EXCEPT ![e] = r]
    /\ pc' = [pc EXCEPT ![r] = "load"]
    /\ email' = [email EXCEPT ![r] = e]
    /\ UNCHANGED <<rowVars, attemptsMade, stalledCount, rowAttempts,
                   rowReschedules, sweepVars, apiVars, envVars, smtpVars>>

\* The job lock expired: its process died, or (LiveStalls) stopped renewing it.
Stall(e) ==
    /\ jobState[e] = "active"
    /\ LiveStalls \/ jobOwner[e] = None
    /\ stalledCount' = [stalledCount EXCEPT ![e] = @ + 1]
    /\ jobState' = [jobState EXCEPT ![e] =
           IF stalledCount[e] < MaxStalledCount THEN "queued" ELSE "failed"]
    /\ jobOwner' = [jobOwner EXCEPT ![e] = None]
    /\ UNCHANGED <<rowVars, attemptsMade, runVars, sweepVars, apiVars, envVars,
                   smtpVars>>

\* removeOnComplete / removeOnFail: a finished job is eventually forgotten.
Evict(e) ==
    /\ jobState[e] \in {"completed", "failed"}
    /\ jobState' = [jobState EXCEPT ![e] = "absent"]
    /\ attemptsMade' = [attemptsMade EXCEPT ![e] = 0]
    /\ stalledCount' = [stalledCount EXCEPT ![e] = 0]
    /\ UNCHANGED <<rowVars, jobOwner, runVars, sweepVars, apiVars, envVars,
                   smtpVars>>

\* A flush, an eviction, a fresh Redis container.
RedisLoss ==
    /\ flushes < MaxFlushes
    /\ flushes' = flushes + 1
    /\ jobState' = [e \in Emails |-> "absent"]
    /\ jobOwner' = [e \in Emails |-> None]
    /\ attemptsMade' = [e \in Emails |-> 0]
    /\ stalledCount' = [e \in Emails |-> 0]
    /\ UNCHANGED <<rowVars, runVars, sweepVars, apiVars, alive, smtpVars>>

\* What BullMQ does with the processor's outcome; ignored unless the run
\* still holds the job's lock.
Outcome(r) ==
    LET e == email[r] IN
    IF pc[r] = "ackDone" THEN "completed"
    ELSE IF pc[r] = "ackRetry" /\ attemptsMade[e] + 1 < MaxAttempts THEN "queued"
    ELSE "failed"

Ack(r) ==
    LET e == email[r] IN
    /\ pc[r] \in Acks
    /\ pc' = [pc EXCEPT ![r] = "idle"]
    /\ email' = [email EXCEPT ![r] = None]
    /\ IF jobState[e] = "active" /\ jobOwner[e] = r
       THEN /\ jobState' = [jobState EXCEPT ![e] = Outcome(r)]
            /\ jobOwner' = [jobOwner EXCEPT ![e] = None]
            /\ attemptsMade' = [attemptsMade EXCEPT ![e] = @ + 1]
       ELSE UNCHANGED <<jobState, jobOwner, attemptsMade>>
    /\ UNCHANGED <<rowVars, stalledCount, rowAttempts, rowReschedules, sweepVars,
                   apiVars, envVars, smtpVars>>
------------------------------------------------------------------------------
(* processEmail, one action per await *)

\* findUnique and the short-circuits on what it returned.
Load(r) ==
    LET e == email[r] IN
    /\ pc[r] = "load"
    /\ IF \/ status[e] \in {"SENT", "CANCELLED"}
          \/ status[e] = "FAILED" /\ attempts[e] >= MaxAttempts
       THEN Return(r, "ackDone")
       ELSE /\ pc' = [pc EXCEPT ![r] = "claim"]
            /\ rowAttempts' = [rowAttempts EXCEPT ![r] = attempts[e]]
            /\ rowReschedules' = [rowReschedules EXCEPT ![r] = rescheduleCount[e]]
    /\ UNCHANGED <<rowVars, jobVars, email, sweepVars, apiVars, envVars, smtpVars>>

\* The WHERE clause of the claim, status IN (SCHEDULED, QUEUED), and a buggy
\* variant of it that trusts the status read before.
ClaimableAlways(e) == status[e] \in Statuses
Claimable(e) == status[e] \in Pending

\* updateMany: the atomic claim.
Claim(r) ==
    LET e == email[r] IN
    /\ pc[r] = "claim"
    /\ IF Claimable(e)
       THEN /\ status' = [status EXCEPT ![e] = "PROCESSING"]
            /\ attempts' = [attempts EXCEPT ![e] = @ + 1]
            /\ lockedBy' = [lockedBy EXCEPT ![e] = HostOf[r]]
            /\ lockedAt' = [lockedAt EXCEPT ![e] = "fresh"]
            /\ GoTo(r, "reserve")
       ELSE Return(r, "ackDone") /\ UNCHANGED <<status, attempts, lockedBy, lockedAt>>
    /\ UNCHANGED <<rescheduleCount, jobVars, sweepVars, apiVars, envVars, smtpVars>>

\* hourlyQuota.reserve, failover included: granted or refused.
Reserve(r) ==
    /\ pc[r] = "reserve"
    /\ \E step \in {"send", "defer"} : GoTo(r, step)
    /\ UNCHANGED <<rowVars, jobVars, sweepVars, apiVars, envVars, smtpVars>>

\* sendEmail.  "lostReply": the server took the message, the client saw an error.
SendEmail(r, outcome) ==
    LET e == email[r] IN
    /\ pc[r] = "send"
    /\ handed' = [handed EXCEPT ![e] = @ + 1]
    /\ accepted' = [accepted EXCEPT ![e] =
           IF outcome \in {"accepted", "lostReply"} THEN @ + 1 ELSE @]
    /\ GoTo(r, CASE outcome = "accepted" -> "record"
                 [] outcome = "rejected" -> "reject"
                 [] OTHER -> "catch")
    /\ UNCHANGED <<rowVars, jobVars, sweepVars, apiVars, envVars>>

\* The transaction that stores SENT, whatever the row says by now.
RecordSent(r) ==
    /\ pc[r] = "record"
    /\ SetStatus(email[r], "SENT")
    /\ Return(r, "ackDone")
    /\ UNCHANGED <<attempts, rescheduleCount, jobVars, sweepVars, apiVars, envVars, smtpVars>>

\* The recipient was refused: markFailed, then UnrecoverableError.
MarkRejected(r) ==
    /\ pc[r] = "reject"
    /\ SetStatus(email[r], "FAILED")
    /\ Return(r, "ackDead")
    /\ UNCHANGED <<attempts, rescheduleCount, jobVars, sweepVars, apiVars, envVars, smtpVars>>

\* willRetry compares the attempts read before the claim; the buggy variant
\* forgets the budget.
WillRetryAlways(r) == rowAttempts[r] >= 0
WillRetry(r) == rowAttempts[r] < MaxAttempts

\* The catch block.
HandleError(r) ==
    /\ pc[r] = "catch"
    /\ SetStatus(email[r], IF WillRetry(r) THEN "SCHEDULED" ELSE "FAILED")
    /\ Return(r, "ackRetry")
    /\ UNCHANGED <<attempts, rescheduleCount, jobVars, sweepVars, apiVars, envVars, smtpVars>>

\* deferToNextWindow with its budget exhausted: markFailed, UnrecoverableError.
DeferExhausted(r) ==
    /\ pc[r] = "defer"
    /\ rowReschedules[r] >= MaxReschedules
    /\ SetStatus(email[r], "FAILED")
    /\ Return(r, "ackDead")
    /\ UNCHANGED <<attempts, rescheduleCount, jobVars, sweepVars, apiVars, envVars, smtpVars>>

\* What release leaves of the attempt counter; the buggy variant bills the deferral.
BilledAttempts(n) == n
UnclaimedAttempts(n) == n - 1

\* release: only a row still PROCESSING under this process's lock is handed back.
Release(r) ==
    LET e == email[r] IN
    /\ pc[r] = "defer"
    /\ rowReschedules[r] < MaxReschedules
    /\ IF status[e] = "PROCESSING" /\ lockedBy[e] = HostOf[r]
       THEN /\ SetStatus(e, "SCHEDULED")
            /\ attempts' = [attempts EXCEPT ![e] = UnclaimedAttempts(@)]
       ELSE UNCHANGED <<status, attempts, lockedBy, lockedAt>>
    /\ GoTo(r, "count")
    /\ UNCHANGED <<rescheduleCount, jobVars, sweepVars, apiVars, envVars, smtpVars>>

CountReschedule(r) ==
    /\ pc[r] = "count"
    /\ rescheduleCount' = [rescheduleCount EXCEPT ![email[r]] = @ + 1]
    /\ GoTo(r, "delay")
    /\ UNCHANGED <<status, attempts, lockedBy, lockedAt, jobVars, sweepVars, apiVars, envVars,
                   smtpVars>>

\* job.moveToDelayed under the job's lock, then DelayedError: not a failure.
\* A lost lock makes moveToDelayed throw, and the ack that follows is ignored.
MoveToDelayed(r) ==
    LET e == email[r] IN
    /\ pc[r] = "delay"
    /\ IF jobState[e] = "active" /\ jobOwner[e] = r
       THEN /\ jobState' = [jobState EXCEPT ![e] = "queued"]
            /\ jobOwner' = [jobOwner EXCEPT ![e] = None]
       ELSE UNCHANGED <<jobState, jobOwner>>
    /\ Return(r, "ackRetry")
    /\ UNCHANGED <<rowVars, attemptsMade, stalledCount, sweepVars, apiVars, envVars, smtpVars>>

\* A store call throws.  The two inside the try block land in the catch block;
\* every other one (reserve included) escapes processEmail and changes nothing.
StepThrows(r) ==
    /\ pc[r] \in StoreFaults
    /\ IF pc[r] \in {"record", "reject"} THEN GoTo(r, "catch") ELSE Return(r, "ackRetry")
    /\ UNCHANGED <<rowVars, jobVars, sweepVars, apiVars, envVars, smtpVars>>

------------------------------------------------------------------------------
(* cancelEmail *)

\* The read, and the two statuses that end the request without a write.
CancelRead(e) ==
    /\ e \in Cancellable
    /\ cancelPc[e] = "idle"
    /\ cancelPc' = [cancelPc EXCEPT ![e] =
           IF status[e] \in {"SENT", "CANCELLED"} THEN "done" ELSE "write"]
    /\ UNCHANGED <<rowVars, jobVars, runVars, sweepVars, toEnqueue, envVars, smtpVars>>

CancelWrite(e) ==
    /\ cancelPc[e] = "write"
    /\ SetStatus(e, "CANCELLED")
    /\ cancelPc' = [cancelPc EXCEPT ![e] = "remove"]
    /\ UNCHANGED <<attempts, rescheduleCount, jobVars, runVars, sweepVars,
                   toEnqueue, envVars, smtpVars>>

\* removeEmailJob: an active job cannot be removed and is left alone.
RemoveEmailJob(e) ==
    /\ cancelPc[e] = "remove"
    /\ cancelPc' = [cancelPc EXCEPT ![e] = "done"]
    /\ IF jobState[e] # "active"
       THEN /\ jobState' = [jobState EXCEPT ![e] = "absent"]
            /\ attemptsMade' = [attemptsMade EXCEPT ![e] = 0]
            /\ stalledCount' = [stalledCount EXCEPT ![e] = 0]
       ELSE UNCHANGED <<jobState, attemptsMade, stalledCount>>
    /\ UNCHANGED <<rowVars, jobOwner, runVars, sweepVars, toEnqueue, envVars, smtpVars>>

------------------------------------------------------------------------------
(* reconcile *)

\* The WHERE clause of the first findMany: PROCESSING with a stale lock.  The buggy
\* variant ignores the age of the lock.
AbandonedAnyAge == {e \in Emails : status[e] = "PROCESSING"}
Abandoned == {e \in Emails : status[e] = "PROCESSING" /\ lockedAt[e] = "stale"}

\* Whether an abandoned row is put back; the buggy variant ignores the policy.
ResendsAll(e, resendSuspect) == attempts[e] < MaxAttempts
Resends(e, resendSuspect) == resendSuspect /\ attempts[e] < MaxAttempts

\* findMany; the verdict on each row is taken from this snapshot.
FindAbandoned(c) ==
    /\ sweepPc[c] = "idle" /\ alive[HostOf[c]]
    /\ sweepPc' = [sweepPc EXCEPT ![c] = "abandoned"]
    /\ \E resendSuspect \in ResendModes :
          LET resend == {e \in Abandoned : Resends(e, resendSuspect)} IN
          /\ toResend' = [toResend EXCEPT ![c] = resend]
          /\ toFail' = [toFail EXCEPT ![c] = Abandoned \ resend]
    /\ UNCHANGED <<rowVars, jobVars, runVars, page, apiVars, envVars, smtpVars>>

ResendAbandoned(c, e) ==
    /\ sweepPc[c] = "abandoned"
    /\ e \in toResend[c]
    /\ SetStatus(e, "SCHEDULED")
    /\ toResend' = [toResend EXCEPT ![c] = @ \ {e}]
    /\ UNCHANGED <<attempts, rescheduleCount, jobVars, runVars, sweepPc, toFail,
                   page, apiVars, envVars, smtpVars>>

FailAbandoned(c, e) ==
    /\ sweepPc[c] = "abandoned"
    /\ e \in toFail[c]
    /\ SetStatus(e, "FAILED")
    /\ toFail' = [toFail EXCEPT ![c] = @ \ {e}]
    /\ UNCHANGED <<attempts, rescheduleCount, jobVars, runVars, sweepPc, toResend,
                   page, apiVars, envVars, smtpVars>>

\* The WHERE clause of the second findMany; the buggy variant forgets SCHEDULED.
OutstandingQueued == {e \in Emails : status[e] = "QUEUED"}
Outstanding == {e \in Emails : status[e] \in Pending}

\* One page holds every outstanding row of an instance.
FindOutstanding(c) ==
    /\ sweepPc[c] = "abandoned"
    /\ toResend[c] = {} /\ toFail[c] = {}
    /\ sweepPc' = [sweepPc EXCEPT ![c] = "outstanding"]
    /\ page' = [page EXCEPT ![c] = Outstanding]
    /\ UNCHANGED <<rowVars, jobVars, runVars, toResend, toFail, apiVars, envVars,
                   smtpVars>>

\* enqueueIfAbsent: any job BullMQ still knows, dead or alive, counts as intact.
EnqueueIfAbsent(c, e) ==
    /\ sweepPc[c] = "outstanding"
    /\ e \in page[c]
    /\ page' = [page EXCEPT ![c] = @ \ {e}]
    /\ AddJob(e)
    /\ UNCHANGED <<rowVars, jobOwner, attemptsMade, stalledCount, runVars, sweepPc,
                   toResend, toFail, apiVars, envVars, smtpVars>>

\* Redis refuses one row's job: logged, and the row is left to the next sweep.
EnqueueFails(c, e) ==
    /\ "sweep" \in StoreFaults
    /\ sweepPc[c] = "outstanding"
    /\ e \in page[c]
    /\ page' = [page EXCEPT ![c] = @ \ {e}]
    /\ UNCHANGED <<rowVars, jobVars, runVars, sweepPc, toResend, toFail, apiVars, envVars,
                   smtpVars>>

\* A Postgres call throws: the rest of this sweep is abandoned.
SweepThrows(c) ==
    /\ "sweep" \in StoreFaults
    /\ sweepPc[c] # "idle"
    /\ sweepPc' = [sweepPc EXCEPT ![c] = "idle"]
    /\ toResend' = [toResend EXCEPT ![c] = {}]
    /\ toFail' = [toFail EXCEPT ![c] = {}]
    /\ page' = [page EXCEPT ![c] = {}]
    /\ UNCHANGED <<rowVars, jobVars, runVars, apiVars, envVars, smtpVars>>

SweepDone(c) ==
    /\ sweepPc[c] = "outstanding"
    /\ page[c] = {}
    /\ sweepPc' = [sweepPc EXCEPT ![c] = "idle"]
    /\ UNCHANGED <<rowVars, jobVars, runVars, toResend, toFail, page, apiVars,
                   envVars, smtpVars>>

------------------------------------------------------------------------------
(* Environment *)

\* A claim's lockedAt falls behind STALE_LOCK_MS.  Unless SlowRuns, a live run
\* finishes before that (the SMTP timeouts are far below the default 5 min).
LockAges(e) ==
    /\ status[e] = "PROCESSING" /\ lockedAt[e] = "fresh"
    /\ SlowRuns \/ Owners(e) = {}
    /\ lockedAt' = [lockedAt EXCEPT ![e] = "stale"]
    /\ UNCHANGED <<status, attempts, rescheduleCount, lockedBy, jobVars, runVars,
                   sweepVars, apiVars, envVars, smtpVars>>

\* A process dies, and every run and sweep it hosts with it.
Crash(p) ==
    LET on(a) == HostOf[a] = p IN
    /\ p \in Mortal /\ alive[p]
    /\ alive' = [alive EXCEPT ![p] = FALSE]
    /\ pc' = [r \in Runs |-> IF on(r) THEN "idle" ELSE pc[r]]
    /\ email' = [r \in Runs |-> IF on(r) THEN None ELSE email[r]]
    /\ rowAttempts' = [r \in Runs |-> IF on(r) THEN 0 ELSE rowAttempts[r]]
    /\ rowReschedules' = [r \in Runs |-> IF on(r) THEN 0 ELSE rowReschedules[r]]
    /\ jobOwner' = [e \in Emails |->
           IF jobOwner[e] # None /\ on(jobOwner[e]) THEN None ELSE jobOwner[e]]
    /\ sweepPc' = [c \in Sweeps |-> IF on(c) THEN "idle" ELSE sweepPc[c]]
    /\ toResend' = [c \in Sweeps |-> IF on(c) THEN {} ELSE toResend[c]]
    /\ toFail' = [c \in Sweeps |-> IF on(c) THEN {} ELSE toFail[c]]
    /\ page' = [c \in Sweeps |-> IF on(c) THEN {} ELSE page[c]]
    /\ UNCHANGED <<rowVars, jobState, attemptsMade, stalledCount, apiVars,
                   flushes, smtpVars>>

\* The API process dies between its database write and its Redis call.
ApiCrash ==
    /\ toEnqueue # {} \/ \E e \in Emails : cancelPc[e] \in {"write", "remove"}
    /\ toEnqueue' = {}
    /\ cancelPc' = [e \in Emails |->
           IF cancelPc[e] \in {"write", "remove"} THEN "done" ELSE cancelPc[e]]
    /\ UNCHANGED <<rowVars, jobVars, runVars, sweepVars, envVars, smtpVars>>

------------------------------------------------------------------------------
RunStep(r) ==
    \/ Load(r) \/ Claim(r) \/ Reserve(r)
    \/ \E outcome \in SmtpOutcomes : SendEmail(r, outcome)
    \/ RecordSent(r) \/ MarkRejected(r) \/ HandleError(r)
    \/ DeferExhausted(r) \/ Release(r) \/ CountReschedule(r) \/ MoveToDelayed(r)
    \/ StepThrows(r)
    \/ Ack(r)

SweepStep(c) ==
    \/ FindAbandoned(c)
    \/ \E e \in Emails : ResendAbandoned(c, e) \/ FailAbandoned(c, e)
    \/ FindOutstanding(c)
    \/ \E e \in Emails : EnqueueIfAbsent(c, e) \/ EnqueueFails(c, e)
    \/ SweepThrows(c)
    \/ SweepDone(c)

JobStep(e) == EnqueueEmailJobs(e) \/ Stall(e) \/ Evict(e) \/ LockAges(e)

CancelStep(e) == CancelRead(e) \/ CancelWrite(e) \/ RemoveEmailJob(e)

Next ==
    \/ \E r \in Runs : RunStep(r)
    \/ \E r \in Runs, e \in Emails : Fetch(r, e)
    \/ \E c \in Sweeps : SweepStep(c)
    \/ \E e \in Emails : JobStep(e) \/ CancelStep(e)
    \/ \E p \in Procs : Crash(p)
    \/ RedisLoss
    \/ ApiCrash

Spec == Init /\ [][Next]_vars
------------------------------------------------------------------------------
(* Fairness.  Processes that are not Mortal keep running, so their runs and
   sweeps take steps; BullMQ hands out queued jobs and detects stalled ones;
   clocks pass STALE_LOCK_MS; a started cancel request runs to its end; BullMQ's
   retention eventually forgets a finished job. *)
Scheduling ==
    /\ \A r \in Runs : WF_vars(RunStep(r))
    /\ \A c \in Sweeps : WF_vars(SweepStep(c))
    /\ \A e \in Emails :
          /\ WF_vars(\E r \in Runs : Fetch(r, e))
          /\ WF_vars(Stall(e))
          /\ WF_vars(LockAges(e))
          /\ WF_vars(CancelWrite(e) \/ RemoveEmailJob(e))
Retention == \A e \in Emails : WF_vars(Evict(e))

FairSpec == Spec /\ Scheduling /\ Retention

------------------------------------------------------------------------------
(* Properties *)

\* At most one live run is between its claim and its write of the outcome of a
\* row, however often BullMQ redelivers the job (claim, emailWorker.ts:51).
ExclusiveClaim == \A e \in Emails : Cardinality(Owners(e)) <= 1

\* The SMTP server accepts no email twice, across redeliveries, crashes, Redis
\* loss, slow runs and cancels (emailWorker.ts:124, "never send twice").
AtMostOnce == \A e \in Emails : accepted[e] <= 1

\* With RESEND_SUSPECT_JOBS the reconciler risks duplicates, but no more than
\* one per process that died (reconciler.ts:65).
DuplicatesNeedACrash ==
    \A e \in Emails :
        accepted[e] <= 1 + Cardinality({p \in Procs : ~alive[p]})

\* Retries and deferrals are bounded per row: at most one claim beyond
\* MAX_ATTEMPTS and MAX_RESCHEDULES deferrals, plus one of each for every loss of
\* Redis, which lets a second run work beside a live one from an older read of
\* the row (emailWorker.ts:248 and :316).
BudgetsHold ==
    \A e \in Emails : /\ attempts[e] <= MaxAttempts + 1 + flushes
                      /\ rescheduleCount[e] <= MaxReschedules + flushes

\* Until a row is closed unsent, its attempt counter is exactly the number of its
\* SMTP handoffs plus the claim that has not reached SMTP yet: a deferral costs no
\* attempt, and neither does a redelivery (release, emailWorker.ts:69).  Checked
\* where no run dies in between.
AttemptsAccounted ==
    \A e \in Emails :
        status[e] \notin {"FAILED", "CANCELLED"} => attempts[e] = handed[e]
            + Cardinality({r \in Owners(e) : pc[r] \in {"reserve", "send", "defer"}})

\* A row marked SENT stays SENT, unless the user's cancel was already past its
\* check (emailWorker.ts:217, reconciler.ts:57).
SentIsFinal ==
    [][\A e \in Emails :
          status[e] = "SENT" /\ status'[e] # "SENT" => CancelWrite(e)]_vars

\* The phase of an email in the abstract Outbox.
phase == [e \in Emails |->
    IF accepted[e] > 0 THEN "delivered"
    ELSE IF Owners(e) # {} THEN "owned"
    ELSE IF status[e] \in Pending THEN "open"
    ELSE "closed"]
Abstract == INSTANCE Outbox WITH phase <- phase, deliveries <- accepted

\* Every step of the implementation is a step of the promise: an email cancelled,
\* failed or abandoned while no run owns it is never taken again, and no email is
\* delivered twice (claim, emailWorker.ts:51; cancelEmail, emails.service.ts:147).
ImplementsOutbox == Abstract!Spec

\* Every email eventually rests in a terminal status: nothing is forgotten in
\* SCHEDULED or PROCESSING (reconciler.ts:40).
EventuallySettled == \A e \in Emails : <>[](status[e] \in Terminal)

------------------------------------------------------------------------------
(* Statements of the repository that the code does not keep *)

\* "Statuses that will never change again" (packages/shared/src/constants.ts:32).
TerminalIsFinal ==
    [][\A e \in Emails : status[e] \in Terminal => status'[e] = status[e]]_vars

\* "Delivery attempts before a job is failed" (README.md:189): when BullMQ has
\* given up on a job after MAX_ATTEMPTS failures, its row is not left SCHEDULED.
ExhaustedIsFailed ==
    \A e \in Emails :
        jobState[e] = "failed" /\ attemptsMade[e] = MaxAttempts
            => status[e] \notin Pending
=============================================================================
