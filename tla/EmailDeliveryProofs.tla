------------------------- MODULE EmailDeliveryProofs -------------------------
(***************************************************************************)
(* What holds of EmailDelivery for every number of emails, processes, runs *)
(* and sweeps, every budget and every placement of faults, proved by TLAPS.*)
(***************************************************************************)
EXTENDS EmailDelivery, FiniteSetTheorems, TLAPS

USE DEF rowVars, jobVars, runVars, sweepVars, apiVars, envVars, smtpVars

\* Some live run holds the claim of row e.
Owned(e) == \E r \in Runs : pc[r] \in Owning /\ email[r] = e

\* A freshly committed campaign is well typed.
LEMMA TypingInit == Init => TypeOK
BY BudgetAssumption, ActorAssumption DEF Init, TypeOK, Statuses, Pending, Terminal,
   JobStates, Steps, Owning, Acks

\* Every step keeps the types.
LEMMA TypingStep == TypeOK /\ [Next]_vars => TypeOK'
<1> USE BudgetAssumption, ActorAssumption DEF TypeOK, Statuses, Pending, Terminal,
        JobStates, Steps, Owning, Acks
<1> SUFFICES ASSUME TypeOK, [Next]_vars PROVE TypeOK'
  OBVIOUS
<1> USE DEF SetStatus, AddJob, GoTo, Return
<1>1. ASSUME NEW r \in Runs, RunStep(r) PROVE TypeOK'
  <2> email[r] \in Emails \/ pc[r] = "idle"
    OBVIOUS
  <2>1. CASE Load(r)
    <3>1. email[r] \in Emails
      BY <2>1 DEF Load
    <3>2. CASE pc' = [pc EXCEPT ![r] = "claim"]
      BY <2>1, <3>1, <3>2 DEF Load
    <3>3. CASE Return(r, "ackDone")
      BY <2>1, <3>3 DEF Load
    <3>4. QED
      BY <2>1, <3>2, <3>3 DEF Load
  <2>2. CASE Claim(r)
    <3>1. email[r] \in Emails
      BY <2>2 DEF Claim
    <3>2. CASE status[email[r]] \in Pending
      <4>1. /\ status' = [status EXCEPT ![email[r]] = "PROCESSING"]
            /\ attempts' = [attempts EXCEPT ![email[r]] = @ + 1]
            /\ lockedBy' = [lockedBy EXCEPT ![email[r]] = HostOf[r]]
            /\ lockedAt' = [lockedAt EXCEPT ![email[r]] = "fresh"]
            /\ pc' = [pc EXCEPT ![r] = "reserve"]
            /\ UNCHANGED <<rescheduleCount, email, rowAttempts, rowReschedules>>
        BY <2>2, <3>2 DEF Claim, Claimable
      <4>2. HostOf[r] \in Procs /\ pc[r] # "idle"
        BY <2>2 DEF Claim
      <4>3. /\ status' \in [Emails -> Statuses]
            /\ attempts' \in [Emails -> Int]
            /\ lockedBy' \in [Emails -> Procs \cup {None}]
            /\ lockedAt' \in [Emails -> {"null", "fresh", "stale"}]
        BY <3>1, <4>1, <4>2
      <4>4. /\ pc' \in [Runs -> Steps \cup {"idle"}]
            /\ \A x \in Runs : email'[x] = None <=> pc'[x] = "idle"
        BY <4>1, <4>2
      <4>5. UNCHANGED <<jobVars, sweepVars, apiVars, envVars, smtpVars>>
        BY <2>2 DEF Claim, Claimable
      <4>6. QED
        BY <4>1, <4>3, <4>4, <4>5
    <3>3. CASE status[email[r]] \notin Pending
      <4>1. Return(r, "ackDone") /\ UNCHANGED rowVars
        BY <2>2, <3>3 DEF Claim, Claimable
      <4>2. UNCHANGED <<jobVars, sweepVars, apiVars, envVars, smtpVars>>
        BY <2>2 DEF Claim, Claimable
      <4>3. QED
        BY <3>1, <4>1, <4>2
    <3>4. QED
      BY <3>2, <3>3
  <2>3. CASE Reserve(r)
    BY <2>3 DEF Reserve
  <2>4. ASSUME NEW outcome \in SmtpOutcomes, SendEmail(r, outcome) PROVE TypeOK'
    BY <2>4 DEF SendEmail
  <2>5. CASE RecordSent(r)
    BY <2>5 DEF RecordSent
  <2>6. CASE MarkRejected(r)
    BY <2>6 DEF MarkRejected
  <2>7. CASE HandleError(r)
    BY <2>7 DEF HandleError, WillRetry
  <2>8. CASE DeferExhausted(r)
    BY <2>8 DEF DeferExhausted
  <2>9. CASE Release(r)
    <3>1. email[r] \in Emails
      BY <2>9 DEF Release
    <3>2. CASE status[email[r]] = "PROCESSING" /\ lockedBy[email[r]] = HostOf[r]
      <4>1. /\ SetStatus(email[r], "SCHEDULED")
            /\ attempts' = [attempts EXCEPT ![email[r]] = @ - 1]
            /\ GoTo(r, "count")
            /\ UNCHANGED <<rescheduleCount, jobVars, sweepVars, apiVars, envVars,
                           smtpVars>>
        BY <2>9, <3>2 DEF Release, UnclaimedAttempts
      <4>2. pc[r] # "idle"
        BY <2>9 DEF Release
      <4>3. /\ status' \in [Emails -> Statuses]
            /\ attempts' \in [Emails -> Int]
            /\ lockedBy' \in [Emails -> Procs \cup {None}]
            /\ lockedAt' \in [Emails -> {"null", "fresh", "stale"}]
            /\ \A e \in Emails :
                  /\ lockedBy'[e] = None <=> status'[e] # "PROCESSING"
                  /\ lockedAt'[e] = "null" <=> status'[e] # "PROCESSING"
        BY <3>1, <4>1
      <4>4. /\ pc' \in [Runs -> Steps \cup {"idle"}]
            /\ \A x \in Runs : email'[x] = None <=> pc'[x] = "idle"
        BY <4>1, <4>2
      <4>5. /\ UNCHANGED <<rescheduleCount, jobVars, email, rowAttempts,
                           rowReschedules>>
            /\ UNCHANGED <<sweepVars, apiVars, envVars, smtpVars>>
        BY <4>1
      <4>6. QED
        BY ONLY TypeOK, <4>3, <4>4, <4>5
           DEF TypeOK, rowVars, jobVars, runVars, sweepVars, apiVars, envVars, smtpVars
    <3>3. CASE ~(status[email[r]] = "PROCESSING" /\ lockedBy[email[r]] = HostOf[r])
      BY <2>9, <3>3 DEF Release, UnclaimedAttempts
    <3>4. QED
      BY <3>2, <3>3
  <2>10. CASE CountReschedule(r)
    BY <2>10 DEF CountReschedule
  <2>11. CASE MoveToDelayed(r)
    <3>1. /\ jobState' \in [Emails -> JobStates]
          /\ jobOwner' \in [Emails -> Runs \cup {None}]
      <4>1. CASE jobState[email[r]] = "active" /\ jobOwner[email[r]] = r
        <5>1. /\ jobState' = [jobState EXCEPT ![email[r]] = "queued"]
              /\ jobOwner' = [jobOwner EXCEPT ![email[r]] = None]
          BY <2>11, <4>1 DEF MoveToDelayed
        <5>2. QED
          BY <5>1
      <4>2. CASE ~(jobState[email[r]] = "active" /\ jobOwner[email[r]] = r)
        BY <2>11, <4>2 DEF MoveToDelayed
      <4>3. QED
        BY <4>1, <4>2
    <3>2. pc[r] # "idle" /\ Return(r, "ackRetry")
      BY <2>11 DEF MoveToDelayed
    <3>3. UNCHANGED <<rowVars, attemptsMade, stalledCount, sweepVars, apiVars,
                      envVars, smtpVars>>
      BY <2>11 DEF MoveToDelayed
    <3>4. /\ pc' \in [Runs -> Steps \cup {"idle"}]
          /\ \A x \in Runs : email'[x] = None <=> pc'[x] = "idle"
          /\ rowAttempts' \in [Runs -> Int]
          /\ rowReschedules' \in [Runs -> Nat]
          /\ UNCHANGED email
      BY <3>2
    <3>5. QED
      BY ONLY TypeOK, <3>1, <3>3, <3>4
         DEF TypeOK, rowVars, jobVars, runVars, sweepVars, apiVars, envVars, smtpVars
  <2>12. CASE StepThrows(r)
    <3>1. pc[r] # "idle"
      BY <2>12, FaultAssumption DEF StepThrows
    <3>2. CASE pc[r] \in {"record", "reject"}
      <4>1. /\ GoTo(r, "catch")
            /\ UNCHANGED <<rowVars, jobVars, sweepVars, apiVars, envVars, smtpVars>>
        BY <2>12, <3>2 DEF StepThrows
      <4>2. /\ pc' \in [Runs -> Steps \cup {"idle"}]
            /\ \A x \in Runs : email'[x] = None <=> pc'[x] = "idle"
            /\ UNCHANGED <<email, rowAttempts, rowReschedules>>
        BY <3>1, <4>1
      <4>3. QED
        BY <4>1, <4>2
    <3>3. CASE pc[r] \notin {"record", "reject"}
      <4>1. /\ Return(r, "ackRetry")
            /\ UNCHANGED <<rowVars, jobVars, sweepVars, apiVars, envVars, smtpVars>>
        BY <2>12, <3>3 DEF StepThrows
      <4>2. /\ pc' \in [Runs -> Steps \cup {"idle"}]
            /\ \A x \in Runs : email'[x] = None <=> pc'[x] = "idle"
            /\ rowAttempts' \in [Runs -> Int]
            /\ rowReschedules' \in [Runs -> Nat]
            /\ UNCHANGED email
        BY <3>1, <4>1
      <4>3. QED
        BY <4>1, <4>2
    <3>4. QED
      BY <3>2, <3>3
  <2>13. CASE Ack(r)
    <3>1. email[r] \in Emails
      BY <2>13 DEF Ack
    <3>2. CASE jobState[email[r]] = "active" /\ jobOwner[email[r]] = r
      <4>1. Outcome(r) \in JobStates
        BY DEF Outcome
      <4>2. /\ jobState' = [jobState EXCEPT ![email[r]] = Outcome(r)]
            /\ jobOwner' = [jobOwner EXCEPT ![email[r]] = None]
            /\ attemptsMade' = [attemptsMade EXCEPT ![email[r]] = @ + 1]
            /\ pc' = [pc EXCEPT ![r] = "idle"]
            /\ email' = [email EXCEPT ![r] = None]
            /\ UNCHANGED <<rowVars, stalledCount, rowAttempts, rowReschedules,
                           sweepVars, apiVars, envVars, smtpVars>>
        BY <2>13, <3>2 DEF Ack
      <4>3. QED
        BY <3>1, <4>1, <4>2
    <3>3. CASE ~(jobState[email[r]] = "active" /\ jobOwner[email[r]] = r)
      BY <2>13, <3>1, <3>3 DEF Ack
    <3>4. QED
      BY <3>2, <3>3
  <2>14. QED
    BY <1>1, <2>1, <2>2, <2>3, <2>4, <2>5, <2>6, <2>7, <2>8, <2>9, <2>10, <2>11,
       <2>12, <2>13 DEF RunStep
<1>2. ASSUME NEW r \in Runs, NEW e \in Emails, Fetch(r, e) PROVE TypeOK'
  BY <1>2 DEF Fetch
<1>3. ASSUME NEW c \in Sweeps, SweepStep(c) PROVE TypeOK'
  <2>1. CASE FindAbandoned(c)
    BY <2>1 DEF FindAbandoned, Abandoned, Resends
  <2>2. ASSUME NEW e \in Emails, ResendAbandoned(c, e) PROVE TypeOK'
    BY <2>2 DEF ResendAbandoned
  <2>3. ASSUME NEW e \in Emails, FailAbandoned(c, e) PROVE TypeOK'
    BY <2>3 DEF FailAbandoned
  <2>4. CASE FindOutstanding(c)
    BY <2>4 DEF FindOutstanding, Outstanding
  <2>5. ASSUME NEW e \in Emails, EnqueueIfAbsent(c, e) PROVE TypeOK'
    BY <2>5 DEF EnqueueIfAbsent
  <2>6. CASE SweepDone(c)
    BY <2>6 DEF SweepDone
  <2>7. ASSUME NEW e \in Emails, EnqueueFails(c, e) PROVE TypeOK'
    BY <2>7 DEF EnqueueFails
  <2>8. CASE SweepThrows(c)
    BY <2>8 DEF SweepThrows
  <2>9. QED
    BY <1>3, <2>1, <2>2, <2>3, <2>4, <2>5, <2>6, <2>7, <2>8 DEF SweepStep
<1>4. ASSUME NEW e \in Emails, JobStep(e) PROVE TypeOK'
  <2>1. CASE EnqueueEmailJobs(e)
    BY <2>1 DEF EnqueueEmailJobs
  <2>2. CASE Stall(e)
    BY <2>2 DEF Stall
  <2>3. CASE Evict(e)
    BY <2>3 DEF Evict
  <2>4. CASE LockAges(e)
    BY <2>4 DEF LockAges
  <2>5. QED
    BY <1>4, <2>1, <2>2, <2>3, <2>4 DEF JobStep
<1>5. ASSUME NEW e \in Emails, CancelStep(e) PROVE TypeOK'
  <2>1. CASE CancelRead(e)
    BY <2>1 DEF CancelRead
  <2>2. CASE CancelWrite(e)
    BY <2>2 DEF CancelWrite
  <2>3. CASE RemoveEmailJob(e)
    <3>1. CASE jobState[e] # "active"
      <4>1. /\ jobState' = [jobState EXCEPT ![e] = "absent"]
            /\ attemptsMade' = [attemptsMade EXCEPT ![e] = 0]
            /\ stalledCount' = [stalledCount EXCEPT ![e] = 0]
            /\ cancelPc' = [cancelPc EXCEPT ![e] = "done"]
            /\ UNCHANGED <<rowVars, jobOwner, runVars, sweepVars, toEnqueue,
                           envVars, smtpVars>>
        BY <2>3, <3>1 DEF RemoveEmailJob
      <4>2. QED
        BY <4>1
    <3>2. CASE jobState[e] = "active"
      BY <2>3, <3>2 DEF RemoveEmailJob
    <3>3. QED
      BY <3>1, <3>2
  <2>4. QED
    BY <1>5, <2>1, <2>2, <2>3 DEF CancelStep
<1>6. ASSUME NEW p \in Procs, Crash(p) PROVE TypeOK'
  <2>1. /\ pc' \in [Runs -> Steps \cup {"idle"}]
        /\ email' \in [Runs -> Emails \cup {None}]
        /\ \A r \in Runs : email'[r] = None <=> pc'[r] = "idle"
        /\ rowAttempts' \in [Runs -> Int]
        /\ rowReschedules' \in [Runs -> Nat]
    BY <1>6 DEF Crash
  <2>2. /\ sweepPc' \in [Sweeps -> {"idle", "abandoned", "outstanding"}]
        /\ toResend' \in [Sweeps -> SUBSET Emails]
        /\ toFail' \in [Sweeps -> SUBSET Emails]
        /\ page' \in [Sweeps -> SUBSET Emails]
    BY <1>6 DEF Crash
  <2>3. jobOwner' \in [Emails -> Runs \cup {None}] /\ alive' \in [Procs -> BOOLEAN]
    BY <1>6 DEF Crash
  <2>4. QED
    BY <1>6, <2>1, <2>2, <2>3 DEF Crash
<1>7. CASE RedisLoss
  BY <1>7 DEF RedisLoss
<1>8. CASE ApiCrash
  BY <1>8 DEF ApiCrash
<1>9. CASE UNCHANGED vars
  BY <1>9 DEF vars
<1>10. QED
  BY <1>1, <1>2, <1>3, <1>4, <1>5, <1>6, <1>7, <1>8, <1>9 DEF Next

\* The types of the state: no handler of the worker, the reconciler, the API or
\* BullMQ ever leaves the domains the code declares for its columns and locals.
THEOREM Typing == Spec => []TypeOK
BY TypingInit, TypingStep, PTL DEF Spec

------------------------------------------------------------------------------
(* The claim is exclusive. *)

\* With RESEND_SUSPECT_JOBS=false (the default) a sweep never reopens a row.
NeverResends == ResendModes = {FALSE}

OwnerUnique ==
    \A r, s \in Runs :
        pc[r] \in Owning /\ pc[s] \in Owning /\ email[r] = email[s] => r = s
OwnedNotPending == \A r \in Runs : pc[r] \in Owning => status[email[r]] \notin Pending
NothingToResend == \A c \in Sweeps : toResend[c] = {}

\* Inductive: nobody can claim a row while a run owns it, because an owned row is
\* never pending, and only its owner makes it pending again, by giving it up.
ClaimInv == TypeOK /\ OwnerUnique /\ OwnedNotPending /\ NothingToResend

\* A step that gives no run a claim keeps ClaimInv if every row it makes
\* pending is left without an owner.
LEMMA NoNewOwner ==
  ASSUME ClaimInv, TypeOK', NothingToResend',
         \A r \in Runs : pc'[r] \in Owning => pc[r] \in Owning /\ email'[r] = email[r],
         \A r \in Runs : pc'[r] \in Owning /\ status'[email[r]] \in Pending
                            => status[email[r]] \in Pending
  PROVE  ClaimInv'
BY DEF ClaimInv, OwnerUnique, OwnedNotPending

\* The owner of a row may leave it in any status when it returns: no other run
\* owns that row.
LEMMA GiveUp ==
  ASSUME ClaimInv, TypeOK', NothingToResend', NEW r \in Runs, pc[r] \in Owning,
         \E s \in Statuses : SetStatus(email[r], s),
         \E ack \in Acks : Return(r, ack)
  PROVE  ClaimInv'
<1>1. \A s \in Runs : pc'[s] \in Owning =>
          s # r /\ pc[s] \in Owning /\ email'[s] = email[s]
  BY DEF ClaimInv, TypeOK, Return, Owning, Acks
<1>2. \A s \in Runs : pc'[s] \in Owning => email[s] # email[r]
  BY <1>1 DEF ClaimInv, OwnerUnique
<1>3. \A e \in Emails : e # email[r] => status'[e] = status[e]
  BY DEF ClaimInv, TypeOK, SetStatus
<1>4. \A s \in Runs : pc'[s] \in Owning => email[s] \in Emails
  BY <1>1 DEF ClaimInv, TypeOK, Owning
<1>5. QED
  BY <1>1, <1>2, <1>3, <1>4, NoNewOwner

\* A sweep that never resends touches no run and makes no row pending.
LEMMA SweepReopensNothing ==
  ASSUME TypeOK, NothingToResend, NEW c \in Sweeps, SweepStep(c)
  PROVE  /\ UNCHANGED <<pc, email, accepted>>
         /\ \A e \in Emails : status'[e] \in Pending => status[e] \in Pending
<1>1. UNCHANGED <<pc, email, accepted>>
  BY DEF SweepStep, FindAbandoned, Abandoned, Resends, ResendAbandoned, FailAbandoned, FindOutstanding, Outstanding,
     EnqueueIfAbsent, EnqueueFails, SweepThrows, SweepDone
<1>2. \A e \in Emails : ~ResendAbandoned(c, e)
  BY DEF ResendAbandoned, NothingToResend
<1>3. CASE status' = status
  BY <1>1, <1>3
<1>4. ASSUME NEW e \in Emails, FailAbandoned(c, e)
      PROVE  \A x \in Emails : status'[x] \in Pending => status[x] \in Pending
  BY <1>4 DEF FailAbandoned, SetStatus, TypeOK, Pending
<1>5. QED
  BY <1>1, <1>2, <1>3, <1>4 DEF SweepStep, FindAbandoned, Abandoned, Resends, FindOutstanding, Outstanding,
     EnqueueIfAbsent, EnqueueFails, SweepThrows, SweepDone

\* A cancel touches no run and makes no row pending.
LEMMA CancelReopensNothing ==
  ASSUME TypeOK, NEW e \in Emails, CancelStep(e)
  PROVE  /\ UNCHANGED <<runVars, sweepVars, accepted>>
         /\ \A x \in Emails : status'[x] \in Pending => status[x] \in Pending
<1>1. UNCHANGED <<runVars, sweepVars, accepted>>
  BY DEF CancelStep, CancelRead, CancelWrite, RemoveEmailJob
<1>2. status' = status \/ status' = [status EXCEPT ![e] = "CANCELLED"]
  BY DEF CancelStep, CancelRead, CancelWrite, RemoveEmailJob, SetStatus
<1>3. \A x \in Emails : status'[x] \in Pending => status[x] \in Pending
  BY <1>2 DEF TypeOK, Pending
<1>4. QED
  BY <1>1, <1>3

\* Every step keeps ClaimInv.
LEMMA ClaimStep ==
  ASSUME NeverResends, ClaimInv, [Next]_vars PROVE ClaimInv'
<1> USE NoNewOwner DEF ClaimInv, NothingToResend
<1>1. TypeOK /\ TypeOK'
  BY TypingStep
<1> USE <1>1
<1>2. ASSUME NEW r \in Runs, RunStep(r) PROVE ClaimInv'
  <2>1. UNCHANGED sweepVars
    BY <1>2 DEF RunStep, Load, Claim, Claimable, Reserve, SendEmail, RecordSent, MarkRejected,
       HandleError, WillRetry, DeferExhausted, Release, UnclaimedAttempts, CountReschedule, MoveToDelayed,
       StepThrows, Ack
  <2>2. CASE Load(r)
    BY <2>1, <2>2 DEF Load, Return, Owning, Acks, TypeOK
  <2>3. CASE Claim(r)
    <3>1. pc[r] = "claim" /\ email[r] \in Emails /\ email' = email
      BY <2>3 DEF Claim, Claimable, TypeOK, GoTo, Return
    <3>2. CASE status[email[r]] \in Pending
      <4>1. status' = [status EXCEPT ![email[r]] = "PROCESSING"]
        BY <2>3, <3>2 DEF Claim, Claimable
      <4>2. pc' = [pc EXCEPT ![r] = "reserve"]
        BY <2>3, <3>2 DEF Claim, Claimable, GoTo
      <4>3. \A s \in Runs : pc'[s] \in Owning => s = r \/ pc[s] \in Owning
        BY <4>2 DEF TypeOK
      <4>4. \A s \in Runs : pc[s] \in Owning => email[s] # email[r]
        BY <3>2 DEF OwnedNotPending
      <4>5. OwnerUnique'
        BY <3>1, <4>3, <4>4 DEF OwnerUnique
      <4>6. OwnedNotPending'
        <5>1. SUFFICES ASSUME NEW s \in Runs, pc'[s] \in Owning
                       PROVE  status'[email'[s]] \notin Pending
          BY DEF OwnedNotPending
        <5>2. CASE s = r
          BY <3>1, <4>1, <5>2 DEF TypeOK, Pending
        <5>3. CASE s # r
          <6>1. pc[s] \in Owning /\ email[s] # email[r]
            BY <4>3, <4>4, <5>1, <5>3
          <6>2. email[s] \in Emails
            BY <6>1 DEF TypeOK, Owning
          <6>3. QED
            BY <3>1, <4>1, <6>1, <6>2 DEF OwnedNotPending, TypeOK
        <5>4. QED
          BY <5>2, <5>3
      <4>7. QED
        BY <2>1, <4>5, <4>6
    <3>3. CASE status[email[r]] \notin Pending
      BY <2>1, <2>3, <3>1, <3>3 DEF Claim, Claimable, Return, Owning, TypeOK
    <3>4. QED
      BY <3>2, <3>3
  <2>4. CASE Reserve(r) \/ (\E outcome \in SmtpOutcomes : SendEmail(r, outcome))
    BY <2>1, <2>4 DEF Reserve, SendEmail, GoTo, Owning, TypeOK
  <2>5. CASE RecordSent(r) \/ MarkRejected(r) \/ HandleError(r) \/ DeferExhausted(r)
    <3>1. \E s \in Statuses : SetStatus(email[r], s)
      BY <2>5 DEF RecordSent, MarkRejected, HandleError, WillRetry, DeferExhausted, Statuses,
         Pending, Terminal
    <3>2. \E ack \in Acks : Return(r, ack)
      BY <2>5 DEF RecordSent, MarkRejected, HandleError, WillRetry, DeferExhausted, Acks
    <3>3. pc[r] \in Owning
      BY <2>5 DEF RecordSent, MarkRejected, HandleError, WillRetry, DeferExhausted, Owning
    <3>4. QED
      BY <2>1, <3>1, <3>2, <3>3, GiveUp
  <2>6. CASE Release(r)
    BY <2>1, <2>6 DEF Release, UnclaimedAttempts, SetStatus, GoTo, Owning, TypeOK, OwnerUnique
  <2>7. CASE CountReschedule(r) \/ MoveToDelayed(r) \/ StepThrows(r) \/ Ack(r)
    BY <2>1, <2>7 DEF CountReschedule, MoveToDelayed, StepThrows, Ack, GoTo, Return,
       Owning, Acks, TypeOK
  <2>8. QED
    BY <1>2, <2>2, <2>3, <2>4, <2>5, <2>6, <2>7 DEF RunStep
<1>3. ASSUME NEW r \in Runs, NEW e \in Emails, Fetch(r, e) PROVE ClaimInv'
  BY <1>3 DEF Fetch, Owning, TypeOK
<1>4. ASSUME NEW c \in Sweeps, SweepStep(c) PROVE ClaimInv'
  <2>1. UNCHANGED <<pc, email>>
    BY <1>4, SweepReopensNothing
  <2>2. \A e \in Emails : ~ResendAbandoned(c, e)
    BY DEF ResendAbandoned
  <2>3. NothingToResend'
    <3>1. CASE FindAbandoned(c)
      BY <3>1 DEF FindAbandoned, Abandoned, Resends, NeverResends, TypeOK
    <3>2. CASE toResend' = toResend
      BY <3>2
    <3>3. CASE SweepThrows(c)
      BY <3>3 DEF SweepThrows, TypeOK
    <3>4. QED
      BY <1>4, <2>2, <3>1, <3>2, <3>3 DEF SweepStep, FailAbandoned, FindOutstanding, Outstanding,
         EnqueueIfAbsent, EnqueueFails, SweepDone
  <2>4. \A e \in Emails : status'[e] \in Pending => status[e] \in Pending
    BY <1>4, SweepReopensNothing
  <2>5. QED
    BY <2>1, <2>3, <2>4 DEF TypeOK, Owning
<1>5. ASSUME NEW e \in Emails, JobStep(e) PROVE ClaimInv'
  BY <1>5 DEF JobStep, EnqueueEmailJobs, Stall, Evict, LockAges
<1>6. ASSUME NEW e \in Emails, CancelStep(e) PROVE ClaimInv'
  BY <1>6, CancelReopensNothing DEF TypeOK, Owning
<1>7. ASSUME NEW p \in Procs, Crash(p) PROVE ClaimInv'
  BY <1>7 DEF Crash, Owning, TypeOK
<1>8. CASE RedisLoss \/ ApiCrash \/ UNCHANGED vars
  BY <1>8 DEF RedisLoss, ApiCrash, vars
<1>9. QED
  BY <1>2, <1>3, <1>4, <1>5, <1>6, <1>7, <1>8 DEF Next

\* At most one live run sits between its claim and its write of the outcome, for
\* every number of processes and runs, with crashes, lost locks, slow runs,
\* overlapping sweeps, Redis loss and cancels.
THEOREM ClaimIsExclusive == NeverResends => (Spec => []ExclusiveClaim)
<1> SUFFICES ASSUME NeverResends PROVE Spec => []ExclusiveClaim
  OBVIOUS
<1>1. Init => ClaimInv
  BY TypingInit DEF Init, ClaimInv, OwnerUnique, OwnedNotPending, NothingToResend, Owning
<1>2. ClaimInv /\ [Next]_vars => ClaimInv'
  BY ClaimStep
<1>3. ClaimInv => ExclusiveClaim
  <2> SUFFICES ASSUME ClaimInv, NEW e \in Emails PROVE Cardinality(Owners(e)) <= 1
    BY DEF ExclusiveClaim
  <2>1. \A r, s \in Owners(e) : r = s
    BY DEF ClaimInv, OwnerUnique, Owners
  <2>2. CASE Owners(e) = {}
    BY <2>2, FS_EmptySet
  <2>3. CASE Owners(e) # {}
    <3>1. PICK r : r \in Owners(e)
      BY <2>3
    <3>2. Owners(e) = {r}
      BY <2>1, <3>1
    <3>3. Cardinality({r}) = 1
      BY FS_Singleton
    <3>4. QED
      BY <3>2, <3>3
  <2>4. QED
    BY <2>2, <2>3
<1>4. QED
  BY <1>1, <1>2, <1>3, PTL DEF Spec

------------------------------------------------------------------------------
(* No email is delivered twice. *)

\* Beyond the reconciler's policy, two faults must not happen: the transaction
\* that stores SENT fails, or the SMTP server's acceptance is lost on the wire.
NoDuplicateRisk ==
    NeverResends /\ "record" \notin StoreFaults /\ "lostReply" \notin SmtpOutcomes

\* An accepted email is out of reach of every claim: its row is not pending, and
\* a run that still owns it has nothing left to do but store SENT.
DeliveredOnce ==
    \A e \in Emails :
        \/ accepted[e] = 0
        \/ /\ accepted[e] = 1
           /\ status[e] \notin Pending
           /\ \A r \in Runs : pc[r] \in Owning /\ email[r] = e => pc[r] = "record"
DeliveryInv == ClaimInv /\ DeliveredOnce

\* A step that hands nothing to SMTP keeps DeliveredOnce, if the runs it makes or
\* moves as owners, and the rows it makes pending, are those of undelivered mail.
LEMMA NothingDelivered ==
  ASSUME DeliveryInv, accepted' = accepted,
         \A r \in Runs : pc'[r] \in Owning =>
            \/ pc'[r] = pc[r] /\ email'[r] = email[r]
            \/ accepted[email'[r]] = 0,
         \A e \in Emails : status'[e] \in Pending => status[e] \in Pending \/ accepted[e] = 0
  PROVE  DeliveredOnce'
BY DEF DeliveryInv, DeliveredOnce

\* An owner that has not reached SMTP's acceptance owns undelivered mail.
LEMMA OwnerUndelivered ==
  ASSUME DeliveryInv, NEW r \in Runs, pc[r] \in Owning, pc[r] # "record"
  PROVE  email[r] \in Emails /\ accepted[email[r]] = 0
BY DEF DeliveryInv, DeliveredOnce, ClaimInv, TypeOK, Owning

\* Every step keeps DeliveryInv.
LEMMA DeliveryStep ==
  ASSUME NoDuplicateRisk, DeliveryInv, [Next]_vars PROVE DeliveryInv'
<1>1. ClaimInv /\ ClaimInv' /\ TypeOK /\ TypeOK'
  BY ClaimStep DEF DeliveryInv, ClaimInv, NoDuplicateRisk
<1> USE <1>1
<1> SUFFICES DeliveredOnce'
  BY DEF DeliveryInv
<1>2. ASSUME NEW r \in Runs, RunStep(r) PROVE DeliveredOnce'
  <2>1. CASE Load(r)
    BY <2>1, NothingDelivered DEF Load, Return, Owning, Acks, TypeOK
  <2>2. CASE Claim(r)
    <3>1. email[r] \in Emails /\ accepted' = accepted /\ email' = email
      BY <2>2 DEF Claim, Claimable, TypeOK, GoTo, Return
    <3>2. CASE status[email[r]] \in Pending
      <4>1. accepted[email[r]] = 0
        BY <3>1, <3>2 DEF DeliveryInv, DeliveredOnce
      <4>2. status' = [status EXCEPT ![email[r]] = "PROCESSING"]
        BY <2>2, <3>2 DEF Claim, Claimable
      <4>3. pc' = [pc EXCEPT ![r] = "reserve"]
        BY <2>2, <3>2 DEF Claim, Claimable, GoTo
      <4>4. QED
        BY <3>1, <4>1, <4>2, <4>3, NothingDelivered DEF TypeOK, Pending
    <3>3. CASE status[email[r]] \notin Pending
      BY <2>2, <3>1, <3>3, NothingDelivered DEF Claim, Claimable, Return, Owning, TypeOK
    <3>4. QED
      BY <3>2, <3>3
  <2>3. CASE Reserve(r)
    BY <2>3, NothingDelivered, OwnerUndelivered DEF Reserve, GoTo, Owning, TypeOK
  <2>4. ASSUME NEW outcome \in SmtpOutcomes, SendEmail(r, outcome) PROVE DeliveredOnce'
    <3>1. pc[r] = "send" /\ email[r] \in Emails /\ accepted[email[r]] = 0
      BY <2>4, OwnerUndelivered DEF SendEmail, Owning
    <3>2. UNCHANGED <<email, status>>
      BY <2>4 DEF SendEmail, GoTo
    <3>3. CASE outcome = "accepted"
      <4>1. accepted' = [accepted EXCEPT ![email[r]] = @ + 1]
        BY <2>4, <3>3 DEF SendEmail
      <4>2. pc' = [pc EXCEPT ![r] = "record"]
        BY <2>4, <3>3 DEF SendEmail, GoTo
      <4>3. status[email[r]] \notin Pending
        BY <3>1 DEF ClaimInv, OwnedNotPending, Owning
      <4>4. \A s \in Runs : pc[s] \in Owning /\ email[s] = email[r] => s = r
        BY <3>1 DEF ClaimInv, OwnerUnique, Owning
      <4>5. QED
        BY <3>1, <3>2, <4>1, <4>2, <4>3, <4>4 DEF DeliveryInv, DeliveredOnce, TypeOK
    <3>4. CASE outcome # "accepted"
      <4>1. accepted' = accepted
        BY <2>4, <3>4 DEF SendEmail, NoDuplicateRisk, TypeOK
      <4>2. \A s \in Runs : s # r => pc'[s] = pc[s]
        BY <2>4 DEF SendEmail, GoTo, TypeOK
      <4>3. QED
        BY <3>1, <3>2, <4>1, <4>2, NothingDelivered
    <3>5. QED
      BY <3>3, <3>4
  <2>5. CASE RecordSent(r) \/ MarkRejected(r) \/ DeferExhausted(r)
    BY <2>5, NothingDelivered DEF RecordSent, MarkRejected, DeferExhausted,
       SetStatus, Return, Owning, Acks, TypeOK, Pending
  <2>6. CASE HandleError(r)
    BY <2>6, NothingDelivered, OwnerUndelivered DEF HandleError, WillRetry, SetStatus, Return,
       Owning, Acks, TypeOK
  <2>7. CASE Release(r)
    BY <2>7, NothingDelivered, OwnerUndelivered DEF Release, UnclaimedAttempts, SetStatus, GoTo,
       Owning, TypeOK
  <2>8. CASE StepThrows(r)
    BY <2>8, NothingDelivered, OwnerUndelivered DEF StepThrows, NoDuplicateRisk, GoTo,
       Return, Owning, Acks, TypeOK
  <2>9. CASE CountReschedule(r) \/ MoveToDelayed(r) \/ Ack(r)
    BY <2>9, NothingDelivered DEF CountReschedule, MoveToDelayed, Ack, GoTo, Return,
       Owning, Acks, TypeOK
  <2>10. QED
    BY <1>2, <2>1, <2>2, <2>3, <2>4, <2>5, <2>6, <2>7, <2>8, <2>9 DEF RunStep
<1>3. ASSUME NEW r \in Runs, NEW e \in Emails, Fetch(r, e) PROVE DeliveredOnce'
  BY <1>3, NothingDelivered DEF Fetch, Owning, TypeOK
<1>4. ASSUME NEW c \in Sweeps, SweepStep(c) PROVE DeliveredOnce'
  BY <1>4, SweepReopensNothing, NothingDelivered DEF ClaimInv
<1>5. ASSUME NEW e \in Emails, JobStep(e) PROVE DeliveredOnce'
  BY <1>5, NothingDelivered DEF JobStep, EnqueueEmailJobs, Stall, Evict, LockAges
<1>6. ASSUME NEW e \in Emails, CancelStep(e) PROVE DeliveredOnce'
  BY <1>6, CancelReopensNothing, NothingDelivered
<1>7. ASSUME NEW p \in Procs, Crash(p) PROVE DeliveredOnce'
  BY <1>7, NothingDelivered DEF Crash, Owning, TypeOK
<1>8. CASE RedisLoss \/ ApiCrash \/ UNCHANGED vars
  BY <1>8, NothingDelivered DEF RedisLoss, ApiCrash, vars
<1>9. QED
  BY <1>2, <1>3, <1>4, <1>5, <1>6, <1>7, <1>8 DEF Next

\* The SMTP server accepts no email twice: with the default policy, and as long as
\* the two faults above do not happen, whatever else crashes, stalls or races.
THEOREM NeverSentTwice == NoDuplicateRisk => (Spec => []AtMostOnce)
<1> SUFFICES ASSUME NoDuplicateRisk PROVE Spec => []AtMostOnce
  OBVIOUS
<1>1. Init => DeliveryInv
  BY TypingInit DEF Init, DeliveryInv, ClaimInv, OwnerUnique, OwnedNotPending,
     NothingToResend, DeliveredOnce, Owning
<1>2. DeliveryInv /\ [Next]_vars => DeliveryInv'
  BY DeliveryStep
<1>3. DeliveryInv => AtMostOnce
  BY DEF DeliveryInv, DeliveredOnce, AtMostOnce
<1>4. QED
  BY <1>1, <1>2, <1>3, PTL DEF Spec
=============================================================================
