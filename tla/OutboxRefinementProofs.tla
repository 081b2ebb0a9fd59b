------------------------ MODULE OutboxRefinementProofs ------------------------
(***************************************************************************)
(* EmailDelivery implements Outbox, for every number of emails, processes, *)
(* runs and sweeps: each step of a worker, a sweep, BullMQ, the API or the *)
(* environment is one step of the promise, or leaves it where it is.       *)
(***************************************************************************)
EXTENDS EmailDeliveryProofs

USE DEF rowVars, jobVars, runVars, sweepVars, apiVars, envVars, smtpVars

\* A step of the promise, or a stutter.
AbstractStep == [Abstract!Next]_<<phase, accepted>>

\* The row of e can be claimed: with Owned, what the mapping reads of the state.
Open(e)  == status[e] \in Pending

\* The refinement mapping, case by case.
LEMMA PhaseCases ==
  ASSUME NEW e \in Emails
  PROVE  phase[e] = IF accepted[e] > 0 THEN "delivered"
                    ELSE IF Owned(e) THEN "owned"
                    ELSE IF Open(e) THEN "open" ELSE "closed"
<1>1. Owners(e) # {} <=> Owned(e)
  BY DEF Owners, Owned
<1>2. QED
  BY <1>1 DEF phase, Open

\* The same for the state after a step.
LEMMA PhaseCasesNext ==
  ASSUME NEW e \in Emails
  PROVE  phase'[e] = IF accepted'[e] > 0 THEN "delivered"
                     ELSE IF Owned(e)' THEN "owned"
                     ELSE IF Open(e)' THEN "open" ELSE "closed"
<1>1. Owners(e)' # {} <=> Owned(e)'
  BY DEF Owners, Owned
<1>2. QED
  BY <1>1 DEF phase, Open

\* phase is a function on the emails, before and after a step.
LEMMA PhaseDomain ==
  /\ phase = [e \in Emails |-> phase[e]]
  /\ phase' = [e \in Emails |-> phase'[e]]
BY DEF phase

\* A step that moves one email along an edge of Outbox, and delivers nothing, is a
\* step of Outbox.
LEMMA OneMoves ==
  ASSUME NEW e \in Emails, accepted' = accepted,
         \A x \in Emails \ {e} : phase'[x] = phase[x],
         \/ phase'[e] = phase[e]
         \/ phase[e] = "owned" /\ phase'[e] \in {"open", "closed"}
         \/ phase[e] = "open" /\ phase'[e] \in {"owned", "closed"}
  PROVE  AbstractStep
<1>1. phase' = [phase EXCEPT ![e] = phase'[e]]
  BY PhaseDomain
<1>2. CASE phase'[e] = phase[e]
  <2>1. phase' = phase
    BY <1>2, PhaseDomain
  <2>2. QED
    BY <2>1 DEF AbstractStep
<1>3. CASE phase[e] = "owned" /\ phase'[e] = "open"
  BY <1>1, <1>3 DEF AbstractStep, Abstract!Next, Abstract!GiveBack, Abstract!Move
<1>4. CASE phase[e] = "owned" /\ phase'[e] = "closed"
  <2>1. phase' = [x \in Emails |-> IF x \in {e} THEN "closed" ELSE phase[x]]
    BY <1>4, PhaseDomain
  <2>2. Abstract!Abandon({e})
    BY <1>4, <2>1 DEF Abstract!Abandon
  <2>3. QED
    BY <2>2 DEF AbstractStep, Abstract!Next
<1>5. CASE phase[e] = "open" /\ phase'[e] = "owned"
  BY <1>1, <1>5 DEF AbstractStep, Abstract!Next, Abstract!Take, Abstract!Move
<1>6. CASE phase[e] = "open" /\ phase'[e] = "closed"
  BY <1>1, <1>6 DEF AbstractStep, Abstract!Next, Abstract!Withdraw, Abstract!Move
<1>7. QED
  BY <1>2, <1>3, <1>4, <1>5, <1>6

\* A step that delivers nothing, gives no run a claim and takes none away, and
\* changes the pending rows by closing e at most, closes e or stutters.
LEMMA OwnersKept ==
  ASSUME NEW e \in Emails, UNCHANGED <<accepted, pc, email>>,
         \A x \in Emails \ {e} : Open(x)' <=> Open(x),
         Open(e)' => Open(e)
  PROVE  AbstractStep
<1>1. \A x \in Emails : Owned(x)' <=> Owned(x)
  BY DEF Owned
<1>2. QED
  BY <1>1, PhaseCases, PhaseCasesNext, OneMoves

\* A step of run r that delivers nothing, moves no other run and changes the
\* pending state of no row but its own, which is not taken twice, closed for good
\* or reopened by anyone else than its owner.
LEMMA RunMoves ==
  ASSUME DeliveryInv, DeliveryInv', NEW r \in Runs, email[r] \in Emails,
         UNCHANGED <<accepted, email>>,
         \A s \in Runs \ {r} : pc'[s] = pc[s],
         \A x \in Emails \ {email[r]} : Open(x)' <=> Open(x),
         \/ pc[r] \in Owning
         \/ pc'[r] \notin Owning /\ (Open(email[r])' <=> Open(email[r]))
         \/ pc'[r] \in Owning /\ Open(email[r])
  PROVE  AbstractStep
<1> DEFINE e == email[r]
<1>1. \A x \in Emails \ {e} : Owned(x)' <=> Owned(x)
  BY DEF Owned
<1>2. \A x \in Emails \ {e} : phase'[x] = phase[x]
  BY <1>1, PhaseCases, PhaseCasesNext
<1>3. CASE pc[r] \in Owning
  <2>1. Owned(e)
    BY <1>3 DEF Owned
  <2>2. QED
    BY <1>2, <2>1, PhaseCases, PhaseCasesNext, OneMoves
<1>4. CASE pc[r] \notin Owning /\ pc'[r] \notin Owning
  <2>1. Owned(e)' <=> Owned(e)
    BY <1>4 DEF Owned
  <2>2. Open(e)' <=> Open(e)
    BY <1>4
  <2>3. QED
    BY <1>2, <2>1, <2>2, PhaseCases, PhaseCasesNext, OneMoves
<1>5. CASE pc[r] \notin Owning /\ pc'[r] \in Owning
  <2>1. Owned(e)' /\ Open(e)
    BY <1>5 DEF Owned
  <2>2. ~Owned(e)
    BY <2>1 DEF Owned, Open, DeliveryInv, ClaimInv, OwnedNotPending
  <2>3. QED
    BY <1>2, <2>1, <2>2, PhaseCases, PhaseCasesNext, OneMoves
<1>6. QED
  BY <1>3, <1>4, <1>5

\* Every step of a run is a step of Outbox: claiming takes, an accepted handoff
\* delivers, a retry or a deferral gives back, a failure abandons.
LEMMA RunRefines ==
  ASSUME NoDuplicateRisk, DeliveryInv, DeliveryInv', NEW r \in Runs, RunStep(r)
  PROVE  AbstractStep
<1>1. TypeOK
  BY DEF DeliveryInv, ClaimInv
<1> USE <1>1, RunMoves
<1>2. CASE Load(r)
  <2>1. email[r] \in Emails /\ UNCHANGED <<accepted, email, status>>
    BY <1>2 DEF Load, Return, TypeOK
  <2>2. /\ \A s \in Runs \ {r} : pc'[s] = pc[s]
        /\ pc'[r] \notin Owning
    BY <1>2 DEF Load, Return, Owning, Acks, TypeOK
  <2>3. QED
    BY <2>1, <2>2 DEF Open
<1>3. CASE Claim(r)
  <2>1. email[r] \in Emails /\ UNCHANGED <<accepted, email>>
    BY <1>3 DEF Claim, TypeOK, GoTo, Return
  <2>2. \A s \in Runs \ {r} : pc'[s] = pc[s]
    BY <1>3 DEF Claim, TypeOK, GoTo, Return
  <2>3. CASE Open(email[r])
    <3>1. \A x \in Emails \ {email[r]} : Open(x)' <=> Open(x)
      BY <1>3 DEF Claim, TypeOK, Open
    <3>2. pc'[r] \in Owning
      BY <1>3, <2>3 DEF Claim, Claimable, Open, GoTo, Owning, TypeOK
    <3>3. QED
      BY <2>1, <2>2, <2>3, <3>1, <3>2
  <2>4. CASE ~Open(email[r])
    <3>1. UNCHANGED status /\ pc'[r] \notin Owning
      BY <1>3, <2>4 DEF Claim, Claimable, Open, Return, Owning, TypeOK
    <3>2. QED
      BY <2>1, <2>2, <3>1 DEF Open
  <2>5. QED
    BY <2>3, <2>4
<1>4. CASE Reserve(r)
  BY <1>4 DEF Reserve, GoTo, Owning, TypeOK, Open
<1>5. ASSUME NEW outcome \in SmtpOutcomes, SendEmail(r, outcome) PROVE AbstractStep
  <2>1. pc[r] \in Owning /\ email[r] \in Emails /\ accepted[email[r]] = 0
    BY <1>5, OwnerUndelivered DEF SendEmail, Owning
  <2>2. UNCHANGED <<email, status>> /\ \A s \in Runs \ {r} : pc'[s] = pc[s]
    BY <1>5 DEF SendEmail, GoTo, TypeOK
  <2>3. CASE outcome = "accepted"
    <3>1. accepted' = [accepted EXCEPT ![email[r]] = @ + 1]
      BY <1>5, <2>3 DEF SendEmail
    <3>2. \A x \in Emails \ {email[r]} : accepted'[x] = accepted[x] /\ (Owned(x)' <=> Owned(x))
      BY <2>2, <3>1 DEF Owned, TypeOK
    <3>3. \A x \in Emails \ {email[r]} : phase'[x] = phase[x]
      BY <2>2, <3>2, PhaseCases, PhaseCasesNext DEF Open
    <3>4. phase[email[r]] = "owned"
      BY <2>1, PhaseCases DEF Owned
    <3>5. phase'[email[r]] = "delivered"
      BY <2>1, <3>1, PhaseCasesNext DEF TypeOK
    <3>6. phase' = [phase EXCEPT ![email[r]] = "delivered"]
      BY <3>3, <3>5, PhaseDomain
    <3>7. Abstract!Deliver(email[r])
      BY <3>1, <3>4, <3>6 DEF Abstract!Deliver, Abstract!Move
    <3>8. QED
      BY <2>1, <3>7 DEF AbstractStep, Abstract!Next
  <2>4. CASE outcome # "accepted"
    <3>1. accepted' = accepted
      BY <1>5, <2>4 DEF SendEmail, NoDuplicateRisk, TypeOK
    <3>2. QED
      BY <2>1, <2>2, <3>1 DEF Open
  <2>5. QED
    BY <2>3, <2>4
<1>6. CASE RecordSent(r) \/ MarkRejected(r) \/ HandleError(r) \/ DeferExhausted(r)
  <2>1. /\ email[r] \in Emails /\ pc[r] \in Owning
        /\ UNCHANGED <<accepted, email>>
    BY <1>6 DEF RecordSent, MarkRejected, HandleError, DeferExhausted, Return, Owning, TypeOK
  <2>2. \A s \in Runs \ {r} : pc'[s] = pc[s]
    BY <1>6 DEF RecordSent, MarkRejected, HandleError, DeferExhausted, Return, TypeOK
  <2>3. \A x \in Emails \ {email[r]} : status'[x] = status[x]
    BY <1>6 DEF RecordSent, MarkRejected, HandleError, DeferExhausted, SetStatus, TypeOK
  <2>4. QED
    BY <2>1, <2>2, <2>3 DEF Open
<1>7. CASE Release(r)
  <2>1. email[r] \in Emails /\ pc[r] \in Owning /\ UNCHANGED <<accepted, email>>
    BY <1>7 DEF Release, GoTo, Owning, TypeOK
  <2>2. /\ \A s \in Runs \ {r} : pc'[s] = pc[s]
        /\ \A x \in Emails \ {email[r]} : status'[x] = status[x]
    BY <1>7 DEF Release, GoTo, SetStatus, TypeOK
  <2>3. QED
    BY <2>1, <2>2 DEF Open
<1>8. CASE CountReschedule(r) \/ MoveToDelayed(r)
  <2>1. email[r] \in Emails /\ UNCHANGED <<accepted, email, status>>
    BY <1>8 DEF CountReschedule, MoveToDelayed, GoTo, Return, TypeOK
  <2>2. \A s \in Runs \ {r} : pc'[s] = pc[s]
    BY <1>8 DEF CountReschedule, MoveToDelayed, GoTo, Return, TypeOK
  <2>3. pc'[r] \notin Owning
    BY <1>8 DEF CountReschedule, MoveToDelayed, GoTo, Return, Owning, Acks, TypeOK
  <2>4. QED
    BY <2>1, <2>2, <2>3 DEF Open
<1>9. CASE StepThrows(r)
  <2>1. email[r] \in Emails
    BY <1>9, FaultAssumption DEF StepThrows, Steps, Owning, TypeOK
  <2>2. UNCHANGED <<accepted, email, status>> /\ \A s \in Runs \ {r} : pc'[s] = pc[s]
    BY <1>9 DEF StepThrows, GoTo, Return, TypeOK
  <2>3. pc[r] \in Owning \/ pc'[r] \notin Owning
    BY <1>9 DEF StepThrows, GoTo, Return, Owning, Acks, TypeOK
  <2>4. QED
    BY <2>1, <2>2, <2>3 DEF Open
<1>10. CASE Ack(r)
  <2>1. UNCHANGED <<accepted, status>>
    BY <1>10 DEF Ack
  <2>2. \A x \in Emails : Owned(x)' <=> Owned(x)
    BY <1>10 DEF Ack, Owned, Owning, Acks, TypeOK
  <2>3. \A x \in Emails : phase'[x] = phase[x]
    BY <2>1, <2>2, PhaseCases, PhaseCasesNext DEF Open
  <2>4. QED
    BY <2>1, <2>3, PhaseDomain DEF AbstractStep
<1>11. QED
  BY <1>2, <1>3, <1>4, <1>5, <1>6, <1>7, <1>8, <1>9, <1>10 DEF RunStep

\* A crash abandons the undelivered emails whose owner it kills, and changes the
\* phase of no other.
LEMMA CrashAbandons ==
  ASSUME DeliveryInv, NEW p \in Procs, Crash(p)
  PROVE  AbstractStep
<1> DEFINE S == {e \in Emails : accepted[e] = 0 /\ Owned(e) /\ ~Owned(e)'}
<1>1. TypeOK /\ UNCHANGED <<accepted, status>>
  BY DEF DeliveryInv, ClaimInv, Crash
<1>2. \A e \in Emails : Owned(e)' => Owned(e)
  BY DEF Crash, Owned, Owning
<1>3. \A e \in S : phase[e] = "owned" /\ phase'[e] = "closed"
  <2> SUFFICES ASSUME NEW e \in S PROVE phase[e] = "owned" /\ phase'[e] = "closed"
    OBVIOUS
  <2>1. ~Open(e)
    BY DEF Owned, Open, DeliveryInv, ClaimInv, OwnedNotPending
  <2>2. QED
    BY <1>1, <2>1, PhaseCases, PhaseCasesNext DEF Open
<1>4. \A e \in Emails \ S : phase'[e] = phase[e]
  BY <1>1, <1>2, PhaseCases, PhaseCasesNext DEF Open, TypeOK
<1>5. phase' = [e \in Emails |-> IF e \in S THEN "closed" ELSE phase[e]]
  BY <1>3, <1>4, PhaseDomain
<1>6. Abstract!Abandon(S)
  BY <1>1, <1>3, <1>5 DEF Abstract!Abandon
<1>7. QED
  BY <1>6 DEF AbstractStep, Abstract!Next

\* Every step of the implementation is a step of the promise, or a stutter.
LEMMA StepRefines ==
  ASSUME NoDuplicateRisk, DeliveryInv, [Next]_vars PROVE AbstractStep
<1>1. DeliveryInv' /\ TypeOK /\ NothingToResend
  BY DeliveryStep DEF DeliveryInv, ClaimInv
<1>2. ASSUME NEW r \in Runs, RunStep(r) PROVE AbstractStep
  BY <1>1, <1>2, RunRefines
<1>3. ASSUME NEW r \in Runs, NEW e \in Emails, Fetch(r, e) PROVE AbstractStep
  <2>1. UNCHANGED <<accepted, status>>
    BY <1>3 DEF Fetch
  <2>2. \A x \in Emails : Owned(x)' <=> Owned(x)
    BY <1>1, <1>3 DEF Fetch, Owned, Owning, TypeOK
  <2>3. \A x \in Emails : phase'[x] = phase[x]
    BY <2>1, <2>2, PhaseCases, PhaseCasesNext DEF Open
  <2>4. QED
    BY <2>1, <2>3, PhaseDomain DEF AbstractStep
<1>4. ASSUME NEW c \in Sweeps, SweepStep(c) PROVE AbstractStep
  <2>1. UNCHANGED <<accepted, pc, email>>
    BY <1>1, <1>4, SweepReopensNothing
  <2>2. \/ status' = status
        \/ \E e \in Emails : status' = [status EXCEPT ![e] = "FAILED"]
    BY <1>1, <1>4 DEF SweepStep, FindAbandoned, ResendAbandoned, FailAbandoned, SetStatus,
       FindOutstanding, EnqueueIfAbsent, EnqueueFails, SweepThrows, SweepDone, NothingToResend
  <2>3. CASE status' = status
    BY <2>1, <2>3 DEF AbstractStep, phase, Owners
  <2>4. ASSUME NEW e \in Emails, status' = [status EXCEPT ![e] = "FAILED"]
        PROVE  AbstractStep
    BY <1>1, <2>1, <2>4, OwnersKept DEF Open, Pending, TypeOK
  <2>5. QED
    BY <2>2, <2>3, <2>4
<1>5. ASSUME NEW e \in Emails, JobStep(e) PROVE AbstractStep
  <2>1. UNCHANGED <<accepted, pc, email, status>>
    BY <1>5 DEF JobStep, EnqueueEmailJobs, Stall, Evict, LockAges
  <2>2. QED
    BY <2>1 DEF AbstractStep, phase, Owners
<1>6. ASSUME NEW e \in Emails, CancelStep(e) PROVE AbstractStep
  <2>1. UNCHANGED <<accepted, pc, email>>
    BY <1>1, <1>6, CancelReopensNothing
  <2>2. status' = status \/ status' = [status EXCEPT ![e] = "CANCELLED"]
    BY <1>6 DEF CancelStep, CancelRead, CancelWrite, RemoveEmailJob, SetStatus
  <2>3. QED
    BY <1>1, <2>1, <2>2, OwnersKept DEF Open, Pending, TypeOK
<1>7. ASSUME NEW p \in Procs, Crash(p) PROVE AbstractStep
  BY <1>7, CrashAbandons
<1>8. CASE RedisLoss \/ ApiCrash \/ UNCHANGED vars
  <2>1. UNCHANGED <<accepted, pc, email, status>>
    BY <1>8 DEF RedisLoss, ApiCrash, vars
  <2>2. QED
    BY <2>1 DEF AbstractStep, phase, Owners
<1>9. QED
  BY <1>2, <1>3, <1>4, <1>5, <1>6, <1>7, <1>8 DEF Next

\* The worker, the reconciler and the API together keep the promise of Outbox: with
\* the default policy and without the two faults that lose an acceptance, an email
\* has one owner at a time, is delivered by it at most once, and is never taken
\* again once it is delivered, cancelled, failed or abandoned.
THEOREM RefinesOutbox == NoDuplicateRisk => (Spec => ImplementsOutbox)
<1> SUFFICES ASSUME NoDuplicateRisk PROVE Spec => ImplementsOutbox
  OBVIOUS
<1>1. Init => DeliveryInv
  BY TypingInit DEF Init, DeliveryInv, ClaimInv, OwnerUnique, OwnedNotPending,
     NothingToResend, DeliveredOnce, Owning
<1>2. Init => Abstract!Init
  BY DEF Init, Abstract!Init, phase, Owners, Owning, Pending
<1>3. DeliveryInv /\ [Next]_vars => DeliveryInv'
  BY DeliveryStep
<1>4. DeliveryInv /\ [Next]_vars => [Abstract!Next]_<<phase, accepted>>
  BY StepRefines DEF AbstractStep
<1>5. QED
  BY <1>1, <1>2, <1>3, <1>4, PTL DEF Spec, ImplementsOutbox, Abstract!Spec
=============================================================================
