-------------------------- MODULE EmailOutcomeProofs --------------------------
(***************************************************************************)
(* Further results about EmailDelivery, for every size and every budget,   *)
(* that also hold while the reconciler resends: what the claim still       *)
(* excludes, how often an email can go out, that SENT is final, what an    *)
(* attempt counter counts, and the bounds of both budgets of a row.        *)
(***************************************************************************)
EXTENDS EmailDeliveryProofs

USE DEF rowVars, jobVars, runVars, sweepVars, apiVars, envVars, smtpVars

\* Either the reconciler never resends, or it does so as configured: one sweep at
\* a time, and no live run outlasts STALE_LOCK_MS.
SafeResend ==
    \/ NeverResends
    \/ SlowRuns = FALSE /\ \A c, d \in Sweeps : c = d

\* A claim is only ever held on a row that nobody can claim again.
OwnedStatus ==
    \A r \in Runs :
        pc[r] \in Owning => status[email[r]] \in {"PROCESSING", "FAILED", "CANCELLED"}
\* Unless live runs are slow, an aged lock means that its run is gone.
StaleIsUnowned ==
    SlowRuns = FALSE => \A e \in Emails : lockedAt[e] = "stale" => ~Owned(e)
\* What a sweep is about to resend is still out of every run's reach.
ResendIsClosed ==
    \A c \in Sweeps : \A e \in toResend[c] :
        ~Owned(e) /\ status[e] \notin Pending \cup {"SENT"} /\ attempts[e] < MaxAttempts

\* The inductive invariant of the claim under a resending reconciler.
ReopenInv ==
    /\ TypeOK
    /\ OwnerUnique
    /\ OwnedStatus
    /\ StaleIsUnowned
    /\ NeverResends => NothingToResend
    /\ ResendIsClosed

------------------------------------------------------------------------------
(* What a step may do to a row, its claim and the sweeps' snapshots. *)

\* The steps of an owner whose claim has not reached the SMTP server.
Unsent == {"reserve", "send", "defer"}

\* A step that changes no row and no claim; a sweep's snapshots may shrink.
Calm ==
    /\ UNCHANGED <<status, attempts, lockedBy, lockedAt, handed, accepted, alive>>
    /\ \A r \in Runs : pc'[r] \in Owning <=> pc[r] \in Owning
    /\ \A r \in Runs : pc[r] \in Owning =>
          /\ email'[r] = email[r]
          /\ pc'[r] \in Unsent <=> pc[r] \in Unsent
          /\ pc'[r] = "record" <=> pc[r] = "record"
    /\ \A c \in Sweeps : toResend'[c] \subseteq toResend[c] /\ toFail'[c] \subseteq toFail[c]

\* An owner writes the outcome, or puts the row back.
Writes(r) == RecordSent(r) \/ MarkRejected(r) \/ HandleError(r) \/ DeferExhausted(r)

\* The steps of a run that touch its row, its claim or the SMTP server.
RowStep(r) ==
    \/ Claim(r) /\ status[email[r]] \in Pending
    \/ \E outcome \in SmtpOutcomes : SendEmail(r, outcome)
    \/ Writes(r) \/ Release(r) \/ StepThrows(r)

\* Everything but the listed steps is calm.
Kinds ==
    \/ Calm
    \/ \E r \in Runs : RowStep(r)
    \/ \E e \in Emails : CancelWrite(e) \/ LockAges(e)
    \/ \E c \in Sweeps : \/ FindAbandoned(c)
                       \/ \E e \in Emails : ResendAbandoned(c, e) \/ FailAbandoned(c, e)
    \/ \E p \in Procs : Crash(p)

\* A step of a run is of one of the kinds.
LEMMA RunKinds == ASSUME TypeOK, NEW r \in Runs, RunStep(r) PROVE Kinds
<1>1. CASE Load(r)
  BY <1>1 DEF Load, Return, Owning, Unsent, Acks, TypeOK, Kinds, Calm
<1>2. CASE Claim(r)
  <2>1. CASE status[email[r]] \in Pending
    BY <1>2, <2>1 DEF Kinds, RowStep
  <2>2. CASE status[email[r]] \notin Pending
    BY <1>2, <2>2 DEF Claim, Claimable, Return, Owning, Unsent, TypeOK, Kinds, Calm
  <2>3. QED
    BY <2>1, <2>2
<1>3. CASE Reserve(r)
  <2>1. PICK step \in {"send", "defer"} : pc' = [pc EXCEPT ![r] = step]
    BY <1>3 DEF Reserve, GoTo
  <2>2. /\ pc[r] = "reserve"
        /\ UNCHANGED <<email, rowVars, sweepVars, envVars, smtpVars>>
    BY <1>3 DEF Reserve, GoTo
  <2>3. QED
    BY <2>1, <2>2 DEF Owning, Unsent, TypeOK, Kinds, Calm
<1>4. CASE CountReschedule(r)
  BY <1>4 DEF CountReschedule, GoTo, Owning, Unsent, TypeOK, Kinds, Calm
<1>5. CASE MoveToDelayed(r)
  BY <1>5 DEF MoveToDelayed, Return, Owning, Unsent, TypeOK, Kinds, Calm
<1>6. CASE Ack(r)
  BY <1>6 DEF Ack, Acks, Owning, Unsent, TypeOK, Kinds, Calm
<1>7. CASE Writes(r) \/ Release(r) \/ StepThrows(r)
  BY <1>7 DEF Kinds, RowStep
<1>8. ASSUME NEW outcome \in SmtpOutcomes, SendEmail(r, outcome) PROVE Kinds
  BY <1>8 DEF Kinds, RowStep
<1>9. QED
  BY <1>1, <1>2, <1>3, <1>4, <1>5, <1>6, <1>7, <1>8 DEF RunStep, Writes

\* A step of a sweep is of one of the kinds.
LEMMA SweepKinds == ASSUME TypeOK, NEW c \in Sweeps, SweepStep(c) PROVE Kinds
<1>1. CASE FindOutstanding(c)
  BY <1>1 DEF FindOutstanding, Kinds, Calm
<1>2. ASSUME NEW e \in Emails, EnqueueIfAbsent(c, e) \/ EnqueueFails(c, e) PROVE Kinds
  BY <1>2 DEF EnqueueIfAbsent, EnqueueFails, Kinds, Calm
<1>3. CASE SweepThrows(c)
  BY <1>3 DEF SweepThrows, TypeOK, Kinds, Calm
<1>4. CASE SweepDone(c)
  BY <1>4 DEF SweepDone, Kinds, Calm
<1>5. QED
  BY <1>1, <1>2, <1>3, <1>4 DEF SweepStep, Kinds

\* Every step is of one of the kinds.
LEMMA StepKinds == ASSUME TypeOK, [Next]_vars PROVE Kinds
<1>1. ASSUME NEW r \in Runs, NEW e \in Emails, Fetch(r, e) PROVE Kinds
  BY <1>1 DEF Fetch, Owning, Unsent, TypeOK, Kinds, Calm
<1>2. ASSUME NEW e \in Emails, JobStep(e) PROVE Kinds
  BY <1>2 DEF JobStep, EnqueueEmailJobs, Stall, Evict, Kinds, Calm
<1>3. ASSUME NEW e \in Emails, CancelStep(e) PROVE Kinds
  BY <1>3 DEF CancelStep, CancelRead, RemoveEmailJob, Kinds, Calm
<1>4. CASE RedisLoss \/ ApiCrash \/ UNCHANGED vars
  BY <1>4 DEF RedisLoss, ApiCrash, vars, Kinds, Calm
<1>5. QED
  BY <1>1, <1>2, <1>3, <1>4, RunKinds, SweepKinds DEF Next, Kinds
------------------------------------------------------------------------------
(* The claim stays exclusive while the reconciler resends. *)

\* A step that gives no run a claim, and leaves the rows that keep an owner
\* unreclaimable, keeps ReopenInv, if what the sweeps hold stays closed.
LEMMA NoClaimGiven ==
  ASSUME ReopenInv, TypeOK', NeverResends => NothingToResend', StaleIsUnowned',
         \A r \in Runs : pc'[r] \in Owning => pc[r] \in Owning /\ email'[r] = email[r],
         \A e \in Emails : Owned(e)' =>
             status'[e] = status[e] \/ status'[e] \in {"FAILED", "CANCELLED"},
         ResendIsClosed'
  PROVE  ReopenInv'
<1>1. \A r \in Runs : pc'[r] \in Owning => email[r] \in Emails /\ Owned(email[r])'
  BY DEF ReopenInv, TypeOK, Owned, Owning
<1>2. OwnedStatus'
  BY <1>1 DEF ReopenInv, OwnedStatus
<1>3. OwnerUnique'
  BY DEF ReopenInv, OwnerUnique
<1>4. QED
  BY <1>2, <1>3 DEF ReopenInv

\* An owner that returns leaves nobody behind: no other run owns its row, no
\* sweep holds it, and its new status is its own affair.
LEMMA OwnerLeaves ==
  ASSUME ReopenInv, TypeOK', NEW r \in Runs, pc[r] \in Owning, pc'[r] \notin Owning,
         UNCHANGED <<email, toResend>>,
         \A s \in Runs \ {r} : pc'[s] = pc[s],
         \A e \in Emails \ {email[r]} :
             /\ status'[e] = status[e] /\ attempts'[e] = attempts[e]
             /\ lockedAt'[e] = lockedAt[e]
  PROVE  ReopenInv' /\ ~Owned(email[r])' /\ \A c \in Sweeps : email[r] \notin toResend[c]
<1>1. email[r] \in Emails /\ Owned(email[r])
  BY DEF ReopenInv, TypeOK, Owned, Owning
<1>2. ~Owned(email[r])'
  BY DEF ReopenInv, OwnerUnique, Owned
<1>3. \A c \in Sweeps : email[r] \notin toResend[c]
  BY <1>1 DEF ReopenInv, ResendIsClosed
<1>4. \A e \in Emails : Owned(e)' => Owned(e)
  BY DEF Owned
<1>5. StaleIsUnowned'
  BY <1>2, <1>4 DEF ReopenInv, StaleIsUnowned
<1>6. ResendIsClosed'
  BY <1>3, <1>4 DEF ReopenInv, ResendIsClosed, TypeOK
<1>7. NeverResends => NothingToResend'
  BY DEF ReopenInv, NothingToResend
<1>8. \A e \in Emails : Owned(e)' => status'[e] = status[e]
  BY <1>2
<1>9. \A s \in Runs : pc'[s] \in Owning => pc[s] \in Owning /\ email'[s] = email[s]
  OBVIOUS
<1>10. ReopenInv'
  BY <1>5, <1>6, <1>7, <1>8, <1>9, NoClaimGiven
<1>11. QED
  BY <1>2, <1>3, <1>10

\* Every step keeps ReopenInv.
LEMMA ReopenStep ==
  ASSUME SafeResend, ReopenInv, [Next]_vars PROVE ReopenInv'
<1>1. TypeOK /\ TypeOK'
  BY TypingStep DEF ReopenInv
<1>2. CASE Calm
  <2>1. \A e \in Emails : Owned(e)' => Owned(e)
    BY <1>2 DEF Calm, Owned
  <2>2. ResendIsClosed' /\ StaleIsUnowned' /\ (NeverResends => NothingToResend')
    BY <1>1, <1>2, <2>1 DEF Calm, ReopenInv, ResendIsClosed, StaleIsUnowned, NothingToResend, TypeOK
  <2>3. QED
    BY <1>1, <1>2, <2>2, NoClaimGiven DEF Calm
<1>3. ASSUME NEW r \in Runs, Claim(r), status[email[r]] \in Pending PROVE ReopenInv'
  <2>1. /\ pc[r] = "claim" /\ email[r] \in Emails
        /\ UNCHANGED <<email, toResend>>
        /\ status' = [status EXCEPT ![email[r]] = "PROCESSING"]
        /\ attempts' = [attempts EXCEPT ![email[r]] = @ + 1]
        /\ lockedAt' = [lockedAt EXCEPT ![email[r]] = "fresh"]
        /\ pc' = [pc EXCEPT ![r] = "reserve"]
    BY <1>1, <1>3 DEF Claim, Claimable, GoTo, TypeOK
  <2>2. ~Owned(email[r])
    BY <1>3 DEF ReopenInv, OwnedStatus, Owned, Pending
  <2>3. \A s \in Runs : pc'[s] \in Owning => s = r \/ (pc[s] \in Owning /\ email[s] # email[r])
    BY <1>1, <2>1, <2>2 DEF Owned, TypeOK
  <2>4. OwnerUnique'
    BY <2>1, <2>3 DEF ReopenInv, OwnerUnique
  <2>5. OwnedStatus'
    <3>1. SUFFICES ASSUME NEW s \in Runs, pc'[s] \in Owning
                   PROVE  status'[email[s]] \in {"PROCESSING", "FAILED", "CANCELLED"}
      BY <2>1 DEF OwnedStatus
    <3>2. CASE s = r
      BY <1>1, <2>1, <3>2 DEF TypeOK
    <3>3. CASE s # r
      <4>1. pc[s] \in Owning /\ email[s] # email[r] /\ email[s] \in Emails
        BY <1>1, <2>3, <3>1, <3>3 DEF TypeOK, Owning
      <4>2. QED
        BY <1>1, <2>1, <4>1 DEF ReopenInv, OwnedStatus, TypeOK
    <3>4. QED
      BY <3>2, <3>3
  <2>6. \A e \in Emails : e # email[r] => (Owned(e)' => Owned(e))
    BY <2>1, <2>3 DEF Owned
  <2>7. StaleIsUnowned'
    BY <1>1, <2>1, <2>6 DEF ReopenInv, StaleIsUnowned, TypeOK
  <2>8. \A c \in Sweeps : email[r] \notin toResend[c]
    BY <1>3 DEF ReopenInv, ResendIsClosed
  <2>9. ResendIsClosed'
    BY <1>1, <2>1, <2>6, <2>8 DEF ReopenInv, ResendIsClosed, TypeOK
  <2>10. QED
    BY <1>1, <2>1, <2>4, <2>5, <2>7, <2>9 DEF ReopenInv, NothingToResend
<1>4. ASSUME NEW r \in Runs, NEW outcome \in SmtpOutcomes, SendEmail(r, outcome)
      PROVE  ReopenInv'
  <2>1. /\ UNCHANGED <<status, attempts, lockedAt, email, toResend>>
        /\ pc[r] \in Owning /\ \A s \in Runs \ {r} : pc'[s] = pc[s]
    BY <1>1, <1>4 DEF SendEmail, GoTo, Owning, TypeOK
  <2>2. \A e \in Emails : Owned(e)' => Owned(e)
    BY <2>1 DEF Owned
  <2>3. ResendIsClosed' /\ StaleIsUnowned' /\ (NeverResends => NothingToResend')
    BY <1>1, <2>1, <2>2 DEF ReopenInv, ResendIsClosed, StaleIsUnowned, NothingToResend, TypeOK
  <2>4. QED
    BY <1>1, <2>1, <2>3, NoClaimGiven
<1>5. ASSUME NEW r \in Runs, Writes(r) PROVE ReopenInv'
  <2>1. /\ pc[r] \in Owning /\ pc'[r] \notin Owning /\ UNCHANGED <<email, toResend, attempts>>
        /\ \A s \in Runs \ {r} : pc'[s] = pc[s]
    BY <1>1, <1>5 DEF Writes, RecordSent, MarkRejected, HandleError, DeferExhausted,
       Return, Owning, TypeOK
  <2>2. \A e \in Emails \ {email[r]} : status'[e] = status[e] /\ lockedAt'[e] = lockedAt[e]
    BY <1>1, <1>5 DEF Writes, RecordSent, MarkRejected, HandleError, DeferExhausted,
       SetStatus, TypeOK
  <2>3. QED
    BY <1>1, <2>1, <2>2, OwnerLeaves
<1>6. ASSUME NEW r \in Runs, Release(r) PROVE ReopenInv'
  <2>1. /\ pc[r] \in Owning /\ pc'[r] \notin Owning /\ UNCHANGED <<email, toResend>>
        /\ \A s \in Runs \ {r} : pc'[s] = pc[s]
    BY <1>1, <1>6 DEF Release, GoTo, Owning, TypeOK
  <2>2. \A e \in Emails \ {email[r]} :
             /\ status'[e] = status[e] /\ attempts'[e] = attempts[e]
             /\ lockedAt'[e] = lockedAt[e]
    BY <1>1, <1>6 DEF Release, SetStatus, TypeOK
  <2>3. QED
    BY <1>1, <2>1, <2>2, OwnerLeaves
<1>7. ASSUME NEW r \in Runs, StepThrows(r) PROVE ReopenInv'
  <2>1. /\ UNCHANGED <<status, attempts, lockedAt, email, toResend>>
        /\ \A s \in Runs \ {r} : pc'[s] = pc[s]
        /\ pc'[r] \in Owning => pc[r] \in Owning
    BY <1>1, <1>7 DEF StepThrows, GoTo, Return, Owning, TypeOK
  <2>2. \A e \in Emails : Owned(e)' => Owned(e)
    BY <2>1 DEF Owned
  <2>3. ResendIsClosed' /\ StaleIsUnowned' /\ (NeverResends => NothingToResend')
    BY <1>1, <2>1, <2>2 DEF ReopenInv, ResendIsClosed, StaleIsUnowned, NothingToResend, TypeOK
  <2>4. QED
    BY <1>1, <2>1, <2>3, NoClaimGiven
<1>8. ASSUME NEW e \in Emails, CancelWrite(e) PROVE ReopenInv'
  <2>1. /\ status' = [status EXCEPT ![e] = "CANCELLED"]
        /\ lockedAt' = [lockedAt EXCEPT ![e] = "null"]
        /\ UNCHANGED <<pc, email, attempts, toResend>>
    BY <1>8 DEF CancelWrite, SetStatus
  <2>2. \A x \in Emails : Owned(x)' <=> Owned(x)
    BY <2>1 DEF Owned
  <2>3. ResendIsClosed' /\ StaleIsUnowned' /\ (NeverResends => NothingToResend')
    BY <1>1, <2>1, <2>2
       DEF ReopenInv, ResendIsClosed, StaleIsUnowned, NothingToResend, TypeOK, Pending
  <2>4. QED
    BY <1>1, <2>1, <2>3, NoClaimGiven DEF TypeOK
<1>9. ASSUME NEW e \in Emails, LockAges(e) PROVE ReopenInv'
  <2>1. /\ lockedAt' = [lockedAt EXCEPT ![e] = "stale"]
        /\ UNCHANGED <<pc, email, status, attempts, toResend>>
        /\ SlowRuns = FALSE => ~Owned(e)
    BY <1>9 DEF LockAges, Owners, Owned
  <2>2. \A x \in Emails : Owned(x)' <=> Owned(x)
    BY <2>1 DEF Owned
  <2>3. ResendIsClosed' /\ StaleIsUnowned' /\ (NeverResends => NothingToResend')
    BY <1>1, <2>1, <2>2
       DEF ReopenInv, ResendIsClosed, StaleIsUnowned, NothingToResend, TypeOK
  <2>4. QED
    BY <1>1, <2>1, <2>3, NoClaimGiven
<1>10. ASSUME NEW c \in Sweeps, FindAbandoned(c) PROVE ReopenInv'
  <2>1. UNCHANGED <<pc, email, status, attempts, lockedAt>>
    BY <1>10 DEF FindAbandoned
  <2>2. PICK resendSuspect \in ResendModes :
            toResend' = [toResend EXCEPT ![c] = {e \in Abandoned : Resends(e, resendSuspect)}]
    BY <1>10 DEF FindAbandoned
  <2>3. \A x \in Emails : Owned(x)' <=> Owned(x)
    BY <2>1 DEF Owned
  <2>4. NeverResends => NothingToResend'
    BY <1>1, <2>2 DEF NeverResends, NothingToResend, Resends, ReopenInv, TypeOK
  <2>5. ResendIsClosed'
    <3>1. SUFFICES ASSUME NEW d \in Sweeps, NEW e \in toResend'[d]
                   PROVE  /\ ~Owned(e) /\ status[e] \notin Pending \cup {"SENT"}
                          /\ attempts[e] < MaxAttempts
      BY <1>1, <2>1, <2>3 DEF ResendIsClosed, TypeOK
    <3>2. CASE e \in toResend[d]
      BY <3>2 DEF ReopenInv, ResendIsClosed
    <3>3. CASE e \notin toResend[d]
      <4>1. e \in Abandoned /\ Resends(e, resendSuspect)
        BY <1>1, <2>2, <3>1, <3>3 DEF TypeOK
      <4>2. SlowRuns = FALSE
        BY <4>1 DEF SafeResend, NeverResends, Resends
      <4>3. QED
        BY <4>1, <4>2 DEF Abandoned, Resends, ReopenInv, StaleIsUnowned, Pending
    <3>4. QED
      BY <3>2, <3>3
  <2>6. StaleIsUnowned'
    BY <2>1, <2>3 DEF ReopenInv, StaleIsUnowned
  <2>7. QED
    BY <1>1, <2>1, <2>4, <2>5, <2>6, NoClaimGiven
<1>11. ASSUME NEW c \in Sweeps, NEW e \in Emails, ResendAbandoned(c, e) PROVE ReopenInv'
  <2>1. /\ e \in toResend[c] /\ UNCHANGED <<pc, email, attempts>>
        /\ status' = [status EXCEPT ![e] = "SCHEDULED"]
        /\ lockedAt' = [lockedAt EXCEPT ![e] = "null"]
        /\ toResend' = [toResend EXCEPT ![c] = @ \ {e}]
    BY <1>11 DEF ResendAbandoned, SetStatus
  <2>2. \A x \in Emails : Owned(x)' <=> Owned(x)
    BY <2>1 DEF Owned
  <2>3. ~NeverResends /\ \A d \in Sweeps : d = c
    BY <2>1 DEF ReopenInv, NothingToResend, SafeResend
  <2>4. ~Owned(e)
    BY <2>1 DEF ReopenInv, ResendIsClosed
  <2>5. ResendIsClosed' /\ StaleIsUnowned'
    BY <1>1, <2>1, <2>2, <2>3 DEF ReopenInv, ResendIsClosed, StaleIsUnowned, TypeOK
  <2>6. QED
    BY <1>1, <2>1, <2>2, <2>3, <2>4, <2>5, NoClaimGiven DEF TypeOK
<1>12. ASSUME NEW c \in Sweeps, NEW e \in Emails, FailAbandoned(c, e) PROVE ReopenInv'
  <2>1. /\ status' = [status EXCEPT ![e] = "FAILED"]
        /\ lockedAt' = [lockedAt EXCEPT ![e] = "null"]
        /\ UNCHANGED <<pc, email, attempts, toResend>>
    BY <1>12 DEF FailAbandoned, SetStatus
  <2>2. \A x \in Emails : Owned(x)' <=> Owned(x)
    BY <2>1 DEF Owned
  <2>3. ResendIsClosed' /\ StaleIsUnowned' /\ (NeverResends => NothingToResend')
    BY <1>1, <2>1, <2>2
       DEF ReopenInv, ResendIsClosed, StaleIsUnowned, NothingToResend, TypeOK, Pending
  <2>4. QED
    BY <1>1, <2>1, <2>3, NoClaimGiven DEF TypeOK
<1>13. ASSUME NEW p \in Procs, Crash(p) PROVE ReopenInv'
  <2>1. /\ UNCHANGED <<status, attempts, lockedAt>>
        /\ \A c \in Sweeps : toResend'[c] \subseteq toResend[c]
        /\ \A s \in Runs : pc'[s] \in Owning => pc[s] \in Owning /\ email'[s] = email[s]
    BY <1>13 DEF Crash, Owning
  <2>2. \A e \in Emails : Owned(e)' => Owned(e)
    BY <2>1 DEF Owned
  <2>3. ResendIsClosed' /\ StaleIsUnowned' /\ (NeverResends => NothingToResend')
    BY <1>1, <2>1, <2>2 DEF ReopenInv, ResendIsClosed, StaleIsUnowned, NothingToResend, TypeOK
  <2>4. QED
    BY <1>1, <2>1, <2>3, NoClaimGiven
<1>14. QED
  BY <1>1, <1>2, <1>3, <1>4, <1>5, <1>6, <1>7, <1>8, <1>9, <1>10, <1>11, <1>12, <1>13,
     StepKinds DEF Kinds, RowStep
\* An email is out of reach: nobody owns it and nobody can take it.
Closed(e) == ~Owned(e) /\ status[e] \notin Pending \cup {"SENT"}

\* Only a sweep that resends reopens a closed row.
LEMMA ClosedStays ==
  ASSUME ReopenInv, [Next]_vars, NEW e \in Emails, Closed(e),
         \A c \in Sweeps : ~ResendAbandoned(c, e)
  PROVE  Closed(e)' /\ UNCHANGED <<attempts[e], handed[e], accepted[e]>>
<1>1. TypeOK
  BY DEF ReopenInv
<1>2. CASE Calm
  BY <1>2 DEF Calm, Closed, Owned
<1>3. ASSUME NEW r \in Runs, RowStep(r) PROVE Closed(e)' /\ UNCHANGED <<attempts[e], handed[e], accepted[e]>>
  <2>1. email[r] # e \/ (pc[r] \notin Owning /\ status[email[r]] \notin Pending)
    BY DEF Closed, Owned
  <2>2. CASE Claim(r) /\ status[email[r]] \in Pending
    <3>1. /\ email[r] # e /\ email[r] \in Emails /\ UNCHANGED <<email, handed, accepted>>
          /\ \A s \in Runs \ {r} : pc'[s] = pc[s]
          /\ UNCHANGED <<status[e], attempts[e]>>
      BY <1>1, <2>1, <2>2 DEF Claim, Claimable, GoTo, TypeOK
    <3>2. QED
      BY <3>1 DEF Closed, Owned
  <2>3. CASE StepThrows(r)
    <3>1. /\ UNCHANGED <<rowVars, smtpVars, email>>
          /\ \A s \in Runs : pc'[s] \in Owning => pc[s] \in Owning
      BY <1>1, <2>3 DEF StepThrows, GoTo, Return, Owning, TypeOK
    <3>2. QED
      BY <3>1 DEF Closed, Owned
  <2>4. ASSUME NEW outcome \in SmtpOutcomes, SendEmail(r, outcome)
        PROVE  Closed(e)' /\ UNCHANGED <<attempts[e], handed[e], accepted[e]>>
    <3>1. /\ pc[r] \in Owning /\ email[r] # e
          /\ UNCHANGED <<email, status, attempts, handed[e], accepted[e]>>
          /\ \A s \in Runs \ {r} : pc'[s] = pc[s]
      BY <1>1, <2>1, <2>4 DEF SendEmail, GoTo, Owning, TypeOK
    <3>2. QED
      BY <3>1 DEF Closed, Owned
  <2>5. CASE Writes(r) \/ Release(r)
    <3>1. /\ pc[r] \in Owning /\ email[r] # e /\ UNCHANGED <<email, handed, accepted>>
          /\ \A s \in Runs : pc'[s] \in Owning => pc[s] \in Owning
      BY <1>1, <2>1, <2>5 DEF Writes, RecordSent, MarkRejected, HandleError, DeferExhausted,
         Release, GoTo, Return, Owning, TypeOK
    <3>2. UNCHANGED <<status[e], attempts[e]>>
      BY <1>1, <2>5, <3>1 DEF Writes, RecordSent, MarkRejected, HandleError, DeferExhausted,
         Release, SetStatus, TypeOK
    <3>3. QED
      BY <3>1, <3>2 DEF Closed, Owned
  <2>6. QED
    BY <1>3, <2>2, <2>3, <2>4, <2>5 DEF RowStep
<1>4. ASSUME NEW x \in Emails, CancelWrite(x) \/ LockAges(x)
      PROVE  Closed(e)' /\ UNCHANGED <<attempts[e], handed[e], accepted[e]>>
  BY <1>1, <1>4 DEF CancelWrite, LockAges, SetStatus, Closed, Owned, TypeOK, Pending
<1>5. ASSUME NEW c \in Sweeps, NEW x \in Emails,
             FindAbandoned(c) \/ FailAbandoned(c, x) \/ (ResendAbandoned(c, x) /\ x # e)
      PROVE  Closed(e)' /\ UNCHANGED <<attempts[e], handed[e], accepted[e]>>
  BY <1>1, <1>5
     DEF FindAbandoned, FailAbandoned, ResendAbandoned, SetStatus, Closed, Owned, TypeOK, Pending
<1>6. ASSUME NEW p \in Procs, Crash(p)
      PROVE  Closed(e)' /\ UNCHANGED <<attempts[e], handed[e], accepted[e]>>
  BY <1>6 DEF Crash, Closed, Owned, Owning
<1>7. QED
  BY <1>1, <1>2, <1>3, <1>4, <1>5, <1>6, StepKinds DEF Kinds

\* A row that a sweep resends is nobody's, and no other sweep holds a snapshot.
LEMMA Resending ==
  ASSUME SafeResend, ReopenInv, NEW c \in Sweeps, NEW e \in Emails, ResendAbandoned(c, e)
  PROVE  /\ e \in toResend[c] /\ Closed(e)
         /\ \A d \in Sweeps : d = c
BY DEF ResendAbandoned, ReopenInv, ResendIsClosed, Closed, NothingToResend, SafeResend

\* What a sweep selects for resending is abandoned by its owner.
LEMMA Selecting ==
  ASSUME SafeResend, ReopenInv, NEW c \in Sweeps, FindAbandoned(c), NEW d \in Sweeps,
         NEW e \in toResend'[d]
  PROVE  e \in toResend[d] \/ (status[e] = "PROCESSING" /\ ~Owned(e))
<1>1. TypeOK
  BY DEF ReopenInv
<1>2. PICK resendSuspect \in ResendModes :
          toResend' = [toResend EXCEPT ![c] = {x \in Abandoned : Resends(x, resendSuspect)}]
  BY DEF FindAbandoned
<1>3. CASE e \notin toResend[d]
  <2>1. e \in Abandoned /\ Resends(e, resendSuspect)
    BY <1>1, <1>2, <1>3 DEF TypeOK
  <2>2. SlowRuns = FALSE
    BY <2>1 DEF SafeResend, NeverResends, Resends
  <2>3. QED
    BY <2>1, <2>2 DEF Abandoned, ReopenInv, StaleIsUnowned
<1>4. QED
  BY <1>3

\* ReopenInv holds at the start.
LEMMA ReopenInit == Init => ReopenInv
BY TypingInit DEF Init, ReopenInv, OwnerUnique, OwnedStatus, StaleIsUnowned, NothingToResend,
   ResendIsClosed, Owning

\* At most one live run sits between its claim and its write of the outcome, also
\* when abandoned rows are resent, by one sweep at a time and from runs that do not
\* outlast STALE_LOCK_MS.
THEOREM ExclusiveWhileResending == SafeResend => (Spec => []ExclusiveClaim)
<1> SUFFICES ASSUME SafeResend PROVE Spec => []ExclusiveClaim
  OBVIOUS
<1>1. ReopenInv /\ [Next]_vars => ReopenInv'
  BY ReopenStep
<1>2. ReopenInv => ExclusiveClaim
  <2> SUFFICES ASSUME ReopenInv, NEW e \in Emails PROVE Cardinality(Owners(e)) <= 1
    BY DEF ExclusiveClaim
  <2>1. \A r, s \in Owners(e) : r = s
    BY DEF ReopenInv, OwnerUnique, Owners
  <2>2. CASE Owners(e) = {}
    BY <2>2, FS_EmptySet
  <2>3. CASE Owners(e) # {}
    <3>1. PICK r : r \in Owners(e)
      BY <2>3
    <3>2. Owners(e) = {r}
      BY <2>1, <3>1
    <3>3. Cardinality({r}) = 1
      BY FS_Singleton
    <3>4. QED
      BY <3>2, <3>3
  <2>4. QED
    BY <2>2, <2>3
<1>3. QED
  BY <1>1, <1>2, ReopenInit, PTL DEF Spec

------------------------------------------------------------------------------
(* SENT is final. *)

\* What a sweep is about to fail is closed, and is not what it resends.
DoomedIsClosed ==
    \A c \in Sweeps : \A e \in toFail[c] :
        Closed(e) /\ e \notin toResend[c]
SentInv == ReopenInv /\ DoomedIsClosed

\* Every step keeps SentInv.
LEMMA SentStep ==
  ASSUME SafeResend, SlowRuns = FALSE, SentInv, [Next]_vars PROVE SentInv'
<1>1. ReopenInv /\ ReopenInv' /\ TypeOK /\ TypeOK'
  BY ReopenStep DEF SentInv, ReopenInv
<1>2. SUFFICES ASSUME NEW c \in Sweeps, NEW e \in toFail'[c]
               PROVE  Closed(e)' /\ e \notin toResend'[c]
  BY <1>1 DEF SentInv, DoomedIsClosed
<1>3. e \in Emails
  BY <1>1 DEF TypeOK
<1>4. ASSUME e \in toFail[c], toResend'[c] \subseteq toResend[c]
      PROVE  Closed(e)' /\ e \notin toResend'[c]
  <2>1. Closed(e) /\ e \notin toResend[c]
    BY <1>4 DEF SentInv, DoomedIsClosed
  <2>2. \A d \in Sweeps : ~ResendAbandoned(d, e)
    BY <1>1, <1>3, <2>1, Resending
  <2>3. QED
    BY <1>1, <1>3, <1>4, <2>1, <2>2, ClosedStays
<1>5. ASSUME NEW d \in Sweeps, FindAbandoned(d) PROVE Closed(e)' /\ e \notin toResend'[c]
  <2>1. UNCHANGED <<pc, email, status>> /\ (d # c => UNCHANGED <<toFail[c], toResend[c]>>)
    BY <1>1, <1>5 DEF FindAbandoned, TypeOK
  <2>2. CASE d # c
    BY <1>4, <2>1, <2>2
  <2>3. CASE d = c
    <3>1. e \in Abandoned /\ e \notin toResend'[c]
      BY <1>1, <1>5, <2>3 DEF FindAbandoned, TypeOK
    <3>2. Closed(e)
      BY <1>1, <3>1 DEF Abandoned, ReopenInv, StaleIsUnowned, Closed, Pending
    <3>3. QED
      BY <2>1, <3>1, <3>2 DEF Closed, Owned
  <2>4. QED
    BY <2>2, <2>3
<1>6. ASSUME \A d \in Sweeps : ~FindAbandoned(d)
      PROVE  toFail'[c] \subseteq toFail[c] /\ toResend'[c] \subseteq toResend[c]
  <2>1. ASSUME NEW r \in Runs, RowStep(r) PROVE UNCHANGED <<toFail, toResend>>
    BY <2>1 DEF RowStep, Claim, SendEmail, Writes, RecordSent, MarkRejected, HandleError,
       DeferExhausted, Release, StepThrows
  <2>2. ASSUME NEW x \in Emails, CancelWrite(x) \/ LockAges(x) PROVE UNCHANGED <<toFail, toResend>>
    BY <2>2 DEF CancelWrite, LockAges
  <2>3. ASSUME NEW d \in Sweeps, NEW x \in Emails, ResendAbandoned(d, x) \/ FailAbandoned(d, x)
        PROVE  toFail'[c] \subseteq toFail[c] /\ toResend'[c] \subseteq toResend[c]
    <3>1. /\ toFail' = toFail \/ toFail' = [toFail EXCEPT ![d] = @ \ {x}]
          /\ toResend' = toResend \/ toResend' = [toResend EXCEPT ![d] = @ \ {x}]
      BY <2>3 DEF ResendAbandoned, FailAbandoned
    <3>2. toFail \in [Sweeps -> SUBSET Emails] /\ toResend \in [Sweeps -> SUBSET Emails]
      BY <1>1 DEF TypeOK
    <3>3. toFail'[c] \subseteq toFail[c]
      BY <3>1, <3>2
    <3>4. toResend'[c] \subseteq toResend[c]
      BY <3>1, <3>2
    <3>5. QED
      BY <3>3, <3>4
  <2>4. ASSUME NEW p \in Procs, Crash(p)
        PROVE  toFail'[c] \subseteq toFail[c] /\ toResend'[c] \subseteq toResend[c]
    BY <2>4 DEF Crash
  <2>5. QED
    BY <1>1, <1>6, <2>1, <2>2, <2>3, <2>4, StepKinds DEF Kinds, Calm
<1>7. QED
  BY <1>4, <1>5, <1>6

\* In SentInv only the user's cancel takes SENT away from a row.
LEMMA SentKept ==
  ASSUME SafeResend, SentInv, [Next]_vars, NEW e \in Emails, status[e] = "SENT", status'[e] # "SENT"
  PROVE  CancelWrite(e)
<1>1. ReopenInv /\ TypeOK
  BY DEF SentInv, ReopenInv
<1>2. ASSUME NEW r \in Runs, RowStep(r) PROVE FALSE
  <2>1. CASE Claim(r) /\ status[email[r]] \in Pending
    BY <1>1, <2>1 DEF Claim, Claimable, Pending, TypeOK
  <2>2. CASE Writes(r) \/ Release(r)
    <3>1. email[r] # e
      BY <1>1, <2>2 DEF Writes, RecordSent, MarkRejected, HandleError, DeferExhausted, Release,
         ReopenInv, OwnedStatus, Owning
    <3>2. status'[e] = status[e]
      BY <1>1, <2>2, <3>1 DEF Writes, RecordSent, MarkRejected, HandleError, DeferExhausted,
         Release, SetStatus, TypeOK
    <3>3. QED
      BY <3>2
  <2>3. QED
    BY <1>2, <2>1, <2>2 DEF RowStep, SendEmail, StepThrows
<1>3. ASSUME NEW x \in Emails, CancelWrite(x) \/ LockAges(x) PROVE CancelWrite(e)
  BY <1>1, <1>3 DEF CancelWrite, LockAges, SetStatus, TypeOK
<1>4. ASSUME NEW c \in Sweeps, NEW x \in Emails,
             FindAbandoned(c) \/ ResendAbandoned(c, x) \/ FailAbandoned(c, x)
      PROVE  FALSE
  <2>1. ResendAbandoned(c, x) \/ FailAbandoned(c, x) => x # e
    BY <1>1 DEF ResendAbandoned, FailAbandoned, SentInv, DoomedIsClosed, Closed, ReopenInv,
       ResendIsClosed
  <2>2. QED
    BY <1>1, <1>4, <2>1 DEF FindAbandoned, ResendAbandoned, FailAbandoned, SetStatus, TypeOK
<1>5. QED
  BY <1>1, <1>2, <1>3, <1>4, StepKinds DEF Kinds, Calm, Crash

\* A row marked SENT stays SENT, unless the user's cancel was already past its
\* check: neither a redelivered job, nor an overlapping or late sweep, nor a crash,
\* nor a lost lock turns it back, as long as no live run outlasts STALE_LOCK_MS.
THEOREM SentStays == SafeResend /\ SlowRuns = FALSE => (Spec => SentIsFinal)
<1> SUFFICES ASSUME SafeResend, SlowRuns = FALSE PROVE Spec => SentIsFinal
  OBVIOUS
<1>1. Init => SentInv
  BY ReopenInit DEF Init, SentInv, DoomedIsClosed
<1>2. SentInv /\ [Next]_vars => SentInv'
  BY SentStep
<1>3. SentInv /\ [Next]_vars =>
          [\A e \in Emails : status[e] = "SENT" /\ status'[e] # "SENT" => CancelWrite(e)]_vars
  BY SentKept
<1>4. QED
  BY <1>1, <1>2, <1>3, PTL DEF Spec, SentIsFinal
------------------------------------------------------------------------------
(* How often an email goes out when abandoned rows are resent. *)

\* The faults that lose the news of an acceptance must not happen.
AcceptanceKnown == "record" \notin StoreFaults /\ "lostReply" \notin SmtpOutcomes

Dead == {p \in Procs : ~alive[p]}

\* Email e may go out again: someone can take it, is on the way to SMTP with it,
\* or a sweep is about to offer it.
Takeable(e) ==
    \/ ~Owned(e) /\ status[e] \in Pending \cup {"PROCESSING"}
    \/ \E r \in Runs : pc[r] \in Owning \ {"record"} /\ email[r] = e
    \/ \E c \in Sweeps : e \in toResend[c]

\* Every acceptance but the first is paid for by a process that died, and one that
\* is still to come is paid for in advance.
DuplicateBound ==
    \A e \in Emails :
        /\ accepted[e] <= 1 + Cardinality(Dead)
        /\ Takeable(e) => accepted[e] <= Cardinality(Dead)
DuplicateInv == ReopenInv /\ DuplicateBound

\* A step that delivers nothing and makes nothing takeable keeps the bound.
LEMMA NothingTakeable ==
  ASSUME DuplicateBound, UNCHANGED <<accepted, alive>>,
         \A e \in Emails : Takeable(e)' => Takeable(e)
  PROVE  DuplicateBound'
BY DEF DuplicateBound, Dead

\* A run that is not past its acceptance can leave its row as it likes.
LEMMA OwnerTakes ==
  ASSUME TypeOK, DuplicateBound, UNCHANGED <<accepted, alive, toResend>>,
         NEW r \in Runs, pc[r] \in Owning \ {"record"}, UNCHANGED email,
         \A s \in Runs \ {r} : pc'[s] = pc[s],
         \A e \in Emails \ {email[r]} : status'[e] = status[e]
  PROVE  DuplicateBound'
<1>1. Takeable(email[r])
  BY DEF Takeable
<1>2. \A e \in Emails \ {email[r]} : Takeable(e)' => Takeable(e)
  BY DEF Takeable, Owned
<1>3. QED
  BY <1>1, <1>2, NothingTakeable

\* Every step keeps DuplicateInv.
LEMMA DuplicateStep ==
  ASSUME SafeResend, AcceptanceKnown, IsFiniteSet(Procs), DuplicateInv, [Next]_vars
  PROVE  DuplicateInv'
<1>1. ReopenInv /\ ReopenInv' /\ TypeOK /\ TypeOK' /\ DuplicateBound
  BY ReopenStep DEF DuplicateInv, ReopenInv
<1> SUFFICES DuplicateBound'
  BY <1>1 DEF DuplicateInv
<1>2. IsFiniteSet(Dead) /\ Cardinality(Dead) \in Nat
  BY FS_Subset, FS_CardinalityType DEF Dead
<1>3. CASE Calm
  <2>1. \A e \in Emails : Takeable(e)' => Takeable(e)
    BY <1>3 DEF Calm, Takeable, Owned
  <2>2. QED
    BY <1>1, <1>3, <2>1, NothingTakeable DEF Calm
<1>4. ASSUME NEW r \in Runs, Claim(r), status[email[r]] \in Pending PROVE DuplicateBound'
  <2>1. /\ email[r] \in Emails /\ UNCHANGED <<email, accepted, alive, toResend>>
        /\ \A s \in Runs \ {r} : pc'[s] = pc[s]
        /\ \A e \in Emails \ {email[r]} : status'[e] = status[e]
        /\ pc[r] \notin Owning
    BY <1>1, <1>4 DEF Claim, Claimable, GoTo, Owning, TypeOK
  <2>2. Takeable(email[r])
    BY <1>1, <1>4 DEF Takeable, ReopenInv, OwnedStatus, Owned, Pending
  <2>3. \A e \in Emails \ {email[r]} : Takeable(e)' => Takeable(e)
    BY <2>1 DEF Takeable, Owned
  <2>4. QED
    BY <1>1, <2>1, <2>2, <2>3, NothingTakeable
<1>5. ASSUME NEW r \in Runs, NEW outcome \in SmtpOutcomes, SendEmail(r, outcome)
      PROVE  DuplicateBound'
  <2>1. /\ pc[r] \in Owning \ {"record"} /\ email[r] \in Emails
        /\ UNCHANGED <<email, status, alive, toResend>>
        /\ \A s \in Runs \ {r} : pc'[s] = pc[s]
    BY <1>1, <1>5 DEF SendEmail, GoTo, Owning, TypeOK
  <2>2. CASE outcome = "accepted"
    <3>1. PICK e \in Emails : e = email[r]
      BY <2>1
    <3>2. /\ accepted' = [accepted EXCEPT ![e] = @ + 1]
          /\ pc' = [pc EXCEPT ![r] = "record"]
      BY <1>5, <2>2, <3>1 DEF SendEmail, GoTo
    <3>3. Takeable(e)
      BY <2>1, <3>1 DEF Takeable
    <3>4. ~Takeable(e)'
      <4>1. Owned(e) /\ Owned(e)'
        BY <1>1, <2>1, <3>1, <3>2 DEF Owned, Owning, TypeOK
      <4>2. \A s \in Runs : pc'[s] \in Owning /\ email[s] = e => pc'[s] = "record"
        BY <1>1, <2>1, <3>1, <3>2 DEF ReopenInv, OwnerUnique, TypeOK
      <4>3. \A c \in Sweeps : e \notin toResend[c]
        BY <1>1, <4>1 DEF ReopenInv, ResendIsClosed
      <4>4. QED
        BY <2>1, <4>1, <4>2, <4>3 DEF Takeable
    <3>5. \A x \in Emails \ {e} : accepted'[x] = accepted[x] /\ (Takeable(x)' => Takeable(x))
      BY <1>1, <2>1, <3>1, <3>2 DEF Takeable, Owned, TypeOK
    <3>6. accepted'[e] = accepted[e] + 1 /\ accepted[e] \in Nat
      BY <1>1, <3>1, <3>2 DEF TypeOK
    <3>7. accepted[e] <= Cardinality(Dead)
      BY <1>1, <3>3 DEF DuplicateBound
    <3>8. Dead' = Dead
      BY <2>1 DEF Dead
    <3>9. \A x \in Emails : /\ accepted'[x] <= 1 + Cardinality(Dead)
                            /\ Takeable(x)' => accepted'[x] <= Cardinality(Dead)
      BY <1>1, <1>2, <3>4, <3>5, <3>6, <3>7 DEF DuplicateBound
    <3>10. QED
      BY <3>8, <3>9 DEF DuplicateBound
  <2>3. CASE outcome # "accepted"
    <3>1. accepted' = accepted
      BY <1>1, <1>5, <2>3 DEF SendEmail, AcceptanceKnown, TypeOK
    <3>2. QED
      BY <1>1, <2>1, <3>1, OwnerTakes
  <2>4. QED
    BY <2>2, <2>3
<1>6. CASE \E r \in Runs : RecordSent(r)
  <2>1. PICK r \in Runs : RecordSent(r)
    BY <1>6
  <2>2. /\ pc[r] = "record" /\ pc[r] \in Owning /\ email[r] \in Emails
        /\ pc'[r] \notin Owning /\ \A s \in Runs \ {r} : pc'[s] = pc[s]
        /\ UNCHANGED <<email, accepted, alive, toResend>>
        /\ status' = [status EXCEPT ![email[r]] = "SENT"]
    BY <1>1, <2>1 DEF RecordSent, SetStatus, Return, Owning, TypeOK
  <2>3. ~Takeable(email[r])'
    <3>1. \A s \in Runs : pc'[s] \in Owning => email[s] # email[r]
      BY <1>1, <2>2 DEF ReopenInv, OwnerUnique
    <3>2. \A c \in Sweeps : email[r] \notin toResend[c]
      BY <1>1, <2>2 DEF ReopenInv, ResendIsClosed, Owned
    <3>3. status'[email[r]] = "SENT"
      BY <1>1, <2>2 DEF TypeOK
    <3>4. QED
      BY <2>2, <3>1, <3>2, <3>3 DEF Takeable, Pending
  <2>4. ASSUME NEW e \in Emails, e # email[r], Takeable(e)' PROVE Takeable(e)
    <3>1. status'[e] = status[e]
      BY <1>1, <2>2, <2>4 DEF TypeOK
    <3>2. \A s \in Runs : email[s] = e => pc'[s] = pc[s]
      BY <2>2, <2>4
    <3>3. QED
      BY <2>2, <2>4, <3>1, <3>2 DEF Takeable, Owned
  <2>5. ~Takeable(email[r])' => (\A e \in Emails : e = email[r] => ~Takeable(e)')
    BY <2>2 DEF Takeable, Owned
  <2>6. QED
    BY <1>1, <2>2, <2>3, <2>4, <2>5, NothingTakeable
<1>7. ASSUME NEW r \in Runs, MarkRejected(r) \/ HandleError(r) \/ DeferExhausted(r) \/ Release(r)
      PROVE  DuplicateBound'
  <2>1. /\ pc[r] \in Owning \ {"record"} /\ UNCHANGED <<email, accepted, alive, toResend>>
        /\ \A s \in Runs \ {r} : pc'[s] = pc[s]
    BY <1>1, <1>7 DEF MarkRejected, HandleError, DeferExhausted, Release, GoTo, Return, Owning,
       TypeOK
  <2>2. \A e \in Emails \ {email[r]} : status'[e] = status[e]
    BY <1>1, <1>7 DEF MarkRejected, HandleError, DeferExhausted, Release, SetStatus, TypeOK
  <2>3. QED
    BY <1>1, <2>1, <2>2, OwnerTakes
<1>8. ASSUME NEW r \in Runs, StepThrows(r) PROVE DuplicateBound'
  <2>1. /\ pc[r] # "record" /\ UNCHANGED <<email, status, accepted, alive, toResend>>
        /\ \A s \in Runs \ {r} : pc'[s] = pc[s]
        /\ pc[r] \in Owning \/ pc'[r] \notin Owning
    BY <1>1, <1>8 DEF StepThrows, GoTo, Return, Owning, TypeOK, AcceptanceKnown
  <2>2. CASE pc[r] \in Owning
    BY <1>1, <2>1, <2>2, OwnerTakes
  <2>3. CASE pc[r] \notin Owning
    <3>1. \A e \in Emails : Takeable(e)' => Takeable(e)
      BY <2>1, <2>3 DEF Takeable, Owned
    <3>2. QED
      BY <1>1, <2>1, <3>1, NothingTakeable
  <2>4. QED
    BY <2>2, <2>3
<1>9. ASSUME NEW e \in Emails, CancelWrite(e) \/ LockAges(e) PROVE DuplicateBound'
  <2>1. UNCHANGED <<pc, email, accepted, alive, toResend>>
    BY <1>9 DEF CancelWrite, LockAges
  <2>2. status' = status \/ status' = [status EXCEPT ![e] = "CANCELLED"]
    BY <1>9 DEF CancelWrite, LockAges, SetStatus
  <2>3. \A x \in Emails : Takeable(x)' => Takeable(x)
    BY <1>1, <2>1, <2>2 DEF Takeable, Owned, TypeOK, Pending
  <2>4. QED
    BY <1>1, <2>1, <2>3, NothingTakeable
<1>10. ASSUME NEW c \in Sweeps, FindAbandoned(c) PROVE DuplicateBound'
  <2>1. UNCHANGED <<pc, email, status, accepted, alive>>
    BY <1>10 DEF FindAbandoned
  <2>2. \A e \in Emails : Takeable(e)' => Takeable(e)
    BY <1>1, <1>10, <2>1, Selecting DEF Takeable, Owned
  <2>3. QED
    BY <1>1, <2>1, <2>2, NothingTakeable
<1>11. ASSUME NEW c \in Sweeps, NEW e \in Emails, ResendAbandoned(c, e) PROVE DuplicateBound'
  <2>1. /\ UNCHANGED <<pc, email, accepted, alive>>
        /\ status' = [status EXCEPT ![e] = "SCHEDULED"]
        /\ toResend' = [toResend EXCEPT ![c] = @ \ {e}]
    BY <1>11 DEF ResendAbandoned, SetStatus
  <2>2. Takeable(e)
    BY <1>11 DEF ResendAbandoned, Takeable
  <2>3. \A x \in Emails \ {e} : Takeable(x)' => Takeable(x)
    BY <1>1, <2>1 DEF Takeable, Owned, TypeOK
  <2>4. QED
    BY <1>1, <2>1, <2>2, <2>3, NothingTakeable
<1>12. ASSUME NEW c \in Sweeps, NEW e \in Emails, FailAbandoned(c, e) PROVE DuplicateBound'
  <2>1. /\ UNCHANGED <<pc, email, accepted, alive, toResend>>
        /\ status' = [status EXCEPT ![e] = "FAILED"]
    BY <1>12 DEF FailAbandoned, SetStatus
  <2>2. \A x \in Emails : Takeable(x)' => Takeable(x)
    BY <1>1, <2>1 DEF Takeable, Owned, TypeOK, Pending
  <2>3. QED
    BY <1>1, <2>1, <2>2, NothingTakeable
<1>13. ASSUME NEW p \in Procs, Crash(p) PROVE DuplicateBound'
  <2>1. p \notin Dead /\ Dead' = Dead \cup {p}
    BY <1>1, <1>13 DEF Crash, Dead, TypeOK
  <2>2. Cardinality(Dead') = Cardinality(Dead) + 1
    BY <1>2, <2>1, FS_AddElement
  <2>3. accepted' = accepted
    BY <1>13 DEF Crash
  <2>4. QED
    BY <1>1, <1>2, <2>2, <2>3 DEF DuplicateBound, TypeOK
<1>14. QED
  BY <1>1, <1>3, <1>4, <1>5, <1>6, <1>7, <1>8, <1>9, <1>10, <1>11, <1>12, <1>13, StepKinds
     DEF Kinds, RowStep, Writes

\* Resending abandoned rows costs at most one duplicate of an email per process
\* that died, for every number of processes and sweeps' worth of crashes, as long
\* as an acceptance is never lost (a failed transaction after the handoff, or a
\* lost reply, duplicates without a crash).
THEOREM DuplicatesCostACrash ==
    SafeResend /\ AcceptanceKnown /\ IsFiniteSet(Procs) => (Spec => []DuplicatesNeedACrash)
<1> SUFFICES ASSUME SafeResend, AcceptanceKnown, IsFiniteSet(Procs)
             PROVE  Spec => []DuplicatesNeedACrash
  OBVIOUS
<1>1. Init => DuplicateInv
  <2> SUFFICES ASSUME Init PROVE DuplicateBound
    BY ReopenInit DEF DuplicateInv
  <2>1. Dead = {}
    BY DEF Init, Dead
  <2>2. QED
    BY <2>1, FS_EmptySet DEF Init, DuplicateBound
<1>2. DuplicateInv /\ [Next]_vars => DuplicateInv'
  BY DuplicateStep
<1>3. DuplicateInv => DuplicatesNeedACrash
  BY DEF DuplicateInv, DuplicateBound, DuplicatesNeedACrash, Dead
<1>4. QED
  BY <1>1, <1>2, <1>3, PTL DEF Spec
------------------------------------------------------------------------------
(* What the attempt counter counts. *)

\* No claim is left behind before its handoff: no process dies, and neither the
\* reservation nor the release of a deferral fails.
ClaimsComplete == Mortal = {} /\ {"reserve", "defer"} \cap StoreFaults = {}

\* A PROCESSING row names the process of the run that owns it.
LockIsOwners ==
    \A r \in Runs : pc[r] \in Owning /\ status[email[r]] = "PROCESSING" =>
        lockedBy[email[r]] = HostOf[r]

\* The balance of an owned row, and of one that nobody owns and nobody closed unsent.
OwnedAccounted ==
    \A r \in Runs : pc[r] \in Owning =>
        attempts[email[r]] = handed[email[r]] + (IF pc[r] \in Unsent THEN 1 ELSE 0)
\* Rows without an owner that may still be sent, or were.
Accountable(e) ==
    /\ ~Owned(e)
    /\ status[e] \notin {"FAILED", "CANCELLED"} \/ \E c \in Sweeps : e \in toResend[c]
UnownedAccounted == \A e \in Emails : Accountable(e) => attempts[e] = handed[e]
Accounts == LockIsOwners /\ OwnedAccounted /\ UnownedAccounted
AccountInv == ReopenInv /\ Accounts

\* A step that leaves the counters, gives no run a claim, moves no owner across the
\* handoff and makes no row accountable keeps the balance.
LEMMA NothingAccounted ==
  ASSUME Accounts, UNCHANGED <<attempts, handed>>,
         \A r \in Runs : pc'[r] \in Owning =>
            /\ pc[r] \in Owning /\ email'[r] = email[r]
            /\ pc'[r] \in Unsent <=> pc[r] \in Unsent
            /\ status'[email[r]] = "PROCESSING" =>
                  status[email[r]] = "PROCESSING" /\ lockedBy'[email[r]] = lockedBy[email[r]],
         \A e \in Emails : Accountable(e)' => Accountable(e) \/ attempts[e] = handed[e]
  PROVE  Accounts'
<1>1. LockIsOwners'
  BY DEF Accounts, LockIsOwners
<1>2. OwnedAccounted'
  BY DEF Accounts, OwnedAccounted
<1>3. UnownedAccounted'
  BY DEF Accounts, UnownedAccounted
<1>4. QED
  BY <1>1, <1>2, <1>3 DEF Accounts

\* An owner that returns leaves a row that is balanced, or closed unsent.
LEMMA OwnerBalances ==
  ASSUME ReopenInv, Accounts, NEW r \in Runs, NEW e \in Emails, email[r] = e, pc[r] \in Owning,
         pc'[r] \notin Owning, UNCHANGED <<email, toResend, handed>>,
         \A s \in Runs \ {r} : pc'[s] = pc[s],
         \A x \in Emails \ {e} : /\ status'[x] = status[x] /\ attempts'[x] = attempts[x]
                                /\ lockedBy'[x] = lockedBy[x],
         status'[e] \in {"FAILED", "CANCELLED"} \/ attempts'[e] = handed[e]
  PROVE  Accounts'
<1>1. \A s \in Runs : pc'[s] \in Owning =>
          s # r /\ pc[s] \in Owning /\ email[s] \in Emails \ {e}
  BY DEF ReopenInv, OwnerUnique, TypeOK, Owning
<1>2. LockIsOwners'
  BY <1>1 DEF Accounts, LockIsOwners
<1>3. OwnedAccounted'
  BY <1>1 DEF Accounts, OwnedAccounted
<1>4. \A c \in Sweeps : e \notin toResend[c]
  BY DEF ReopenInv, ResendIsClosed, Owned
<1>5. UnownedAccounted'
  <2>1. ASSUME NEW x \in Emails, x # e, Accountable(x)' PROVE attempts'[x] = handed'[x]
    <3>1. \A s \in Runs : email[s] = x => pc'[s] = pc[s]
      BY <2>1
    <3>2. Accountable(x)
      BY <2>1, <3>1 DEF Accountable, Owned
    <3>3. QED
      BY <2>1, <3>2 DEF Accounts, UnownedAccounted
  <2>2. Accountable(e)' => attempts'[e] = handed'[e]
    BY <1>4 DEF Accountable
  <2>3. QED
    BY <2>1, <2>2 DEF UnownedAccounted
<1>6. QED
  BY <1>2, <1>3, <1>5 DEF Accounts

\* Every step keeps AccountInv.
LEMMA AccountStep ==
  ASSUME SafeResend, ClaimsComplete, AccountInv, [Next]_vars PROVE AccountInv'
<1>1. ReopenInv /\ ReopenInv' /\ TypeOK /\ TypeOK' /\ Accounts
  BY ReopenStep DEF AccountInv, ReopenInv
<1> SUFFICES Accounts'
  BY <1>1 DEF AccountInv
<1>2. CASE Calm
  <2>1. \A e \in Emails : Accountable(e)' => Accountable(e)
    BY <1>2 DEF Calm, Accountable, Owned
  <2>2. QED
    BY <1>1, <1>2, <2>1, NothingAccounted DEF Calm
<1>3. ASSUME NEW r \in Runs, Claim(r), status[email[r]] \in Pending PROVE Accounts'
  <2>1. PICK e \in Emails : e = email[r]
    BY <1>1, <1>3 DEF Claim, TypeOK
  <2>2. /\ pc' = [pc EXCEPT ![r] = "reserve"] /\ pc[r] = "claim"
        /\ attempts' = [attempts EXCEPT ![e] = @ + 1]
        /\ status' = [status EXCEPT ![e] = "PROCESSING"]
        /\ lockedBy' = [lockedBy EXCEPT ![e] = HostOf[r]]
        /\ UNCHANGED <<email, toResend, handed>>
    BY <1>3, <2>1 DEF Claim, Claimable, GoTo
  <2>3. ~Owned(e)
    BY <1>1, <1>3, <2>1 DEF ReopenInv, OwnedStatus, Owned, Pending
  <2>4. attempts[e] = handed[e]
    BY <1>1, <1>3, <2>1, <2>3 DEF Accounts, UnownedAccounted, Accountable, Pending
  <2>5. \A s \in Runs : pc'[s] \in Owning =>
           s = r \/ (pc[s] \in Owning /\ pc'[s] = pc[s] /\ email[s] \in Emails \ {e})
    BY <1>1, <2>2, <2>3 DEF Owned, TypeOK, Owning
  <2>6. /\ status'[e] = "PROCESSING" /\ attempts'[e] = attempts[e] + 1
        /\ lockedBy'[e] = HostOf[r] /\ pc'[r] = "reserve"
        /\ \A x \in Emails \ {e} : /\ status'[x] = status[x] /\ attempts'[x] = attempts[x]
                                 /\ lockedBy'[x] = lockedBy[x]
    BY <1>1, <2>2 DEF TypeOK
  <2>7. LockIsOwners'
    BY <1>1, <2>1, <2>2, <2>5, <2>6 DEF Accounts, LockIsOwners
  <2>8. OwnedAccounted'
    BY <1>1, <2>1, <2>2, <2>4, <2>5, <2>6 DEF Accounts, OwnedAccounted, Unsent
  <2>9. UnownedAccounted'
    <3>1. ASSUME NEW x \in Emails, Accountable(x)' PROVE x # e /\ Accountable(x)
      <4>1. Owned(e)'
        BY <2>1, <2>2, <2>6 DEF Owned, Owning
      <4>2. x # e
        BY <3>1, <4>1 DEF Accountable
      <4>3. ~Owned(x)
        BY <1>1, <2>2, <3>1 DEF Accountable, Owned, Owning, TypeOK
      <4>4. QED
        BY <2>2, <2>6, <3>1, <4>2, <4>3 DEF Accountable
    <3>2. QED
      BY <1>1, <2>2, <2>6, <3>1 DEF Accounts, UnownedAccounted
  <2>10. QED
    BY <2>7, <2>8, <2>9 DEF Accounts
<1>4. ASSUME NEW r \in Runs, NEW outcome \in SmtpOutcomes, SendEmail(r, outcome)
      PROVE  Accounts'
  <2>1. PICK e \in Emails : e = email[r]
    BY <1>1, <1>4 DEF SendEmail, TypeOK
  <2>2. PICK step \in Owning \ Unsent : pc' = [pc EXCEPT ![r] = step]
    BY <1>4 DEF SendEmail, GoTo, Owning, Unsent
  <2>3. /\ pc[r] \in Unsent /\ pc[r] \in Owning
        /\ handed' = [handed EXCEPT ![e] = @ + 1]
        /\ UNCHANGED <<email, status, attempts, lockedBy, toResend>>
    BY <1>4, <2>1 DEF SendEmail, GoTo, Unsent, Owning
  <2>4. attempts[e] = handed[e] + 1
    BY <1>1, <2>1, <2>3 DEF Accounts, OwnedAccounted
  <2>5. /\ pc'[r] = step /\ handed'[e] = handed[e] + 1
        /\ \A x \in Emails \ {e} : handed'[x] = handed[x]
        /\ \A s \in Runs : pc'[s] \in Owning =>
              s = r \/ (pc[s] \in Owning /\ pc'[s] = pc[s] /\ email[s] \in Emails \ {e})
    BY <1>1, <2>1, <2>2, <2>3 DEF TypeOK, ReopenInv, OwnerUnique, Owning
  <2>6. LockIsOwners'
    BY <1>1, <2>3, <2>5 DEF Accounts, LockIsOwners
  <2>7. OwnedAccounted'
    <3>1. SUFFICES ASSUME NEW s \in Runs, pc'[s] \in Owning
                   PROVE  attempts[email[s]] =
                             handed'[email[s]] + (IF pc'[s] \in Unsent THEN 1 ELSE 0)
      BY <2>3 DEF OwnedAccounted
    <3>2. CASE s = r
      <4>1. pc'[s] \notin Unsent /\ email[s] = e
        BY <2>1, <2>5, <3>2
      <4>2. handed'[e] + 0 = handed[e] + 1
        BY <1>1, <2>5 DEF TypeOK
      <4>3. QED
        BY <2>4, <4>1, <4>2
    <3>3. CASE s # r
      <4>1. pc[s] \in Owning /\ pc'[s] = pc[s] /\ handed'[email[s]] = handed[email[s]]
        BY <2>5, <3>1, <3>3
      <4>2. QED
        BY <1>1, <4>1 DEF Accounts, OwnedAccounted
    <3>4. QED
      BY <3>2, <3>3
  <2>8. UnownedAccounted'
    <3>1. ASSUME NEW x \in Emails, Accountable(x)' PROVE x # e /\ Accountable(x)
      <4>1. \A s \in Runs : pc'[s] \in Owning <=> pc[s] \in Owning
        BY <1>1, <2>2, <2>3 DEF TypeOK
      <4>2. Owned(e)
        BY <2>1, <2>3 DEF Owned
      <4>3. QED
        BY <2>3, <3>1, <4>1, <4>2 DEF Accountable, Owned
    <3>2. QED
      BY <1>1, <2>3, <2>5, <3>1 DEF Accounts, UnownedAccounted
  <2>9. QED
    BY <2>6, <2>7, <2>8 DEF Accounts
<1>5. ASSUME NEW r \in Runs, Writes(r) \/ Release(r) PROVE Accounts'
  <2>1. PICK e \in Emails : e = email[r]
    BY <1>1, <1>5 DEF Writes, RecordSent, MarkRejected, HandleError, DeferExhausted, Release, TypeOK
  <2>2. /\ pc[r] \in Owning /\ pc'[r] \notin Owning /\ UNCHANGED <<email, toResend, handed>>
        /\ \A s \in Runs \ {r} : pc'[s] = pc[s]
    BY <1>1, <1>5 DEF Writes, RecordSent, MarkRejected, HandleError, DeferExhausted, Release,
       GoTo, Return, Owning, TypeOK
  <2>3. \A x \in Emails \ {e} : /\ status'[x] = status[x] /\ attempts'[x] = attempts[x]
                               /\ lockedBy'[x] = lockedBy[x]
    BY <1>1, <1>5, <2>1 DEF Writes, RecordSent, MarkRejected, HandleError, DeferExhausted, Release,
       SetStatus, TypeOK
  <2>4. status'[e] \in {"FAILED", "CANCELLED"} \/ attempts'[e] = handed[e]
    <3>1. CASE RecordSent(r) \/ MarkRejected(r) \/ HandleError(r)
      <4>1. pc[r] \in {"record", "reject", "catch"} /\ attempts' = attempts
        BY <3>1 DEF RecordSent, MarkRejected, HandleError
      <4>2. attempts[e] = handed[e] + 0
        BY <1>1, <2>1, <2>2, <4>1 DEF Accounts, OwnedAccounted, Unsent
      <4>3. QED
        BY <1>1, <2>1, <4>1, <4>2 DEF TypeOK
    <3>2. CASE DeferExhausted(r)
      BY <1>1, <2>1, <3>2 DEF DeferExhausted, SetStatus, TypeOK
    <3>3. CASE Release(r)
      <4>1. attempts[e] = handed[e] + 1
        BY <1>1, <2>1, <2>2, <3>3 DEF Release, Accounts, OwnedAccounted, Unsent
      <4>2. CASE status[e] = "PROCESSING"
        <5>1. attempts' = [attempts EXCEPT ![e] = @ - 1]
          BY <1>1, <2>1, <2>2, <3>3, <4>2 DEF Release, UnclaimedAttempts, Accounts, LockIsOwners
        <5>2. QED
          BY <1>1, <4>1, <5>1 DEF TypeOK
      <4>3. CASE status[e] # "PROCESSING"
        <5>1. status' = status
          BY <2>1, <3>3, <4>3 DEF Release
        <5>2. QED
          BY <1>1, <2>1, <2>2, <4>3, <5>1 DEF ReopenInv, OwnedStatus
      <4>4. QED
        BY <4>2, <4>3
    <3>4. QED
      BY <1>5, <3>1, <3>2, <3>3 DEF Writes
  <2>5. QED
    BY <1>1, <2>1, <2>2, <2>3, <2>4, OwnerBalances
<1>6. ASSUME NEW r \in Runs, StepThrows(r) PROVE Accounts'
  <2>1. /\ UNCHANGED <<email, status, attempts, lockedBy, handed, toResend>>
        /\ \A s \in Runs \ {r} : pc'[s] = pc[s]
        /\ pc[r] \notin Unsent
    BY <1>1, <1>6, FaultAssumption
       DEF StepThrows, GoTo, Return, TypeOK, ClaimsComplete, Unsent
  <2>2. CASE pc'[r] \in Owning \/ pc[r] \notin Owning
    <3>1. /\ pc'[r] \in Owning <=> pc[r] \in Owning
          /\ pc[r] \in Owning => pc'[r] \notin Unsent
      BY <1>1, <1>6, <2>1, <2>2 DEF StepThrows, GoTo, Return, Owning, Unsent, TypeOK
    <3>2. \A s \in Runs : pc'[s] \in Owning <=> pc[s] \in Owning
      BY <2>1, <3>1
    <3>3. \A s \in Runs : pc[s] \in Owning => (pc'[s] \in Unsent <=> pc[s] \in Unsent)
      BY <2>1, <3>1
    <3>4. \A e \in Emails : Owned(e)' <=> Owned(e)
      BY <2>1, <3>2 DEF Owned
    <3>5. \A e \in Emails : Accountable(e)' => Accountable(e)
      BY <2>1, <3>4 DEF Accountable
    <3>6. QED
      BY <1>1, <2>1, <3>2, <3>3, <3>5, NothingAccounted
  <2>3. CASE pc'[r] \notin Owning /\ pc[r] \in Owning
    <3>1. PICK e \in Emails : e = email[r]
      BY <1>1, <2>3 DEF TypeOK, Owning
    <3>2. attempts[e] = handed[e] + 0
      BY <1>1, <2>1, <2>3, <3>1 DEF Accounts, OwnedAccounted
    <3>3. attempts'[e] = handed[e]
      BY <1>1, <2>1, <3>2 DEF TypeOK
    <3>4. QED
      BY <1>1, <2>1, <2>3, <3>1, <3>3, OwnerBalances
  <2>4. QED
    BY <2>2, <2>3
<1>7. ASSUME NEW e \in Emails, CancelWrite(e) PROVE Accounts'
  <2>1. /\ status' = [status EXCEPT ![e] = "CANCELLED"]
        /\ lockedBy' = [lockedBy EXCEPT ![e] = None]
        /\ UNCHANGED <<pc, email, attempts, handed, toResend>>
    BY <1>7 DEF CancelWrite, SetStatus
  <2>2. \A x \in Emails : Accountable(x)' => Accountable(x)
    BY <1>1, <2>1 DEF Accountable, Owned, TypeOK
  <2>3. \A x \in Emails : status'[x] = "PROCESSING" =>
            status[x] = "PROCESSING" /\ lockedBy'[x] = lockedBy[x]
    BY <1>1, <2>1 DEF TypeOK
  <2>4. \A r \in Runs : pc[r] \in Owning => email[r] \in Emails
    BY <1>1 DEF TypeOK, Owning
  <2>5. QED
    BY <1>1, <2>1, <2>2, <2>3, <2>4, NothingAccounted
<1>8. ASSUME NEW e \in Emails, LockAges(e) PROVE Accounts'
  <2>1. UNCHANGED <<pc, email, status, attempts, lockedBy, handed, toResend>>
    BY <1>8 DEF LockAges
  <2>2. \A x \in Emails : Accountable(x)' => Accountable(x)
    BY <2>1 DEF Accountable, Owned
  <2>3. QED
    BY <1>1, <2>1, <2>2, NothingAccounted
<1>9. ASSUME NEW c \in Sweeps, FindAbandoned(c) PROVE Accounts'
  <2>1. UNCHANGED <<pc, email, status, attempts, lockedBy, handed>>
    BY <1>9 DEF FindAbandoned
  <2>2. \A x \in Emails : Accountable(x)' => Accountable(x)
    BY <1>1, <1>9, <2>1, Selecting DEF Accountable, Owned
  <2>3. QED
    BY <1>1, <2>1, <2>2, NothingAccounted
<1>10. ASSUME NEW c \in Sweeps, NEW e \in Emails, ResendAbandoned(c, e) PROVE Accounts'
  <2>1. /\ status' = [status EXCEPT ![e] = "SCHEDULED"]
        /\ lockedBy' = [lockedBy EXCEPT ![e] = None]
        /\ UNCHANGED <<pc, email, attempts, handed>>
        /\ toResend' = [toResend EXCEPT ![c] = @ \ {e}]
    BY <1>10 DEF ResendAbandoned, SetStatus
  <2>2. e \in toResend[c] /\ ~Owned(e)
    BY <1>1, <1>10, Resending DEF Closed
  <2>3. \A x \in Emails : Accountable(x)' => Accountable(x)
    BY <1>1, <2>1, <2>2 DEF Accountable, Owned, TypeOK
  <2>4. \A r \in Runs : pc[r] \in Owning => email[r] \in Emails \ {e}
    BY <1>1, <2>2 DEF Owned, TypeOK, Owning
  <2>5. QED
    BY <1>1, <2>1, <2>3, <2>4, NothingAccounted DEF TypeOK
<1>11. ASSUME NEW c \in Sweeps, NEW e \in Emails, FailAbandoned(c, e) PROVE Accounts'
  <2>1. /\ status' = [status EXCEPT ![e] = "FAILED"]
        /\ lockedBy' = [lockedBy EXCEPT ![e] = None]
        /\ UNCHANGED <<pc, email, attempts, handed, toResend>>
    BY <1>11 DEF FailAbandoned, SetStatus
  <2>2. \A x \in Emails : Accountable(x)' => Accountable(x)
    BY <1>1, <2>1 DEF Accountable, Owned, TypeOK
  <2>3. \A x \in Emails : status'[x] = "PROCESSING" =>
            status[x] = "PROCESSING" /\ lockedBy'[x] = lockedBy[x]
    BY <1>1, <2>1 DEF TypeOK
  <2>4. \A r \in Runs : pc[r] \in Owning => email[r] \in Emails
    BY <1>1 DEF TypeOK, Owning
  <2>5. QED
    BY <1>1, <2>1, <2>2, <2>3, <2>4, NothingAccounted
<1>12. \A p \in Procs : ~Crash(p)
  BY DEF Crash, ClaimsComplete
<1>13. QED
  BY <1>1, <1>2, <1>3, <1>4, <1>5, <1>6, <1>7, <1>8, <1>9, <1>10, <1>11, <1>12, StepKinds
     DEF Kinds, RowStep

\* Until a row is closed unsent its attempt counter is the number of its SMTP
\* handoffs, plus one for a claim that has not got there: deferrals, redeliveries,
\* lost locks, resends and lost cancels cost no attempt, and no handoff is free.
THEOREM AttemptsAreHandoffs ==
    SafeResend /\ ClaimsComplete => (Spec => []AttemptsAccounted)
<1> SUFFICES ASSUME SafeResend, ClaimsComplete PROVE Spec => []AttemptsAccounted
  OBVIOUS
<1>1. Init => AccountInv
  BY ReopenInit DEF Init, AccountInv, Accounts, LockIsOwners, OwnedAccounted, UnownedAccounted,
     Owning
<1>2. AccountInv /\ [Next]_vars => AccountInv'
  BY AccountStep
<1>3. AccountInv => AttemptsAccounted
  <2> DEFINE onTheWay(e) == {r \in Owners(e) : pc[r] \in {"reserve", "send", "defer"}}
  <2> SUFFICES ASSUME AccountInv, NEW e \in Emails, status[e] \notin {"FAILED", "CANCELLED"}
               PROVE  attempts[e] = handed[e] + Cardinality(onTheWay(e))
    BY DEF AttemptsAccounted
  <2>1. TypeOK /\ handed[e] \in Nat /\ Accounts /\ OwnerUnique
    BY DEF AccountInv, ReopenInv, TypeOK
  <2>2. ASSUME NEW r \in onTheWay(e) PROVE attempts[e] = handed[e] + Cardinality(onTheWay(e))
    <3>1. onTheWay(e) = {r}
      BY <2>1, <2>2 DEF Owners, OwnerUnique
    <3>2. Cardinality({r}) = 1
      BY FS_Singleton
    <3>3. attempts[e] = handed[e] + 1
      BY <2>1, <2>2 DEF Owners, Accounts, OwnedAccounted, Unsent
    <3>4. QED
      BY <3>1, <3>2, <3>3
  <2>3. CASE onTheWay(e) = {}
    <3>1. Cardinality(onTheWay(e)) = 0
      BY <2>3, FS_EmptySet
    <3>2. attempts[e] = handed[e]
      <4>1. CASE Owned(e)
        <5>1. PICK r \in Runs : pc[r] \in Owning /\ email[r] = e
          BY <4>1 DEF Owned
        <5>2. pc[r] \notin Unsent
          BY <2>3, <5>1 DEF Owners, Unsent
        <5>3. QED
          BY <2>1, <5>1, <5>2 DEF Accounts, OwnedAccounted
      <4>2. CASE ~Owned(e)
        BY <2>1, <4>2 DEF Accounts, UnownedAccounted, Accountable
      <4>3. QED
        BY <4>1, <4>2
    <3>3. QED
      BY <2>1, <3>1, <3>2
  <2>4. QED
    BY <2>2, <2>3
<1>4. QED
  BY <1>1, <1>2, <1>3, PTL DEF Spec
------------------------------------------------------------------------------
(* The budgets of a row. *)

\* BullMQ takes a job only from a run that is dead.  The number of runs is finite.
LocksHold == LiveStalls = FALSE /\ IsFiniteSet(Runs)

\* The runs inside processEmail for e, and those whose job lock is gone.
InJob(e) == {r \in Runs : email[r] = e /\ pc[r] \notin Acks}
Orphans(e) == {r \in InJob(e) : jobOwner[e] # r}

JobLocked == \A e \in Emails : jobState[e] # "active" => jobOwner[e] = None
\* A loss of Redis orphans at most one more run of an email.
OrphansBounded == \A e \in Emails : Cardinality(Orphans(e)) <= flushes
JobInv == TypeOK /\ JobLocked /\ OrphansBounded

\* Subsets of Runs are finite, and a part of one is no larger.
LEMMA RunSets ==
  ASSUME LocksHold, NEW S, NEW T, S \subseteq Runs, T \subseteq S
  PROVE  /\ IsFiniteSet(S) /\ IsFiniteSet(T)
         /\ Cardinality(S) \in Nat /\ Cardinality(T) \in Nat
         /\ Cardinality(T) <= Cardinality(S)
<1>1. IsFiniteSet(S)
  BY FS_Subset DEF LocksHold
<1>2. IsFiniteSet(T) /\ Cardinality(T) <= Cardinality(S)
  BY <1>1, FS_Subset
<1>3. QED
  BY <1>1, <1>2, FS_CardinalityType

\* At most one run per loss of Redis works on an email next to the job's owner.
LEMMA InJobBounded ==
  ASSUME LocksHold, JobInv, NEW e \in Emails
  PROVE  IsFiniteSet(InJob(e)) /\ Cardinality(InJob(e)) <= flushes + 1
<1>1. InJob(e) \subseteq Runs /\ Orphans(e) \subseteq InJob(e)
  BY DEF InJob, Orphans
<1>2. IsFiniteSet(InJob(e)) /\ IsFiniteSet(Orphans(e)) /\ Cardinality(Orphans(e)) \in Nat
  BY <1>1, RunSets
<1>3. Cardinality(Orphans(e)) <= flushes /\ flushes \in Nat
  BY BudgetAssumption DEF JobInv, OrphansBounded, TypeOK
<1>4. CASE InJob(e) = Orphans(e)
  BY <1>2, <1>3, <1>4
<1>5. CASE InJob(e) # Orphans(e)
  <2>1. InJob(e) = Orphans(e) \cup {jobOwner[e]} /\ jobOwner[e] \notin Orphans(e)
    BY <1>1, <1>5 DEF InJob, Orphans
  <2>2. Cardinality(InJob(e)) = Cardinality(Orphans(e)) + 1
    BY <1>2, <2>1, FS_AddElement
  <2>3. QED
    BY <1>2, <1>3, <2>2
<1>6. QED
  BY <1>4, <1>5

\* A step that orphans nobody keeps the bound.
LEMMA NobodyOrphaned ==
  ASSUME LocksHold, OrphansBounded, flushes' = flushes, flushes \in Nat,
         \A e \in Emails : Orphans(e)' \subseteq Orphans(e)
  PROVE  OrphansBounded'
<1> SUFFICES ASSUME NEW e \in Emails PROVE Cardinality(Orphans(e)') <= flushes
  BY DEF OrphansBounded
<1>1. Orphans(e) \subseteq Runs
  BY DEF Orphans, InJob
<1>2. Cardinality(Orphans(e)') <= Cardinality(Orphans(e))
  BY <1>1, RunSets
<1>3. Cardinality(Orphans(e)') \in Nat /\ Cardinality(Orphans(e)) \in Nat
  BY <1>1, RunSets
<1>4. QED
  BY <1>2, <1>3 DEF OrphansBounded

\* Every step keeps JobInv.
LEMMA JobInvStep ==
  ASSUME LocksHold, JobInv, [Next]_vars PROVE JobInv'
<1>1. TypeOK /\ TypeOK' /\ JobLocked /\ OrphansBounded /\ flushes \in Nat
  BY TypingStep, BudgetAssumption DEF JobInv, TypeOK
<1> SUFFICES JobLocked' /\ OrphansBounded'
  BY <1>1 DEF JobInv
<1>2. ASSUME NEW r \in Runs, RunStep(r) PROVE JobLocked' /\ OrphansBounded'
  <2>1. CASE MoveToDelayed(r) \/ Ack(r)
    <3>1. /\ \A s \in Runs \ {r} : pc'[s] = pc[s] /\ email'[s] = email[s]
          /\ pc'[r] \in Acks \/ email'[r] = None
          /\ flushes' = flushes
      BY <1>1, <2>1 DEF MoveToDelayed, Ack, Return, Acks, TypeOK
    <3>2. \A e \in Emails : jobOwner'[e] = jobOwner[e] \/ (jobOwner[e] = r /\ jobOwner'[e] = None)
      BY <1>1, <2>1 DEF MoveToDelayed, Ack, TypeOK
    <3>3. \A e \in Emails : jobState'[e] # "active" => jobState[e] # "active" \/ jobOwner'[e] = None
      BY <1>1, <2>1 DEF MoveToDelayed, Ack, TypeOK
    <3>4. \A e \in Emails : Orphans(e)' \subseteq Orphans(e)
      BY <3>1, <3>2, ActorAssumption DEF Orphans, InJob
    <3>5. QED
      BY <1>1, <3>1, <3>2, <3>3, <3>4, NobodyOrphaned DEF JobLocked
  <2>2. CASE ~(MoveToDelayed(r) \/ Ack(r))
    <3>1. UNCHANGED <<jobVars, email, flushes>>
      BY <1>2, <2>2 DEF RunStep, Load, Claim, Reserve, SendEmail, RecordSent, MarkRejected,
         HandleError, DeferExhausted, Release, CountReschedule, StepThrows, GoTo, Return
    <3>2. \A s \in Runs \ {r} : pc'[s] = pc[s]
      BY <1>1, <1>2, <2>2 DEF RunStep, Load, Claim, Reserve, SendEmail, RecordSent, MarkRejected,
         HandleError, DeferExhausted, Release, CountReschedule, StepThrows, GoTo, Return, TypeOK
    <3>3. pc[r] \notin Acks
      BY <1>2, <2>2, FaultAssumption DEF RunStep, Load, Claim, Reserve, SendEmail, RecordSent,
         MarkRejected, HandleError, DeferExhausted, Release, CountReschedule, StepThrows, Acks
    <3>4. \A e \in Emails : Orphans(e)' \subseteq Orphans(e)
      BY <3>1, <3>2, <3>3 DEF Orphans, InJob
    <3>5. QED
      BY <1>1, <3>1, <3>4, NobodyOrphaned DEF JobLocked
  <2>3. QED
    BY <2>1, <2>2
<1>3. ASSUME NEW r \in Runs, NEW e \in Emails, Fetch(r, e) PROVE JobLocked' /\ OrphansBounded'
  <2>1. /\ jobState[e] = "queued" /\ jobState' = [jobState EXCEPT ![e] = "active"]
        /\ jobOwner' = [jobOwner EXCEPT ![e] = r] /\ flushes' = flushes
        /\ email' = [email EXCEPT ![r] = e]
        /\ \A s \in Runs \ {r} : pc'[s] = pc[s]
    BY <1>1, <1>3 DEF Fetch, TypeOK
  <2>2. jobOwner[e] = None
    BY <1>1, <2>1 DEF JobLocked
  <2>3. ASSUME NEW x \in Emails PROVE Orphans(x)' \subseteq Orphans(x)
    <3>1. SUFFICES ASSUME NEW s \in Orphans(x)' PROVE s \in Orphans(x)
      OBVIOUS
    <3>2. s \in Runs /\ email'[s] = x /\ pc'[s] \notin Acks /\ jobOwner'[x] # s
      BY <3>1 DEF Orphans, InJob
    <3>3. s # r
      BY <1>1, <2>1, <3>2 DEF TypeOK
    <3>4. email[s] = x /\ pc[s] \notin Acks /\ jobOwner[x] # s
      BY <1>1, <2>1, <2>2, <3>2, <3>3, ActorAssumption DEF TypeOK
    <3>5. QED
      BY <3>2, <3>4 DEF Orphans, InJob
  <2>4. JobLocked'
    BY <1>1, <2>1 DEF JobLocked, TypeOK
  <2>5. QED
    BY <1>1, <2>1, <2>3, <2>4, NobodyOrphaned
<1>4. ASSUME NEW c \in Sweeps, SweepStep(c) PROVE JobLocked' /\ OrphansBounded'
  <2>1. UNCHANGED <<pc, email, jobOwner, flushes>>
    BY <1>4 DEF SweepStep, FindAbandoned, ResendAbandoned, FailAbandoned, FindOutstanding,
       EnqueueIfAbsent, EnqueueFails, SweepThrows, SweepDone
  <2>2. \A e \in Emails : jobState'[e] # "active" => jobState[e] # "active"
    BY <1>1, <1>4 DEF SweepStep, FindAbandoned, ResendAbandoned, FailAbandoned, FindOutstanding,
       EnqueueIfAbsent, AddJob, EnqueueFails, SweepThrows, SweepDone, TypeOK
  <2>3. \A e \in Emails : Orphans(e)' \subseteq Orphans(e)
    BY <2>1 DEF Orphans, InJob
  <2>4. QED
    BY <1>1, <2>1, <2>2, <2>3, NobodyOrphaned DEF JobLocked
<1>5. ASSUME NEW e \in Emails, JobStep(e) \/ CancelStep(e) PROVE JobLocked' /\ OrphansBounded'
  <2>1. UNCHANGED <<pc, email, flushes>>
    BY <1>5 DEF JobStep, EnqueueEmailJobs, Stall, Evict, LockAges, CancelStep, CancelRead,
       CancelWrite, RemoveEmailJob
  <2>2. jobOwner' = jobOwner
    <3>1. CASE Stall(e)
      <4>1. jobOwner[e] = None /\ jobOwner' = [jobOwner EXCEPT ![e] = None]
        BY <3>1 DEF Stall, LocksHold
      <4>2. QED
        BY <1>1, <4>1 DEF TypeOK
    <3>2. CASE ~Stall(e)
      BY <1>5, <3>2 DEF JobStep, EnqueueEmailJobs, Evict, LockAges, CancelStep, CancelRead,
         CancelWrite, RemoveEmailJob
    <3>3. QED
      BY <3>1, <3>2
  <2>3. \A x \in Emails : jobState'[x] # "active" => jobState[x] # "active" \/ jobOwner'[x] = None
    <3>1. CASE Stall(e)
      BY <1>1, <3>1 DEF Stall, TypeOK
    <3>2. CASE ~Stall(e)
      BY <1>1, <1>5, <3>2 DEF JobStep, EnqueueEmailJobs, AddJob, Evict, LockAges, CancelStep,
         CancelRead, CancelWrite, RemoveEmailJob, TypeOK
    <3>3. QED
      BY <3>1, <3>2
  <2>4. \A x \in Emails : Orphans(x)' \subseteq Orphans(x)
    BY <2>1, <2>2 DEF Orphans, InJob
  <2>5. QED
    BY <1>1, <2>1, <2>2, <2>3, <2>4, NobodyOrphaned DEF JobLocked
<1>6. ASSUME NEW p \in Procs, Crash(p) PROVE JobLocked' /\ OrphansBounded'
  <2>1. /\ \A e \in Emails : jobOwner'[e] =
              IF jobOwner[e] # None /\ HostOf[jobOwner[e]] = p THEN None ELSE jobOwner[e]
        /\ \A r \in Runs : email'[r] = IF HostOf[r] = p THEN None ELSE email[r]
        /\ \A r \in Runs : pc'[r] = IF HostOf[r] = p THEN "idle" ELSE pc[r]
        /\ UNCHANGED <<jobState, flushes>>
    BY <1>6 DEF Crash
  <2>2. \A e \in Emails : Orphans(e)' \subseteq Orphans(e)
    BY <2>1, ActorAssumption DEF Orphans, InJob
  <2>3. QED
    BY <1>1, <2>1, <2>2, NobodyOrphaned DEF JobLocked
<1>7. CASE RedisLoss
  <2>1. UNCHANGED <<pc, email>> /\ flushes' = flushes + 1
    BY <1>7 DEF RedisLoss
  <2>2. JobLocked'
    BY <1>7 DEF RedisLoss, JobLocked
  <2>3. ASSUME NEW e \in Emails PROVE Cardinality(Orphans(e)') <= flushes'
    <3>1. InJob(e) \subseteq Runs /\ Orphans(e)' \subseteq InJob(e)
      BY <2>1 DEF Orphans, InJob
    <3>2. /\ Cardinality(Orphans(e)') <= Cardinality(InJob(e))
          /\ Cardinality(Orphans(e)') \in Nat /\ Cardinality(InJob(e)) \in Nat
      BY <3>1, RunSets
    <3>3. Cardinality(InJob(e)) <= flushes + 1
      BY InJobBounded
    <3>4. QED
      BY <1>1, <2>1, <3>2, <3>3
  <2>4. QED
    BY <2>2, <2>3 DEF OrphansBounded
<1>8. CASE ApiCrash \/ UNCHANGED vars
  <2>1. UNCHANGED <<pc, email, jobVars, flushes>>
    BY <1>8 DEF ApiCrash, vars
  <2>2. \A x \in Emails : Orphans(x)' \subseteq Orphans(x)
    BY <2>1 DEF Orphans, InJob
  <2>3. QED
    BY <1>1, <2>1, <2>2, NobodyOrphaned DEF JobLocked
<1>9. QED
  BY <1>2, <1>3, <1>4, <1>5, <1>6, <1>7, <1>8 DEF Next

\* The steps at which a run knows the counters it read from its row.
Informed == {"claim", "count"} \cup Owning

\* The runs that may still claim, or count a deferral of, row e in the belief
\* that its budget is not used up.
UnawareOfAttempts(e) == {r \in InJob(e) : pc[r] = "claim" /\ rowAttempts[r] < MaxAttempts}
UnawareOfDeferrals(e) ==
    {r \in InJob(e) : pc[r] \in Informed /\ rowReschedules[r] < MaxReschedules}

\* Each of them can cost the row one attempt more, and an owner that retries one.
AttemptsWithin(e) ==
    LET n == attempts[e] + Cardinality(UnawareOfAttempts(e)) IN
    /\ attempts[e] <= MaxAttempts + 1 + flushes
    /\ status[e] \in Pending => n <= MaxAttempts + flushes
    /\ \A r \in Runs : pc[r] \in Owning /\ email[r] = e =>
          n <= MaxAttempts + flushes + (IF rowAttempts[r] < MaxAttempts THEN 0 ELSE 1)
AttemptBudget == \A e \in Emails : AttemptsWithin(e)
CountingWithin == \A r \in Runs : pc[r] = "count" => rowReschedules[r] < MaxReschedules
DeferralBudget ==
    \A e \in Emails :
        rescheduleCount[e] + Cardinality(UnawareOfDeferrals(e)) <= MaxReschedules + flushes
BudgetInv == ReopenInv /\ JobInv /\ AttemptBudget /\ CountingWithin /\ DeferralBudget

\* Redis is only ever lost once more.
LEMMA FlushesGrow == ASSUME TypeOK, [Next]_vars PROVE flushes' \in Nat /\ flushes' >= flushes
<1>1. flushes' = flushes \/ flushes' = flushes + 1
  <2>1. CASE RedisLoss
    BY <2>1 DEF RedisLoss
  <2>2. CASE UNCHANGED vars
    BY <2>2 DEF vars
  <2>3. ASSUME NEW r \in Runs, RunStep(r) \/ \E e \in Emails : Fetch(r, e)
        PROVE  flushes' = flushes
    BY <2>3 DEF RunStep, Load, Claim, Reserve, SendEmail, RecordSent, MarkRejected, HandleError,
       DeferExhausted, Release, CountReschedule, MoveToDelayed, StepThrows, Ack, Fetch
  <2>4. ASSUME NEW c \in Sweeps, SweepStep(c) PROVE flushes' = flushes
    BY <2>4 DEF SweepStep, FindAbandoned, ResendAbandoned, FailAbandoned, FindOutstanding,
       EnqueueIfAbsent, EnqueueFails, SweepThrows, SweepDone
  <2>5. ASSUME NEW e \in Emails, JobStep(e) \/ CancelStep(e) PROVE flushes' = flushes
    BY <2>5 DEF JobStep, EnqueueEmailJobs, Stall, Evict, LockAges, CancelStep, CancelRead,
       CancelWrite, RemoveEmailJob
  <2>6. ASSUME NEW p \in Procs, Crash(p) PROVE flushes' = flushes
    BY <2>6 DEF Crash
  <2>7. CASE ApiCrash
    BY <2>7 DEF ApiCrash
  <2>8. QED
    BY <2>1, <2>2, <2>3, <2>4, <2>5, <2>6, <2>7 DEF Next
<1>2. flushes \in Nat
  BY BudgetAssumption DEF TypeOK
<1>3. QED
  BY <1>1, <1>2

\* What a run knows of its row, it read in Load: other steps only forget.
LocalsKept(r) ==
    /\ pc'[r] \in Informed =>
          /\ pc[r] \in Informed /\ email'[r] = email[r]
          /\ rowAttempts'[r] = rowAttempts[r] /\ rowReschedules'[r] = rowReschedules[r]
    /\ pc'[r] = "claim" => pc[r] = "claim"
    /\ pc'[r] \in Owning => pc[r] \in Owning \/ (Claim(r) /\ status[email[r]] \in Pending)
    /\ pc'[r] = "count" => pc[r] = "count" \/ rowReschedules[r] < MaxReschedules

\* A run's own step but Load keeps what every run knows.
LEMMA OwnStepKeepsLocals ==
  ASSUME TypeOK, NEW r \in Runs, RunStep(r), ~Load(r)
  PROVE  LocalsKept(r) /\ \A s \in Runs \ {r} : LocalsKept(s)
<1>1. \A s \in Runs \ {r} :
        /\ pc'[s] = pc[s] /\ email'[s] = email[s]
        /\ rowAttempts'[s] = rowAttempts[s] /\ rowReschedules'[s] = rowReschedules[s]
  BY DEF RunStep, Claim, Reserve, SendEmail, RecordSent, MarkRejected, HandleError,
     DeferExhausted, Release, CountReschedule, MoveToDelayed, StepThrows, Ack, GoTo, Return, TypeOK
<1>2. \A s \in Runs \ {r} : LocalsKept(s)
  BY <1>1 DEF LocalsKept, Informed
<1>3. CASE Claim(r)
  BY <1>3 DEF Claim, Claimable, GoTo, Return, LocalsKept, Informed, Owning, TypeOK
<1>4. CASE Reserve(r)
  BY <1>4 DEF Reserve, GoTo, LocalsKept, Informed, Owning, TypeOK
<1>5. ASSUME NEW outcome \in SmtpOutcomes, SendEmail(r, outcome) PROVE LocalsKept(r)
  BY <1>5 DEF SendEmail, GoTo, LocalsKept, Informed, Owning, TypeOK
<1>6. CASE Writes(r) \/ MoveToDelayed(r) \/ Ack(r)
  BY <1>6 DEF Writes, RecordSent, MarkRejected, HandleError, DeferExhausted, MoveToDelayed, Ack,
     Return, LocalsKept, Informed, Owning, TypeOK
<1>7. CASE Release(r) \/ CountReschedule(r)
  BY <1>7 DEF Release, CountReschedule, GoTo, LocalsKept, Informed, Owning, TypeOK
<1>8. CASE StepThrows(r)
  BY <1>8 DEF StepThrows, GoTo, Return, LocalsKept, Informed, Owning, TypeOK
<1>9. QED
  BY <1>2, <1>3, <1>4, <1>5, <1>6, <1>7, <1>8 DEF RunStep, Writes

\* So does every other step.
LEMMA OthersKeepLocals ==
  ASSUME TypeOK, [Next]_vars, \A r \in Runs : ~Load(r)
  PROVE  \A r \in Runs : LocalsKept(r)
<1>1. ASSUME NEW r \in Runs, RunStep(r) PROVE \A s \in Runs : LocalsKept(s)
  BY <1>1, OwnStepKeepsLocals
<1>2. CASE UNCHANGED runVars
  BY <1>2 DEF LocalsKept, Informed
<1>3. ASSUME NEW r \in Runs, NEW e \in Emails, Fetch(r, e) PROVE \A s \in Runs : LocalsKept(s)
  BY <1>3 DEF Fetch, LocalsKept, Informed, Owning, TypeOK
<1>4. ASSUME NEW p \in Procs, Crash(p) PROVE \A s \in Runs : LocalsKept(s)
  BY <1>4 DEF Crash, LocalsKept, Informed, Owning, TypeOK
<1>5. ASSUME NEW c \in Sweeps, SweepStep(c) PROVE UNCHANGED runVars
  BY <1>5 DEF SweepStep, FindAbandoned, ResendAbandoned, FailAbandoned, FindOutstanding,
     EnqueueIfAbsent, EnqueueFails, SweepThrows, SweepDone
<1>6. ASSUME NEW e \in Emails, JobStep(e) \/ CancelStep(e) PROVE UNCHANGED runVars
  BY <1>6 DEF JobStep, EnqueueEmailJobs, Stall, Evict, LockAges, CancelStep, CancelRead,
     CancelWrite, RemoveEmailJob
<1>7. CASE RedisLoss \/ ApiCrash \/ UNCHANGED vars
  <2>1. UNCHANGED runVars
    BY <1>7 DEF RedisLoss, ApiCrash, vars
  <2>2. QED
    BY <1>2, <2>1
<1>8. QED
  BY <1>1, <1>2, <1>3, <1>4, <1>5, <1>6, <1>7 DEF Next

\* A step that claims nothing and keeps the counter keeps the attempt budget, if a
\* row is only ever put back by an owner that read a counter below MAX_ATTEMPTS.
LEMMA NothingClaimed ==
  ASSUME LocksHold, TypeOK, TypeOK', NEW e \in Emails, AttemptsWithin(e),
         flushes' \in Nat, flushes' >= flushes, attempts'[e] <= attempts[e],
         \A r \in Runs : LocalsKept(r),
         \A r \in Runs : pc'[r] \in Owning => pc[r] \in Owning,
         \/ status'[e] \in Pending => status[e] \in Pending
         \/ \E r \in Runs : pc[r] \in Owning /\ email[r] = e /\ rowAttempts[r] < MaxAttempts
         \/ attempts'[e] < attempts[e] /\ \E r \in Runs : pc[r] \in Owning /\ email[r] = e
  PROVE  AttemptsWithin(e)'
<1> DEFINE n == attempts[e] + Cardinality(UnawareOfAttempts(e))
<1>1. UnawareOfAttempts(e)' \subseteq UnawareOfAttempts(e)
  <2>1. SUFFICES ASSUME NEW r \in Runs, email'[r] = e, pc'[r] = "claim",
                        rowAttempts'[r] < MaxAttempts
                 PROVE  r \in UnawareOfAttempts(e)
    BY DEF UnawareOfAttempts, InJob
  <2>2. pc[r] = "claim" /\ email[r] = e /\ rowAttempts[r] < MaxAttempts
    BY <2>1 DEF LocalsKept, Informed
  <2>3. QED
    BY <2>2 DEF UnawareOfAttempts, InJob, Acks
<1>2. UnawareOfAttempts(e) \subseteq Runs
  BY DEF UnawareOfAttempts, InJob
<1>3. /\ Cardinality(UnawareOfAttempts(e)') \in Nat /\ Cardinality(UnawareOfAttempts(e)) \in Nat
      /\ Cardinality(UnawareOfAttempts(e)') <= Cardinality(UnawareOfAttempts(e))
  BY <1>1, <1>2, RunSets
<1>4. attempts[e] \in Int /\ attempts'[e] \in Int /\ flushes \in Nat /\ MaxAttempts \in Nat
  BY BudgetAssumption DEF TypeOK
<1>5. attempts'[e] <= MaxAttempts + 1 + flushes'
  BY <1>4 DEF AttemptsWithin
<1>6. n' <= n /\ n \in Int /\ n' \in Int
  BY <1>3, <1>4
<1>7. ASSUME status'[e] \in Pending PROVE n' <= MaxAttempts + flushes'
  <2>1. CASE status[e] \in Pending
    BY <1>4, <1>6, <2>1 DEF AttemptsWithin
  <2>2. ASSUME NEW r \in Runs, pc[r] \in Owning, email[r] = e, rowAttempts[r] < MaxAttempts
        PROVE  n' <= MaxAttempts + flushes'
    <3>1. n <= MaxAttempts + flushes
      BY <1>4, <2>2 DEF AttemptsWithin
    <3>2. QED
      BY <1>4, <1>6, <3>1
  <2>3. ASSUME NEW r \in Runs, pc[r] \in Owning, email[r] = e, attempts'[e] < attempts[e]
        PROVE  n' <= MaxAttempts + flushes'
    <3>1. n <= MaxAttempts + flushes + 1
      BY <1>4, <1>6, <2>3 DEF AttemptsWithin
    <3>2. n' <= n - 1
      BY <1>3, <1>4, <2>3
    <3>3. QED
      BY <1>4, <1>6, <3>1, <3>2
  <2>4. QED
    BY <1>7, <2>1, <2>2, <2>3
<1>8. ASSUME NEW r \in Runs, pc'[r] \in Owning, email'[r] = e
      PROVE  n' <= MaxAttempts + flushes' + (IF rowAttempts'[r] < MaxAttempts THEN 0 ELSE 1)
  <2>1. pc[r] \in Owning /\ email[r] = e /\ rowAttempts'[r] = rowAttempts[r]
    BY <1>8 DEF LocalsKept, Informed
  <2>2. n <= MaxAttempts + flushes + (IF rowAttempts[r] < MaxAttempts THEN 0 ELSE 1)
    BY <2>1 DEF AttemptsWithin
  <2>3. QED
    BY <1>4, <1>6, <2>1, <2>2
<1>9. QED
  BY <1>5, <1>7, <1>8 DEF AttemptsWithin

\* The same for a step that changes no row's counter.
LEMMA NoAttemptCounted ==
  ASSUME LocksHold, TypeOK, TypeOK', AttemptBudget, attempts' = attempts,
         flushes' \in Nat, flushes' >= flushes,
         \A r \in Runs : LocalsKept(r),
         \A r \in Runs : pc'[r] \in Owning => pc[r] \in Owning,
         \A e \in Emails : status'[e] \in Pending => status[e] \in Pending
  PROVE  AttemptBudget'
<1> SUFFICES ASSUME NEW e \in Emails PROVE AttemptsWithin(e)'
  BY DEF AttemptBudget
<1>1. AttemptsWithin(e) /\ attempts'[e] <= attempts[e]
  BY DEF AttemptBudget, TypeOK
<1>2. QED
  BY <1>1, NothingClaimed

\* A Load leaves the few runs in a job as few as they are.
LEMMA LoadKeepsInJob ==
  ASSUME LocksHold, JobInv, NEW r \in Runs, Load(r), NEW e \in Emails
  PROVE  Cardinality(InJob(e)') <= flushes + 1
<1>1. InJob(e)' \subseteq InJob(e) /\ InJob(e) \subseteq Runs
  BY DEF Load, Return, InJob, Acks, JobInv, TypeOK
<1>2. /\ Cardinality(InJob(e)') \in Nat /\ Cardinality(InJob(e)) \in Nat
      /\ Cardinality(InJob(e)') <= Cardinality(InJob(e))
  BY <1>1, RunSets
<1>3. Cardinality(InJob(e)) <= flushes + 1 /\ flushes \in Nat
  BY InJobBounded, BudgetAssumption DEF JobInv, TypeOK
<1>4. QED
  BY <1>2, <1>3

\* A run that reads a counter below MAX_ATTEMPTS is one of the few in the job; one
\* that reads a higher counter knows that it must not retry.
LEMMA LoadKeepsAttempts ==
  ASSUME LocksHold, BudgetInv, TypeOK', NEW r \in Runs, Load(r)
  PROVE  AttemptBudget'
<1>1. /\ TypeOK /\ flushes \in Nat /\ MaxAttempts \in Nat
      /\ UNCHANGED <<attempts, status, flushes, email>>
      /\ email[r] \in Emails /\ pc[r] = "load"
      /\ \A s \in Runs \ {r} : pc'[s] = pc[s] /\ rowAttempts'[s] = rowAttempts[s]
      /\ pc'[r] \in {"claim", "ackDone"}
      /\ pc'[r] = "claim" => rowAttempts'[r] = attempts[email[r]]
  BY BudgetAssumption DEF Load, Return, BudgetInv, JobInv, TypeOK
<1> SUFFICES ASSUME NEW e \in Emails PROVE AttemptsWithin(e)'
  BY DEF AttemptBudget
<1>2. AttemptsWithin(e) /\ attempts[e] \in Int
  BY <1>1 DEF BudgetInv, AttemptBudget, TypeOK
<1>3. UnawareOfAttempts(e)' \subseteq InJob(e)' /\ InJob(e)' \subseteq Runs
  BY DEF UnawareOfAttempts, InJob
<1>4. UnawareOfAttempts(e) \subseteq Runs
  BY DEF UnawareOfAttempts, InJob
<1>5. /\ Cardinality(UnawareOfAttempts(e)') \in Nat /\ Cardinality(UnawareOfAttempts(e)) \in Nat
      /\ Cardinality(InJob(e)') \in Nat
      /\ Cardinality(UnawareOfAttempts(e)') <= Cardinality(InJob(e)')
  BY <1>3, <1>4, RunSets
<1>6. Cardinality(InJob(e)') <= flushes + 1
  BY LoadKeepsInJob DEF BudgetInv
<1>7. \A s \in Runs : pc'[s] \in Owning => pc[s] \in Owning /\ rowAttempts'[s] = rowAttempts[s]
  BY <1>1 DEF Owning
<1>8. CASE e = email[r] /\ attempts[e] < MaxAttempts
  <2>1. attempts'[e] + Cardinality(UnawareOfAttempts(e)') <= MaxAttempts + flushes'
    BY <1>1, <1>2, <1>5, <1>6, <1>8
  <2>2. attempts'[e] <= MaxAttempts + 1 + flushes'
    BY <1>1, <1>2
       DEF AttemptsWithin
  <2>3. QED
    BY <1>1, <1>2, <1>5, <2>1, <2>2 DEF AttemptsWithin
<1>9. CASE ~(e = email[r] /\ attempts[e] < MaxAttempts)
  <2>1. UnawareOfAttempts(e)' \subseteq UnawareOfAttempts(e)
    BY <1>1, <1>2, <1>9 DEF UnawareOfAttempts, InJob
  <2>2. Cardinality(UnawareOfAttempts(e)') <= Cardinality(UnawareOfAttempts(e))
    BY <1>4, <2>1, RunSets
  <2>3. \A s \in Runs : pc'[s] \in Owning /\ email'[s] = e =>
            attempts'[e] + Cardinality(UnawareOfAttempts(e)')
              <= MaxAttempts + flushes' + (IF rowAttempts'[s] < MaxAttempts THEN 0 ELSE 1)
    BY <1>1, <1>2, <1>5, <1>7, <2>2 DEF AttemptsWithin
  <2>4. QED
    BY <1>1, <1>2, <1>5, <2>2, <2>3 DEF AttemptsWithin
<1>10. QED
  BY <1>8, <1>9

\* A claim moves one run from the unaware to the owners, or is the last there is.
LEMMA ClaimKeepsAttempts ==
  ASSUME LocksHold, BudgetInv, TypeOK', NEW r \in Runs, Claim(r), status[email[r]] \in Pending
  PROVE  AttemptBudget'
<1>1. PICK e \in Emails : e = email[r]
  BY DEF Claim, BudgetInv, ReopenInv, TypeOK
<1>2. /\ TypeOK /\ flushes \in Nat /\ MaxAttempts \in Nat /\ attempts[e] \in Int
      /\ pc[r] = "claim" /\ pc' = [pc EXCEPT ![r] = "reserve"]
      /\ status'[e] = "PROCESSING" /\ attempts'[e] = attempts[e] + 1
      /\ \A x \in Emails \ {e} : status'[x] = status[x] /\ attempts'[x] = attempts[x]
      /\ UNCHANGED <<email, rowAttempts, rowReschedules, flushes>>
  BY <1>1, BudgetAssumption DEF Claim, Claimable, GoTo, BudgetInv, ReopenInv, TypeOK
<1>3. /\ pc'[r] = "reserve"
      /\ \A s \in Runs \ {r} : pc'[s] = pc[s]
  BY <1>2 DEF TypeOK
<1>4. \A s \in Runs : pc'[s] \in Owning /\ email[s] = e => s = r
  BY <1>1, <1>3 DEF BudgetInv, ReopenInv, OwnedStatus, Pending
<1>5. UnawareOfAttempts(e) \subseteq Runs /\ UnawareOfAttempts(e)' = UnawareOfAttempts(e) \ {r}
  BY <1>2, <1>3 DEF UnawareOfAttempts, InJob, Acks
<1>6. /\ IsFiniteSet(UnawareOfAttempts(e))
      /\ Cardinality(UnawareOfAttempts(e)) \in Nat /\ Cardinality(UnawareOfAttempts(e)') \in Nat
  BY <1>5, RunSets
<1>7. attempts[e] + Cardinality(UnawareOfAttempts(e)) <= MaxAttempts + flushes
  BY <1>1 DEF BudgetInv, AttemptBudget, AttemptsWithin
<1>8. attempts'[e] + Cardinality(UnawareOfAttempts(e)')
        <= MaxAttempts + flushes' + (IF rowAttempts'[r] < MaxAttempts THEN 0 ELSE 1)
  <2>1. CASE rowAttempts[r] < MaxAttempts
    <3>1. r \in UnawareOfAttempts(e)
      BY <1>1, <1>2, <2>1 DEF UnawareOfAttempts, InJob, Acks
    <3>2. Cardinality(UnawareOfAttempts(e)') = Cardinality(UnawareOfAttempts(e)) - 1
      BY <1>5, <1>6, <3>1, FS_RemoveElement
    <3>3. QED
      BY <1>2, <1>6, <1>7, <2>1, <3>2
  <2>2. CASE ~(rowAttempts[r] < MaxAttempts)
    <3>1. UnawareOfAttempts(e)' = UnawareOfAttempts(e)
      BY <1>5, <2>2 DEF UnawareOfAttempts
    <3>2. QED
      BY <1>2, <1>6, <1>7, <2>2, <3>1
  <2>3. QED
    BY <2>1, <2>2
<1>9. AttemptsWithin(e)'
  <2>1. attempts'[e] <= MaxAttempts + 1 + flushes'
    BY <1>2, <1>6, <1>8
  <2>2. \A s \in Runs : pc'[s] \in Owning /\ email'[s] = e => s = r
    BY <1>2, <1>4
  <2>3. status'[e] \notin Pending
    BY <1>2 DEF Pending
  <2>4. QED
    BY <1>8, <2>1, <2>2, <2>3 DEF AttemptsWithin
<1>10. ASSUME NEW x \in Emails, x # e PROVE AttemptsWithin(x)'
  <2>1. UnawareOfAttempts(x)' = UnawareOfAttempts(x)
    BY <1>1, <1>2, <1>3, <1>10 DEF UnawareOfAttempts, InJob, Acks
  <2>2. \A s \in Runs : email[s] = x => pc'[s] = pc[s]
    BY <1>1, <1>3, <1>10
  <2>3. QED
    BY <1>2, <1>10, <2>1, <2>2 DEF BudgetInv, AttemptBudget, AttemptsWithin
<1>11. QED
  BY <1>9, <1>10 DEF AttemptBudget

\* Every step keeps the budget of attempts.
LEMMA AttemptBudgetStep ==
  ASSUME SafeResend, LocksHold, BudgetInv, TypeOK', [Next]_vars PROVE AttemptBudget'
<1>1. TypeOK /\ AttemptBudget /\ flushes' \in Nat /\ flushes' >= flushes
  BY FlushesGrow DEF BudgetInv, ReopenInv
<1>2. ASSUME NEW r \in Runs, Load(r) PROVE AttemptBudget'
  BY <1>2, LoadKeepsAttempts
<1>3. ASSUME NEW r \in Runs, Claim(r), status[email[r]] \in Pending PROVE AttemptBudget'
  BY <1>3, ClaimKeepsAttempts
<1>4. ASSUME \A r \in Runs : ~Load(r) /\ ~(Claim(r) /\ status[email[r]] \in Pending)
      PROVE  AttemptBudget'
  <2>1. /\ \A r \in Runs : LocalsKept(r)
        /\ \A r \in Runs : pc'[r] \in Owning => pc[r] \in Owning
    BY <1>1, <1>4, OthersKeepLocals DEF LocalsKept
  <2>2. CASE Calm
    BY <1>1, <2>1, <2>2, NoAttemptCounted DEF Calm
  <2>3. ASSUME NEW r \in Runs, NEW outcome \in SmtpOutcomes, SendEmail(r, outcome)
        PROVE  AttemptBudget'
    BY <1>1, <2>1, <2>3, NoAttemptCounted DEF SendEmail
  <2>4. ASSUME NEW r \in Runs, Writes(r) PROVE AttemptBudget'
    <3>1. PICK e \in Emails : e = email[r]
      BY <1>1, <2>4 DEF Writes, RecordSent, MarkRejected, HandleError, DeferExhausted, TypeOK
    <3>2. /\ attempts' = attempts /\ pc[r] \in Owning
          /\ status'[e] \in Pending => rowAttempts[r] < MaxAttempts
          /\ \A x \in Emails \ {e} : status'[x] = status[x]
      BY <1>1, <2>4, <3>1 DEF Writes, RecordSent, MarkRejected, HandleError, DeferExhausted,
         SetStatus, WillRetry, Owning, Pending, TypeOK
    <3>3. ASSUME NEW x \in Emails PROVE AttemptsWithin(x)'
      <4>1. /\ AttemptsWithin(x) /\ attempts'[x] <= attempts[x]
            /\ \/ status'[x] \in Pending => status[x] \in Pending
               \/ \E s \in Runs : pc[s] \in Owning /\ email[s] = x /\ rowAttempts[s] < MaxAttempts
        <5>1. AttemptsWithin(x) /\ attempts'[x] <= attempts[x]
          BY <1>1, <3>2 DEF AttemptBudget, TypeOK
        <5>2. QED
          BY <3>1, <3>2, <5>1
      <4>2. QED
        BY <1>1, <2>1, <4>1, NothingClaimed
    <3>4. QED
      BY <3>3 DEF AttemptBudget
  <2>5. ASSUME NEW r \in Runs, Release(r) PROVE AttemptBudget'
    <3>1. PICK e \in Emails : e = email[r]
      BY <1>1, <2>5 DEF Release, TypeOK
    <3>2. /\ pc[r] \in Owning
          /\ \A x \in Emails \ {e} : status'[x] = status[x] /\ attempts'[x] = attempts[x]
          /\ \/ status'[e] = status[e] /\ attempts'[e] = attempts[e]
             \/ attempts'[e] = attempts[e] - 1
      BY <1>1, <2>5, <3>1 DEF Release, SetStatus, UnclaimedAttempts, Owning, TypeOK
    <3>3. ASSUME NEW x \in Emails PROVE AttemptsWithin(x)'
      <4>1. attempts[x] \in Int /\ AttemptsWithin(x)
        BY <1>1 DEF AttemptBudget, TypeOK
      <4>2. /\ attempts'[x] <= attempts[x]
            /\ \/ status'[x] \in Pending => status[x] \in Pending
               \/ attempts'[x] < attempts[x] /\ \E s \in Runs : pc[s] \in Owning /\ email[s] = x
        BY <3>1, <3>2, <4>1
      <4>3. QED
        BY <1>1, <2>1, <4>1, <4>2, NothingClaimed
    <3>4. QED
      BY <3>3 DEF AttemptBudget
  <2>6. ASSUME NEW r \in Runs, StepThrows(r) PROVE AttemptBudget'
    BY <1>1, <2>1, <2>6, NoAttemptCounted DEF StepThrows
  <2>7. ASSUME NEW e \in Emails, CancelWrite(e) \/ LockAges(e) PROVE AttemptBudget'
    <3>1. attempts' = attempts /\ \A x \in Emails : status'[x] \in Pending => status[x] \in Pending
      BY <1>1, <2>7 DEF CancelWrite, LockAges, SetStatus, Pending, TypeOK
    <3>2. QED
      BY <1>1, <2>1, <3>1, NoAttemptCounted
  <2>8. ASSUME NEW c \in Sweeps, FindAbandoned(c) PROVE AttemptBudget'
    BY <1>1, <2>1, <2>8, NoAttemptCounted DEF FindAbandoned
  <2>9. ASSUME NEW c \in Sweeps, NEW e \in Emails, FailAbandoned(c, e) PROVE AttemptBudget'
    <3>1. attempts' = attempts /\ \A x \in Emails : status'[x] \in Pending => status[x] \in Pending
      BY <1>1, <2>9 DEF FailAbandoned, SetStatus, Pending, TypeOK
    <3>2. QED
      BY <1>1, <2>1, <3>1, NoAttemptCounted
  <2>10. ASSUME NEW c \in Sweeps, NEW e \in Emails, ResendAbandoned(c, e) PROVE AttemptBudget'
    <3>1. /\ UNCHANGED <<pc, email, attempts, rowAttempts, flushes>>
          /\ \A x \in Emails \ {e} : status'[x] = status[x]
      BY <1>1, <2>10 DEF ResendAbandoned, SetStatus, TypeOK
    <3>2. attempts[e] < MaxAttempts /\ ~Owned(e)
      BY <2>10 DEF ResendAbandoned, BudgetInv, ReopenInv, ResendIsClosed
    <3>3. AttemptsWithin(e)'
      <4>1. UnawareOfAttempts(e) \subseteq InJob(e) /\ InJob(e) \subseteq Runs
        BY DEF UnawareOfAttempts, InJob
      <4>2. /\ Cardinality(UnawareOfAttempts(e)) \in Nat /\ Cardinality(InJob(e)) \in Nat
            /\ Cardinality(UnawareOfAttempts(e)) <= Cardinality(InJob(e))
        BY <4>1, RunSets
      <4>3. Cardinality(InJob(e)) <= flushes + 1
        BY InJobBounded DEF BudgetInv
      <4>4. attempts[e] \in Int /\ MaxAttempts \in Nat /\ flushes \in Nat
        BY <1>1, BudgetAssumption DEF TypeOK
      <4>5. attempts[e] + Cardinality(UnawareOfAttempts(e)) <= MaxAttempts + flushes
        BY <3>2, <4>2, <4>3, <4>4
      <4>6. attempts[e] <= MaxAttempts + 1 + flushes
        BY <3>2, <4>4
      <4>7. UnawareOfAttempts(e)' = UnawareOfAttempts(e)
        BY <3>1 DEF UnawareOfAttempts, InJob
      <4>8. \A s \in Runs : ~(pc'[s] \in Owning /\ email'[s] = e)
        BY <3>1, <3>2 DEF Owned
      <4>9. QED
        BY <3>1, <4>5, <4>6, <4>7, <4>8 DEF AttemptsWithin
    <3>4. ASSUME NEW x \in Emails, x # e PROVE AttemptsWithin(x)'
      <4>1. UnawareOfAttempts(x)' = UnawareOfAttempts(x)
        BY <3>1 DEF UnawareOfAttempts, InJob
      <4>2. QED
        BY <1>1, <3>1, <3>4, <4>1 DEF AttemptBudget, AttemptsWithin
    <3>5. QED
      BY <3>3, <3>4 DEF AttemptBudget
  <2>11. ASSUME NEW p \in Procs, Crash(p) PROVE AttemptBudget'
    BY <1>1, <2>1, <2>11, NoAttemptCounted DEF Crash
  <2>12. QED
    BY <1>1, <1>4, <2>2, <2>3, <2>4, <2>5, <2>6, <2>7, <2>8, <2>9, <2>10, <2>11, StepKinds
       DEF Kinds, RowStep
<1>5. QED
  BY <1>2, <1>3, <1>4

\* Only CountReschedule changes the counter of deferrals.
LEMMA OnlyCountingCounts ==
  ASSUME [Next]_vars, \A r \in Runs : ~CountReschedule(r) PROVE rescheduleCount' = rescheduleCount
<1>1. ASSUME NEW r \in Runs, RunStep(r) \/ \E e \in Emails : Fetch(r, e)
      PROVE  rescheduleCount' = rescheduleCount
  BY <1>1 DEF RunStep, Load, Claim, Reserve, SendEmail, RecordSent, MarkRejected, HandleError,
     DeferExhausted, Release, MoveToDelayed, StepThrows, Ack, Fetch
<1>2. ASSUME NEW c \in Sweeps, SweepStep(c) PROVE rescheduleCount' = rescheduleCount
  BY <1>2 DEF SweepStep, FindAbandoned, ResendAbandoned, FailAbandoned, FindOutstanding,
     EnqueueIfAbsent, EnqueueFails, SweepThrows, SweepDone
<1>3. ASSUME NEW e \in Emails, JobStep(e) \/ CancelStep(e) PROVE rescheduleCount' = rescheduleCount
  BY <1>3 DEF JobStep, EnqueueEmailJobs, Stall, Evict, LockAges, CancelStep, CancelRead,
     CancelWrite, RemoveEmailJob
<1>4. ASSUME NEW p \in Procs, Crash(p) PROVE rescheduleCount' = rescheduleCount
  BY <1>4 DEF Crash
<1>5. CASE RedisLoss \/ ApiCrash \/ UNCHANGED vars
  BY <1>5 DEF RedisLoss, ApiCrash, vars
<1>6. QED
  BY <1>1, <1>2, <1>3, <1>4, <1>5 DEF Next

\* Every step keeps the budget of deferrals.
LEMMA DeferralBudgetStep ==
  ASSUME LocksHold, BudgetInv, TypeOK', [Next]_vars
  PROVE  CountingWithin' /\ DeferralBudget'
<1>1. /\ TypeOK /\ DeferralBudget /\ CountingWithin
      /\ flushes' \in Nat /\ flushes \in Nat /\ flushes' >= flushes /\ MaxReschedules \in Nat
  BY FlushesGrow, BudgetAssumption DEF BudgetInv, ReopenInv, TypeOK
<1> DEFINE unaware(e) == UnawareOfDeferrals(e)
<1>2. \A e \in Emails : /\ unaware(e) \subseteq Runs /\ unaware(e)' \subseteq InJob(e)'
                        /\ InJob(e)' \subseteq Runs
  BY DEF UnawareOfDeferrals, InJob
<1>3. ASSUME NEW e \in Emails
      PROVE  /\ IsFiniteSet(unaware(e))
             /\ Cardinality(unaware(e)) \in Nat /\ Cardinality(unaware(e)') \in Nat
             /\ Cardinality(InJob(e)') \in Nat
             /\ Cardinality(unaware(e)') <= Cardinality(InJob(e)')
             /\ unaware(e)' \subseteq unaware(e) => Cardinality(unaware(e)') <= Cardinality(unaware(e))
  <2>1. unaware(e) \subseteq Runs /\ unaware(e)' \subseteq InJob(e)' /\ InJob(e)' \subseteq Runs
    BY <1>2
  <2>2. QED
    BY <2>1, RunSets
<1>4. ASSUME NEW e \in Emails, unaware(e)' \subseteq unaware(e),
             rescheduleCount'[e] = rescheduleCount[e]
      PROVE  rescheduleCount'[e] + Cardinality(unaware(e)') <= MaxReschedules + flushes'
  <2>1. rescheduleCount[e] + Cardinality(unaware(e)) <= MaxReschedules + flushes
    BY <1>1 DEF DeferralBudget
  <2>2. rescheduleCount[e] \in Nat
    BY <1>1 DEF TypeOK
  <2>3. QED
    BY <1>1, <1>3, <1>4, <2>1, <2>2
<1>5. ASSUME NEW r \in Runs, Load(r) PROVE CountingWithin' /\ DeferralBudget'
  <2>1. /\ UNCHANGED <<rescheduleCount, flushes, email>>
        /\ email[r] \in Emails /\ pc[r] = "load" /\ pc'[r] \in {"claim", "ackDone"}
        /\ pc'[r] = "claim" => rowReschedules'[r] = rescheduleCount[email[r]]
        /\ \A s \in Runs \ {r} : pc'[s] = pc[s] /\ rowReschedules'[s] = rowReschedules[s]
    BY <1>1, <1>5 DEF Load, Return, TypeOK
  <2>2. CountingWithin'
    BY <1>1, <2>1 DEF CountingWithin
  <2>3. ASSUME NEW e \in Emails
        PROVE  rescheduleCount'[e] + Cardinality(unaware(e)') <= MaxReschedules + flushes'
    <3>1. rescheduleCount[e] \in Nat
      BY <1>1 DEF TypeOK
    <3>2. CASE e = email[r] /\ rescheduleCount[e] < MaxReschedules
      <4>1. Cardinality(InJob(e)') <= flushes' + 1
        BY <1>5, <2>1, LoadKeepsInJob DEF BudgetInv
      <4>2. QED
        BY <1>1, <1>3, <2>1, <3>1, <3>2, <4>1
    <3>3. CASE ~(e = email[r] /\ rescheduleCount[e] < MaxReschedules)
      <4>1. unaware(e)' \subseteq unaware(e)
        BY <2>1, <3>1, <3>3 DEF UnawareOfDeferrals, InJob, Informed, Acks, Owning
      <4>2. QED
        BY <1>4, <2>1, <4>1
    <3>4. QED
      BY <3>2, <3>3
  <2>4. QED
    BY <2>2, <2>3 DEF DeferralBudget
<1>6. ASSUME \A r \in Runs : ~Load(r) PROVE CountingWithin' /\ DeferralBudget'
  <2>1. \A r \in Runs : LocalsKept(r)
    BY <1>1, <1>6, OthersKeepLocals
  <2>2. CountingWithin'
    BY <1>1, <2>1 DEF CountingWithin, LocalsKept, Informed
  <2>3. ASSUME NEW e \in Emails PROVE unaware(e)' \subseteq unaware(e)
    BY <2>1 DEF LocalsKept, UnawareOfDeferrals, InJob, Informed, Acks, Owning
  <2>4. CASE \A r \in Runs : ~CountReschedule(r)
    <3>1. rescheduleCount' = rescheduleCount
      BY <2>4, OnlyCountingCounts
    <3>2. QED
      BY <1>4, <2>2, <2>3, <3>1 DEF DeferralBudget
  <2>5. ASSUME NEW r \in Runs, CountReschedule(r) PROVE DeferralBudget'
    <3>1. PICK e \in Emails : e = email[r]
      BY <1>1, <2>5 DEF CountReschedule, TypeOK
    <3>2. /\ rescheduleCount'[e] = rescheduleCount[e] + 1
          /\ \A x \in Emails \ {e} : rescheduleCount'[x] = rescheduleCount[x]
          /\ pc[r] = "count" /\ pc'[r] = "delay" /\ rescheduleCount[e] \in Nat
      BY <1>1, <2>5, <3>1 DEF CountReschedule, GoTo, TypeOK
    <3>3. r \in unaware(e)
      BY <1>1, <3>1, <3>2 DEF CountingWithin, UnawareOfDeferrals, InJob, Informed, Acks
    <3>4. r \notin unaware(e)'
      BY <3>2 DEF UnawareOfDeferrals, Informed, Owning
    <3>5. /\ Cardinality(unaware(e) \ {r}) = Cardinality(unaware(e)) - 1
          /\ Cardinality(unaware(e)') <= Cardinality(unaware(e) \ {r})
          /\ Cardinality(unaware(e) \ {r}) \in Nat
      <4>1. Cardinality(unaware(e) \ {r}) = Cardinality(unaware(e)) - 1
        BY <1>3, <3>3, FS_RemoveElement
      <4>2. unaware(e) \ {r} \subseteq Runs /\ unaware(e)' \subseteq unaware(e) \ {r}
        BY <1>2, <2>3, <3>4
      <4>3. QED
        BY <4>1, <4>2, RunSets
    <3>6. rescheduleCount[e] + Cardinality(unaware(e)) <= MaxReschedules + flushes
      BY <1>1 DEF DeferralBudget
    <3>7. rescheduleCount'[e] + Cardinality(unaware(e)') <= MaxReschedules + flushes'
      BY <1>1, <1>3, <3>2, <3>5, <3>6
    <3>8. ASSUME NEW x \in Emails, x # e
          PROVE  rescheduleCount'[x] + Cardinality(unaware(x)') <= MaxReschedules + flushes'
      BY <1>4, <2>3, <3>2, <3>8
    <3>9. QED
      BY <3>7, <3>8 DEF DeferralBudget
  <2>6. QED
    BY <2>2, <2>4, <2>5
<1>7. QED
  BY <1>5, <1>6

\* Both budgets of a row hold with one attempt to spare, and one more attempt and
\* deferral for every loss of Redis: no interleaving of redeliveries, deferrals,
\* resends and retries goes round for ever.
THEOREM BudgetsAreKept == SafeResend /\ LocksHold => (Spec => []BudgetsHold)
<1> SUFFICES ASSUME SafeResend, LocksHold PROVE Spec => []BudgetsHold
  OBVIOUS
<1>1. Init => BudgetInv
  <2> SUFFICES ASSUME Init PROVE BudgetInv
    OBVIOUS
  <2>1. ReopenInv /\ TypeOK
    BY ReopenInit DEF ReopenInv
  <2>2. \A e \in Emails : InJob(e) = {}
    BY ActorAssumption DEF Init, InJob
  <2>3. \A e \in Emails : /\ Orphans(e) = {} /\ UnawareOfAttempts(e) = {}
                          /\ UnawareOfDeferrals(e) = {}
    BY <2>2 DEF Orphans, UnawareOfAttempts, UnawareOfDeferrals
  <2>4. \A e \in Emails : /\ Cardinality(Orphans(e)) = 0
                          /\ Cardinality(UnawareOfAttempts(e)) = 0
                          /\ Cardinality(UnawareOfDeferrals(e)) = 0
    BY <2>3, FS_EmptySet
  <2>5. /\ \A e \in Emails : attempts[e] = 0 /\ rescheduleCount[e] = 0 /\ jobOwner[e] = None
        /\ \A r \in Runs : pc[r] = "idle"
        /\ flushes = 0 /\ MaxAttempts \in Nat /\ MaxReschedules \in Nat
    BY BudgetAssumption DEF Init
  <2>6. JobInv
    BY <2>1, <2>4, <2>5 DEF JobInv, JobLocked, OrphansBounded
  <2>7. AttemptBudget /\ CountingWithin /\ DeferralBudget
    BY <2>4, <2>5 DEF AttemptBudget, AttemptsWithin, CountingWithin, DeferralBudget, Owning
  <2>8. QED
    BY <2>1, <2>6, <2>7 DEF BudgetInv
<1>2. BudgetInv /\ [Next]_vars => BudgetInv'
  <2> SUFFICES ASSUME BudgetInv, [Next]_vars PROVE BudgetInv'
    OBVIOUS
  <2>1. ReopenInv' /\ JobInv' /\ TypeOK'
    BY ReopenStep, JobInvStep DEF BudgetInv, JobInv
  <2>2. QED
    BY <2>1, AttemptBudgetStep, DeferralBudgetStep DEF BudgetInv
<1>3. BudgetInv => BudgetsHold
  <2> SUFFICES ASSUME BudgetInv, NEW e \in Emails
               PROVE  /\ attempts[e] <= MaxAttempts + 1 + flushes
                      /\ rescheduleCount[e] <= MaxReschedules + flushes
    BY DEF BudgetsHold
  <2>1. UnawareOfDeferrals(e) \subseteq Runs
    BY DEF UnawareOfDeferrals, InJob
  <2>2. Cardinality(UnawareOfDeferrals(e)) \in Nat
    BY <2>1, RunSets
  <2>3. rescheduleCount[e] \in Nat /\ flushes \in Nat /\ MaxReschedules \in Nat
    BY BudgetAssumption DEF BudgetInv, ReopenInv, TypeOK
  <2>4. rescheduleCount[e] + Cardinality(UnawareOfDeferrals(e)) <= MaxReschedules + flushes
    BY DEF BudgetInv, DeferralBudget
  <2>5. rescheduleCount[e] <= MaxReschedules + flushes
    BY <2>2, <2>3, <2>4
  <2>6. QED
    BY <2>5 DEF BudgetInv, AttemptBudget, AttemptsWithin
<1>4. QED
  BY <1>1, <1>2, <1>3, PTL DEF Spec
=============================================================================
