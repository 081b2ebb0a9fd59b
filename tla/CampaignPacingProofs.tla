------------------------- MODULE CampaignPacingProofs -------------------------
(* Proofs about the scheduling arithmetic and about campaigns that drain. *)
EXTENDS CampaignPacing, FiniteSetTheorems, FunctionTheorems, WellFoundedInduction, TLAPS

\* Division with remainder: what \div and % of an instant by the hour are.
LEMMA HourDivision ==
  ASSUME NEW at \in Int
  PROVE  /\ at \div HOUR_MS \in Int
         /\ at % HOUR_MS \in 0..HOUR_MS - 1
         /\ (at \div HOUR_MS) * HOUR_MS \in Int
         /\ (at \div HOUR_MS) * HOUR_MS <= at
         /\ at < (at \div HOUR_MS) * HOUR_MS + HOUR_MS
BY HourAssumption

\* The window id of an instant is the only multiple of the hour around it.
LEMMA WindowIsUnique ==
  ASSUME NEW k \in Int, NEW offset \in 0..HOUR_MS - 1
  PROVE  (k * HOUR_MS + offset) \div HOUR_MS = k
<1>1. HOUR_MS \in Int /\ HOUR_MS > 0
  BY HourAssumption
<1> DEFINE at == k * HOUR_MS + offset
           q == at \div HOUR_MS
<1>2. at \in Int /\ q \in Int /\ q * HOUR_MS <= at /\ at < (q + 1) * HOUR_MS
  BY <1>1, HourDivision
<1>3. ASSUME q < k PROVE FALSE
  BY <1>1, <1>2, <1>3
<1>4. ASSUME q > k PROVE FALSE
  BY <1>1, <1>2, <1>4
<1>5. QED
  BY <1>2, <1>3, <1>4

\* Every instant lies in its window, whose successor begins within one hour
\* (msUntilNextWindow, "Always >= 1", scheduling.ts:26).
THEOREM WaitIsPositive ==
  ASSUME NEW at \in Int
  PROVE  /\ hourWindowStart(at) <= at
         /\ msUntilNextWindow(at) \in 1..HOUR_MS
         /\ at + msUntilNextWindow(at) = nextHourWindowStart(at)
<1> DEFINE start == (at \div HOUR_MS) * HOUR_MS
<1>1. HOUR_MS \in Int /\ start \in Int /\ start <= at /\ at < start + HOUR_MS
  BY HourDivision, HourAssumption
<1>2. hourWindowStart(at) = start /\ nextHourWindowStart(at) = start + HOUR_MS
  BY DEF hourWindowStart, nextHourWindowStart
<1> HIDE DEF start
<1>3. msUntilNextWindow(at) = start + HOUR_MS - at
  BY <1>1, <1>2 DEF msUntilNextWindow, Larger
<1>4. QED
  BY <1>1, <1>2, <1>3

\* A deferred job lands in the window after the current one and never spills past
\* it, whatever its position (rescheduleTarget, scheduling.ts:96).
THEOREM TargetInNextWindow ==
  ASSUME NEW at \in Int, NEW seq \in Nat, NEW minDelayMs \in Nat
  PROVE  /\ rescheduleTarget(at, seq, minDelayMs) \in Int
         /\ rescheduleTarget(at, seq, minDelayMs) > at
         /\ hourWindowId(rescheduleTarget(at, seq, minDelayMs)) = hourWindowId(at) + 1
<1> DEFINE k == at \div HOUR_MS
           offset == IF minDelayMs > 0 THEN (seq * minDelayMs) % HOUR_MS ELSE 0
<1>1. k \in Int /\ at < (k + 1) * HOUR_MS
  BY HourDivision, HourAssumption
<1>2. offset \in 0..HOUR_MS - 1
  <2>1. seq * minDelayMs \in Int
    OBVIOUS
  <2>2. (seq * minDelayMs) % HOUR_MS \in 0..HOUR_MS - 1
    BY <2>1, HourDivision
  <2>3. QED
    BY <2>2, HourAssumption
<1>3. rescheduleTarget(at, seq, minDelayMs) = (k + 1) * HOUR_MS + offset
  BY <1>1, <1>2, HourAssumption
     DEF rescheduleTarget, nextHourWindowStart, hourWindowStart
<1>4. ((k + 1) * HOUR_MS + offset) \div HOUR_MS = k + 1
  BY <1>1, <1>2, WindowIsUnique
<1> HIDE DEF k, offset
<1>5. hourWindowId(rescheduleTarget(at, seq, minDelayMs)) = k + 1
  BY <1>3, <1>4 DEF hourWindowId
<1>6. hourWindowId(at) = k
  BY DEF hourWindowId, k
<1>7. (k + 1) * HOUR_MS + offset \in Int /\ (k + 1) * HOUR_MS + offset > at
  BY <1>1, <1>2, HourAssumption
<1>8. QED
  BY <1>3, <1>5, <1>6, <1>7

\* Jobs deferred from the same window keep their order, as long as the positions
\* times the spacing stay within one hour (rescheduleTarget, scheduling.ts:94).
THEOREM TargetsKeepOrder ==
  ASSUME NEW at1 \in Int, NEW at2 \in Int, hourWindowId(at1) = hourWindowId(at2),
         NEW seq1 \in Nat, NEW seq2 \in Nat, seq1 < seq2,
         NEW minDelayMs \in Nat \ {0}, seq2 * minDelayMs < HOUR_MS
  PROVE  rescheduleTarget(at1, seq1, minDelayMs) < rescheduleTarget(at2, seq2, minDelayMs)
<1>1. /\ seq1 * minDelayMs \in Nat /\ seq2 * minDelayMs \in Nat
      /\ seq1 * minDelayMs < seq2 * minDelayMs
  OBVIOUS
<1>2. ASSUME NEW n \in Nat, n < HOUR_MS PROVE n % HOUR_MS = n
  BY <1>2, HourAssumption
<1>3. /\ (seq1 * minDelayMs) % HOUR_MS = seq1 * minDelayMs
      /\ (seq2 * minDelayMs) % HOUR_MS = seq2 * minDelayMs
  <2>1. HOUR_MS \in Int
    BY HourAssumption
  <2>2. seq1 * minDelayMs < HOUR_MS
    BY <1>1, <2>1
  <2>3. QED
    BY <1>1, <1>2, <2>2
<1>4. nextHourWindowStart(at1) = nextHourWindowStart(at2) /\ nextHourWindowStart(at1) \in Int
  <2>1. nextHourWindowStart(at1) = nextHourWindowStart(at2)
    BY DEF nextHourWindowStart, hourWindowStart, hourWindowId
  <2>2. (at1 \div HOUR_MS) * HOUR_MS \in Int /\ HOUR_MS \in Int
    BY HourDivision, HourAssumption
  <2>3. QED
    BY <2>1, <2>2 DEF nextHourWindowStart, hourWindowStart
<1>5. /\ rescheduleTarget(at1, seq1, minDelayMs) = nextHourWindowStart(at1) + seq1 * minDelayMs
      /\ rescheduleTarget(at2, seq2, minDelayMs) = nextHourWindowStart(at2) + seq2 * minDelayMs
  BY <1>3 DEF rescheduleTarget
<1>6. ASSUME NEW a \in Int, NEW b \in Nat, NEW c \in Nat, b < c
      PROVE  a + b < a + c
  BY <1>6
<1>7. nextHourWindowStart(at1) + seq1 * minDelayMs < nextHourWindowStart(at1) + seq2 * minDelayMs
  BY <1>1, <1>4, <1>6
<1>8. QED
  BY <1>4, <1>5, <1>7

------------------------------------------------------------------------------
(* The state machine. *)

\* The sets the state is typed with; instants are natural numbers.
LEMMA PacingTypingInit == Init => TypeOK
<1> SUFFICES ASSUME Init PROVE TypeOK
  OBVIOUS
<1>1. \A r \in Rows : r[1] \in Campaigns /\ r[2] \in Nat
  BY PacingAssumption DEF Init, Rows, RowsOf
<1>2. ASSUME NEW r \in Rows
      PROVE  scheduledAtForSeq(startAt[r[1]], r[2], delayBetweenMs[r[1]]) \in Nat
  <2>1. startAt[r[1]] \in Starts /\ delayBetweenMs[r[1]] \in Delays
    BY <1>1 DEF Init
  <2>2. startAt[r[1]] \in Nat /\ delayBetweenMs[r[1]] \in Nat /\ r[2] \in Nat
    BY <1>1, <2>1, PacingAssumption
  <2>3. QED
    BY <2>2 DEF scheduledAtForSeq
<1>3. used \in [Senders -> [Windows -> Nat]] /\ globalUsed \in [Windows -> Nat]
  <2> DEFINE none == [h \in Windows |-> 0]
  <2>1. none \in [Windows -> Nat]
    OBVIOUS
  <2>2. used = [s \in Senders |-> none] /\ globalUsed = none
    BY DEF Init
  <2> HIDE DEF none
  <2>3. QED
    BY <2>1, <2>2
<1>4. /\ state \in [Rows -> {"waiting", "sent", "failed"}]
      /\ due \in [Rows -> Nat] /\ rescheduleCount \in [Rows -> Nat]
      /\ sentAt \in [Rows -> Nat \cup {Never}]
      /\ \A r \in Rows : state[r] = "sent" <=> sentAt[r] # Never
  BY <1>2 DEF Init
<1>5. now \in 0..MaxClock /\ limiterFreeAt \in Nat
  BY PacingAssumption DEF Init
<1>6. QED
  BY <1>3, <1>4, <1>5 DEF Init, TypeOK

\* What a step may assume of the row it handles, and of the rows as a set.
LEMMA RowFacts ==
  ASSUME TypeOK, NEW r \in Rows
  PROVE  r[1] \in Campaigns /\ r[2] \in Nat /\ startAt[r[1]] \in Nat
BY PacingAssumption DEF TypeOK, Rows, RowsOf

\* A deferral lands at a natural instant of the next window.
LEMMA DeferralTarget ==
  ASSUME TypeOK, NEW r \in Rows
  PROVE  /\ rescheduleTarget(now, r[2], MinDelay) \in Nat
         /\ hourWindowId(rescheduleTarget(now, r[2], MinDelay)) = hourWindowId(now) + 1
<1>1. now \in Int /\ now >= 0 /\ r[2] \in Nat /\ MinDelay \in Nat
  BY RowFacts, PacingAssumption DEF TypeOK
<1>2. /\ rescheduleTarget(now, r[2], MinDelay) \in Int
      /\ rescheduleTarget(now, r[2], MinDelay) > now
      /\ hourWindowId(rescheduleTarget(now, r[2], MinDelay)) = hourWindowId(now) + 1
  BY <1>1, TargetInNextWindow
<1>3. QED
  BY <1>1, <1>2

\* A reservation keeps the counters' types.
LEMMA ReserveTyping ==
  ASSUME TypeOK, NEW s, Reserve(s)
  PROVE  used' \in [Senders -> [Windows -> Nat]] /\ globalUsed' \in [Windows -> Nat]
<1> DEFINE w == hourWindowId(now)
<1>1. used \in [Senders -> [Windows -> Nat]] /\ globalUsed \in [Windows -> Nat]
  BY DEF TypeOK
<1>2. ASSUME NEW f \in [Windows -> Nat] PROVE [f EXCEPT ![w] = @ + 1] \in [Windows -> Nat]
  <2> DEFINE v == f[w] + 1
  <2>1. CASE w \in Windows
    <3>1. v \in Nat
      BY <2>1
    <3> HIDE DEF v
    <3>2. [f EXCEPT ![w] = v] \in [Windows -> Nat]
      BY <3>1
    <3>3. QED
      BY <3>2 DEF v
  <2>2. CASE w \notin Windows
    <3> HIDE DEF v
    <3>1. [f EXCEPT ![w] = v] \in [Windows -> Nat]
      BY <2>2
    <3>2. QED
      BY <3>1 DEF v
  <2>3. QED
    BY <2>1, <2>2
<1>3. globalUsed' \in [Windows -> Nat]
  BY <1>1, <1>2 DEF Reserve
<1>4. used' \in [Senders -> [Windows -> Nat]]
  <2>1. used' = [used EXCEPT ![s] = [used[s] EXCEPT ![w] = used[s][w] + 1]]
    BY DEF Reserve
  <2>2. CASE s \in Senders
    <3> DEFINE g == [used[s] EXCEPT ![w] = used[s][w] + 1]
    <3>1. used[s] \in [Windows -> Nat]
      BY <1>1, <2>2
    <3>2. g \in [Windows -> Nat]
      BY <1>2, <3>1
    <3> HIDE DEF g
    <3>3. [used EXCEPT ![s] = g] \in [Senders -> [Windows -> Nat]]
      BY <1>1, <3>2
    <3>4. QED
      BY <2>1, <3>3 DEF g
  <2>3. CASE s \notin Senders
    BY <1>1, <2>1, <2>3
  <2>4. QED
    BY <2>2, <2>3
<1>5. QED
  BY <1>3, <1>4

\* Every step keeps the types.
LEMMA PacingTypingStep == TypeOK /\ [Next]_vars => TypeOK'
<1> SUFFICES ASSUME TypeOK, [Next]_vars PROVE TypeOK'
  OBVIOUS
<1>1. CASE UNCHANGED vars
  <2>1. Rows' = Rows
    BY <1>1 DEF vars, paramVars, Rows, RowsOf
  <2>2. QED
    BY <1>1, <2>1 DEF TypeOK, vars, paramVars, rowVars, quotaVars
<1>2. ASSUME NEW r \in Rows, Send(r) \/ DeferToNextWindow(r) \/ DeferExhausted(r)
      PROVE  TypeOK'
  <2>1. Rows' = Rows /\ UNCHANGED <<paramVars, now>>
    BY <1>2 DEF Send, DeferToNextWindow, DeferExhausted, paramVars, Rows, RowsOf
  <2>2. now \in Nat /\ now + MinDelay \in Nat /\ now # Never
    BY PacingAssumption DEF TypeOK
  <2>3. CASE Send(r)
    <3>1. /\ state' \in [Rows -> {"waiting", "sent", "failed"}]
          /\ sentAt' \in [Rows -> Nat \cup {Never}]
          /\ \A q \in Rows : state'[q] = "sent" <=> sentAt'[q] # Never
      BY <2>2, <2>3 DEF Send, TypeOK
    <3>2. used' \in [Senders -> [Windows -> Nat]] /\ globalUsed' \in [Windows -> Nat]
      <4>1. PICK s \in Carriers(r[1], hourWindowId(now)) : Reserve(s)
        BY <2>3 DEF Send
      <4>2. QED
        BY <4>1, ReserveTyping
    <3>3. /\ UNCHANGED <<paramVars, now, due, rescheduleCount>>
          /\ limiterFreeAt' \in Nat
      BY <2>2, <2>3 DEF Send, paramVars
    <3>4. QED
      BY <2>1, <3>1, <3>2, <3>3 DEF TypeOK, paramVars
  <2>4. CASE DeferToNextWindow(r)
    <3>1. due' \in [Rows -> Nat]
      BY <2>4, DeferralTarget DEF DeferToNextWindow, TypeOK
    <3>2. QED
      BY <2>1, <2>2, <2>4, <3>1 DEF DeferToNextWindow, TypeOK, paramVars, quotaVars
  <2>5. CASE DeferExhausted(r)
    <3>1. state[r] = "waiting"
      BY <2>5 DEF DeferExhausted, MayStart
    <3>2. QED
      BY <2>1, <2>2, <2>5, <3>1 DEF DeferExhausted, TypeOK, paramVars, quotaVars
  <2>6. QED
    BY <1>2, <2>3, <2>4, <2>5
<1>3. CASE Tick
  <2>1. Rows' = Rows
    BY <1>3 DEF Tick, paramVars, Rows, RowsOf
  <2>2. now' \in 0..MaxClock
    BY <1>3, PacingAssumption DEF Tick, TypeOK
  <2>3. QED
    BY <1>3, <2>1, <2>2 DEF Tick, TypeOK, paramVars, rowVars, quotaVars
<1>4. QED
  BY <1>1, <1>2, <1>3 DEF Next

\* Every reachable state is well typed, for every set of campaigns and every
\* length of the hour (deferToNextWindow, emailWorker.ts:306).
THEOREM PacingTyping == Spec => []TypeOK
<1>1. QED
  BY PacingTypingInit, PacingTypingStep, PTL DEF Spec

\* Each deferral moves a job into a later window than any of its instants so far:
\* the counter is never ahead of the windows that have passed.
CountIsHours ==
    \A r \in Rows :
        rescheduleCount[r] <= hourWindowId(due[r]) - hourWindowId(startAt[r[1]])
HoursInv == TypeOK /\ CountIsHours /\ FailedOnlyAfterHours

\* Later instants have no smaller window id.
LEMMA WindowsAscend ==
  ASSUME NEW a \in Int, NEW b \in Int, a <= b
  PROVE  hourWindowId(a) \in Int /\ hourWindowId(b) \in Int
         /\ hourWindowId(a) <= hourWindowId(b)
<1> DEFINE p == a \div HOUR_MS
           q == b \div HOUR_MS
<1>1. HOUR_MS \in Int /\ HOUR_MS > 0
  BY HourAssumption
<1>2. /\ p \in Int /\ p * HOUR_MS <= a
      /\ q \in Int /\ b < (q + 1) * HOUR_MS
  BY <1>1, HourDivision
<1>3. ASSUME p > q PROVE FALSE
  BY <1>1, <1>2, <1>3
<1>4. QED
  BY <1>2, <1>3 DEF hourWindowId

\* A campaign's emails are due no earlier than the campaign starts.
LEMMA HoursInit == Init => HoursInv
<1> SUFFICES ASSUME Init PROVE HoursInv
  OBVIOUS
<1>1. TypeOK
  BY PacingTypingInit
<1>2. ASSUME NEW r \in Rows
      PROVE  rescheduleCount[r] <= hourWindowId(due[r]) - hourWindowId(startAt[r[1]])
  <2>1. startAt[r[1]] \in Nat /\ delayBetweenMs[r[1]] \in Nat /\ r[2] \in Nat
    BY <1>1, RowFacts, PacingAssumption DEF TypeOK
  <2>2. due[r] \in Int /\ startAt[r[1]] <= due[r]
    BY <2>1 DEF Init, scheduledAtForSeq
  <2>3. QED
    BY <2>1, <2>2, WindowsAscend DEF Init
<1>3. QED
  BY <1>1, <1>2 DEF Init, HoursInv, CountIsHours, FailedOnlyAfterHours

\* Every step keeps HoursInv.
LEMMA HoursStep == HoursInv /\ [Next]_vars => HoursInv'
<1> SUFFICES ASSUME HoursInv, [Next]_vars PROVE HoursInv'
  OBVIOUS
<1>1. TypeOK /\ TypeOK'
  BY PacingTypingStep DEF HoursInv
<1>2. CASE UNCHANGED vars
  <2>1. Rows' = Rows
    BY <1>2 DEF vars, paramVars, Rows, RowsOf
  <2>2. QED
    BY <1>1, <1>2, <2>1 DEF HoursInv, CountIsHours, FailedOnlyAfterHours, vars,
       paramVars, rowVars, hourWindowId
<1>3. ASSUME NEW r \in Rows, Send(r) \/ DeferToNextWindow(r) \/ DeferExhausted(r)
      PROVE  HoursInv'
  <2>1. Rows' = Rows /\ startAt' = startAt /\ now' = now
    BY <1>3 DEF Send, DeferToNextWindow, DeferExhausted, paramVars, Rows, RowsOf
  <2>2. /\ now \in Int /\ due[r] \in Int /\ due[r] <= now /\ startAt[r[1]] \in Int
        /\ rescheduleCount[r] \in Nat
    BY <1>1, <1>3, RowFacts DEF TypeOK, Send, DeferToNextWindow, DeferExhausted, MayStart
  <2>3. /\ hourWindowId(due[r]) \in Int /\ hourWindowId(now) \in Int
        /\ hourWindowId(due[r]) <= hourWindowId(now)
        /\ hourWindowId(startAt[r[1]]) \in Int
    BY <2>2, WindowsAscend
  <2>4. rescheduleCount[r] <= hourWindowId(now) - hourWindowId(startAt[r[1]])
    BY <2>2, <2>3 DEF HoursInv, CountIsHours
  <2>5. CountIsHours'
    <3>1. CASE DeferToNextWindow(r)
      <4>1. ASSUME NEW q \in Rows
            PROVE  rescheduleCount'[q] <= hourWindowId(due'[q]) - hourWindowId(startAt[q[1]])
        <5>1. CASE q = r
          <6>1. /\ due'[r] = rescheduleTarget(now, r[2], MinDelay)
                /\ rescheduleCount'[r] = rescheduleCount[r] + 1
            BY <1>1, <3>1 DEF DeferToNextWindow, TypeOK
          <6>2. hourWindowId(due'[r]) = hourWindowId(now) + 1
            BY <1>1, <6>1, DeferralTarget
          <6>3. QED
            BY <2>2, <2>3, <2>4, <5>1, <6>1, <6>2
        <5>2. CASE q # r
          <6>1. due'[q] = due[q] /\ rescheduleCount'[q] = rescheduleCount[q]
            BY <1>1, <3>1, <5>2 DEF DeferToNextWindow, TypeOK
          <6>2. QED
            BY <6>1 DEF HoursInv, CountIsHours
        <5>3. QED
          BY <5>1, <5>2
      <4>2. QED
        BY <2>1, <4>1 DEF CountIsHours, hourWindowId
    <3>2. CASE Send(r) \/ DeferExhausted(r)
      <4>1. due' = due /\ rescheduleCount' = rescheduleCount
        BY <3>2 DEF Send, DeferExhausted
      <4>2. QED
        BY <2>1, <4>1 DEF HoursInv, CountIsHours, hourWindowId
    <3>3. QED
      BY <1>3, <3>1, <3>2
  <2>6. FailedOnlyAfterHours'
    <3>1. CASE DeferExhausted(r)
      <4>1. hourWindowId(now) >= hourWindowId(startAt[r[1]]) + MaxReschedules
        BY <2>2, <2>3, <2>4, <3>1, PacingAssumption DEF DeferExhausted
      <4>2. \A q \in Rows : q # r => state'[q] = state[q]
        BY <1>1, <3>1 DEF DeferExhausted, TypeOK
      <4>3. QED
        BY <2>1, <4>1, <4>2 DEF HoursInv, FailedOnlyAfterHours, hourWindowId
    <3>2. CASE Send(r) \/ DeferToNextWindow(r)
      <4>1. \A q \in Rows : state'[q] = "failed" => state[q] = "failed"
        BY <1>1, <3>2 DEF Send, DeferToNextWindow, TypeOK
      <4>2. QED
        BY <2>1, <4>1 DEF HoursInv, FailedOnlyAfterHours, hourWindowId
    <3>3. QED
      BY <1>3, <3>1, <3>2
  <2>7. QED
    BY <1>1, <2>5, <2>6 DEF HoursInv
<1>4. CASE Tick
  <2>1. /\ Rows' = Rows /\ startAt' = startAt /\ now' = now + 1
        /\ UNCHANGED <<state, due, rescheduleCount>>
    BY <1>4 DEF Tick, paramVars, rowVars, Rows, RowsOf
  <2>2. CountIsHours'
    BY <2>1 DEF HoursInv, CountIsHours, hourWindowId
  <2>3. /\ hourWindowId(now) \in Int /\ hourWindowId(now + 1) \in Int
        /\ hourWindowId(now) <= hourWindowId(now + 1)
    BY <1>1, WindowsAscend DEF TypeOK
  <2>4. ASSUME NEW r \in Rows, state[r] = "failed"
        PROVE  hourWindowId(now + 1) >= hourWindowId(startAt[r[1]]) + MaxReschedules
    <3>1. hourWindowId(startAt[r[1]]) \in Int /\ MaxReschedules \in Int
      BY <1>1, RowFacts, WindowsAscend, PacingAssumption
    <3>2. hourWindowId(now) >= hourWindowId(startAt[r[1]]) + MaxReschedules
      BY <2>4 DEF HoursInv, FailedOnlyAfterHours
    <3>3. QED
      BY <2>3, <3>1, <3>2
  <2>5. FailedOnlyAfterHours'
    BY <2>1, <2>4 DEF FailedOnlyAfterHours, hourWindowId
  <2>6. QED
    BY <1>1, <2>2, <2>5 DEF HoursInv
<1>5. QED
  BY <1>2, <1>3, <1>4 DEF Next

\* No email fails for want of quota before MAX_RESCHEDULES windows have passed
\* since its campaign started (deferToNextWindow, emailWorker.ts:316).
THEOREM BudgetIsHours == Spec => []FailedOnlyAfterHours
<1>1. HoursInv => FailedOnlyAfterHours
  BY DEF HoursInv
<1>2. QED
  BY HoursInit, HoursStep, <1>1, PTL DEF Spec

------------------------------------------------------------------------------
(* What has been sent, and what a deferral costs. *)

\* The emails of S that were sent in window h.
SentIn(S, h) == {q \in S : state[q] = "sent" /\ hourWindowId(sentAt[q]) = h}
\* The emails sent before window h.
SentBefore(h) == {q \in Rows : state[q] = "sent" /\ hourWindowId(sentAt[q]) < h}

\* A row is never due before its campaign's cadence, nor sent before it is due.
Dated ==
    \A r \in Rows :
        /\ due[r] >= scheduledAtForSeq(startAt[r[1]], r[2], delayBetweenMs[r[1]])
        /\ state[r] = "sent" => due[r] <= sentAt[r] /\ sentAt[r] <= now
\* The deployment's counter of a window is the number of emails sent in it, and no
\* sender's counter exceeds it.
Counted ==
    \A h \in Windows :
        /\ globalUsed[h] = Cardinality(SentIn(Rows, h))
        /\ \A s \in Senders : used[s][h] <= globalUsed[h]
\* Each deferral of a row was paid for with a window full of other emails.
DeferralsPaid ==
    \A r \in Rows :
        rescheduleCount[r] * FullWindow(r[1])
            <= Cardinality(SentBefore(hourWindowId(due[r])))
PaidInv == TypeOK /\ Dated /\ Counted /\ DeferralsPaid

\* Campaigns and their rows never change.
LEMMA SameRows ==
  ASSUME UNCHANGED paramVars
  PROVE  /\ Rows' = Rows
         /\ \A c \in Campaigns : RowsOf(c)' = RowsOf(c)
         /\ \A c \in Campaigns : FullWindow(c)' = FullWindow(c)
         /\ \A c \in Campaigns : ProjectedLimit(c)' = ProjectedLimit(c)
         /\ \A c \in Campaigns : senderId'[c] = senderId[c]
BY DEF paramVars, Rows, RowsOf, FullWindow, ProjectedLimit, resolveSenderLimit

\* A campaign has as many rows as it has recipients.
LEMMA CampaignRows ==
  ASSUME TypeOK, NEW c \in Campaigns
  PROVE  /\ RowsOf(c) \subseteq Rows /\ IsFiniteSet(RowsOf(c))
         /\ Cardinality(RowsOf(c)) = size[c] /\ size[c] \in Nat \ {0}
<1> DEFINE seqs == 0..size[c] - 1
           row == [seq \in seqs |-> <<c, seq>>]
<1>1. size[c] \in Nat \ {0}
  BY PacingAssumption DEF TypeOK
<1>2. IsFiniteSet(seqs) /\ Cardinality(seqs) = size[c]
  <2>1. 0 \in Int /\ size[c] - 1 \in Int /\ ~(0 > size[c] - 1)
    BY <1>1
  <2>2. IsFiniteSet(seqs) /\ Cardinality(seqs) = size[c] - 1 - 0 + 1
    BY <2>1, FS_Interval
  <2>3. QED
    BY <1>1, <2>2
<1>3. row \in Bijection(seqs, RowsOf(c))
  <2>1. row \in [seqs -> RowsOf(c)]
    BY DEF RowsOf
  <2>2. \A a, b \in seqs : row[a] = row[b] => a = b
    OBVIOUS
  <2>3. \A t \in RowsOf(c) : \E s \in seqs : row[s] = t
    BY DEF RowsOf
  <2> HIDE DEF row, seqs
  <2>4. row \in Injection(seqs, RowsOf(c))
    BY <2>1, <2>2 DEF Injection, IsInjective
  <2>5. row \in Surjection(seqs, RowsOf(c))
    BY <2>1, <2>3 DEF Surjection
  <2>6. QED
    BY <2>4, <2>5 DEF Bijection
<1>4. ExistsBijection(seqs, RowsOf(c))
  BY <1>3 DEF ExistsBijection
<1>5. IsFiniteSet(RowsOf(c)) /\ Cardinality(RowsOf(c)) = size[c]
  BY <1>2, <1>4, FS_Bijection
<1>6. QED
  BY <1>1, <1>5 DEF Rows

\* There are finitely many rows.
LEMMA RowsFinite == ASSUME IsFiniteSet(Campaigns), TypeOK PROVE IsFiniteSet(Rows)
<1> DEFINE parts == {RowsOf(c) : c \in Campaigns}
           part == [c \in Campaigns |-> RowsOf(c)]
<1>1. part \in Surjection(Campaigns, parts)
  BY DEF Surjection
<1>2. IsFiniteSet(parts)
  BY <1>1, FS_Surjection
<1>3. \A S \in parts : IsFiniteSet(S)
  BY CampaignRows
<1>4. IsFiniteSet(UNION parts)
  BY <1>2, <1>3, FS_UNION
<1>5. QED
  BY <1>4 DEF Rows

\* Sets of rows are finite, and a part of one is no larger.
LEMMA RowSets ==
  ASSUME IsFiniteSet(Campaigns), TypeOK, NEW S, NEW T, S \subseteq Rows, T \subseteq S
  PROVE  /\ IsFiniteSet(S) /\ IsFiniteSet(T)
         /\ Cardinality(S) \in Nat /\ Cardinality(T) \in Nat
         /\ Cardinality(T) <= Cardinality(S)
<1>1. IsFiniteSet(S)
  BY RowsFinite, FS_Subset
<1>2. IsFiniteSet(T) /\ Cardinality(T) <= Cardinality(S)
  BY <1>1, FS_Subset
<1>3. QED
  BY <1>1, <1>2, FS_CardinalityType

\* The limit of a campaign admits at least one email per window.
LEMMA LimitIsPositive ==
  ASSUME TypeOK, NEW c \in Campaigns
  PROVE  /\ senderId[c] \in Senders
         /\ \A s \in Senders : resolveSenderLimit(c, s) \in Nat \ {0}
         /\ FullWindow(c) \in Nat \ {0} /\ ProjectedLimit(c) \in Nat \ {0}
<1>1. senderId[c] \in Senders
  BY DEF TypeOK
<1>2. ASSUME NEW s \in Senders PROVE resolveSenderLimit(c, s) \in Nat \ {0}
  <2>1. hourlyLimit[c] \in Nat
    BY PacingAssumption DEF TypeOK
  <2>2. maxPerHour[s] \in Nat \ {0}
    BY PacingAssumption DEF TypeOK
  <2>3. QED
    BY <2>1, <2>2 DEF resolveSenderLimit, Smaller
<1>3. GlobalLimit \in Nat \ {0}
  BY PacingAssumption
<1>4. QED
  BY <1>1, <1>2, <1>3 DEF FullWindow, ProjectedLimit, Smaller

\* The running window is one of those that have a counter.
LEMMA NowHasCounter ==
  ASSUME TypeOK PROVE hourWindowId(now) \in Windows /\ hourWindowId(now) \in Nat
<1>1. now \in Int /\ 0 <= now /\ now <= MaxClock /\ MaxClock \in Int
  BY PacingAssumption DEF TypeOK
<1>2. hourWindowId(0) = 0
  <2>1. HOUR_MS \in Int /\ 0 \in 0..HOUR_MS - 1 /\ 0 * HOUR_MS + 0 = 0
    BY HourAssumption
  <2>2. (0 * HOUR_MS + 0) \div HOUR_MS = 0
    BY <2>1, WindowIsUnique
  <2>3. QED
    BY <2>1, <2>2 DEF hourWindowId
<1>3. /\ hourWindowId(now) \in Int /\ hourWindowId(MaxClock) \in Int
      /\ 0 <= hourWindowId(now) /\ hourWindowId(now) <= hourWindowId(MaxClock)
  BY <1>1, <1>2, WindowsAscend
<1>4. QED
  BY <1>3 DEF Windows

\* What a Send changes: one waiting row, which is due, joins the emails of the
\* running window.
LEMMA SendAdds ==
  ASSUME TypeOK, NEW r \in Rows, Send(r)
  PROVE  /\ UNCHANGED <<paramVars, now, due, rescheduleCount>>
         /\ state[r] = "waiting" /\ due[r] <= now
         /\ \A q \in Rows : /\ state'[q] = IF q = r THEN "sent" ELSE state[q]
                            /\ sentAt'[q] = IF q = r THEN now ELSE sentAt[q]
BY DEF Send, MayStart, TypeOK

\* ... on the account of a sender that had room, its own unless the deployment fails over.
LEMMA SendReserves ==
  ASSUME TypeOK, NEW r \in Rows, Send(r)
  PROVE  \E s \in Senders :
            /\ Admits(r[1], s, hourWindowId(now))
            /\ ~failover => s = senderId[r[1]]
            /\ \A h \in Windows :
                  /\ globalUsed'[h] =
                        IF h = hourWindowId(now) THEN globalUsed[h] + 1 ELSE globalUsed[h]
                  /\ \A p \in Senders :
                        used'[p][h] = IF p = s /\ h = hourWindowId(now)
                                      THEN used[p][h] + 1 ELSE used[p][h]
<1>1. PICK s \in Carriers(r[1], hourWindowId(now)) : Reserve(s)
  BY DEF Send
<1>2. s \in Senders
  BY RowFacts, LimitIsPositive, <1>1 DEF Carriers
<1>3. Admits(r[1], s, hourWindowId(now)) /\ (~failover => s = senderId[r[1]])
  BY <1>1 DEF Carriers
<1>4. ASSUME NEW h \in Windows, NEW p \in Senders
      PROVE  /\ globalUsed'[h] =
                   IF h = hourWindowId(now) THEN globalUsed[h] + 1 ELSE globalUsed[h]
             /\ used'[p][h] = IF p = s /\ h = hourWindowId(now)
                              THEN used[p][h] + 1 ELSE used[p][h]
  BY <1>1 DEF Reserve, TypeOK
<1>5. QED
  BY <1>2, <1>3, <1>4

\* What a refusal means: a window that is full, for the email's sender or for all.
LEMMA RefusedByFull ==
  ASSUME TypeOK, NEW c \in Campaigns, NEW h \in Windows, Carriers(c, h) = {},
         \A s \in Senders : used[s][h] <= globalUsed[h]
  PROVE  globalUsed[h] >= FullWindow(c)
<1>1. senderId[c] \in Senders /\ ~Admits(c, senderId[c], h)
  BY LimitIsPositive DEF Carriers
<1>2. /\ globalUsed[h] \in Nat /\ used[senderId[c]][h] \in Nat
      /\ used[senderId[c]][h] <= globalUsed[h]
      /\ GlobalLimit \in Nat /\ resolveSenderLimit(c, senderId[c]) \in Nat
  BY <1>1, LimitIsPositive, PacingAssumption DEF TypeOK
<1>3. QED
  BY <1>1, <1>2 DEF Admits, FullWindow, Smaller

\* ... in every set of rows that has it.
LEMMA SendJoins ==
  ASSUME TypeOK, NEW r \in Rows, Send(r), NEW S \in SUBSET Rows, NEW h
  PROVE  /\ r \notin SentIn(S, h)
         /\ {q \in S : state'[q] = "sent" /\ hourWindowId(sentAt'[q]) = h} =
              IF r \in S /\ h = hourWindowId(now) THEN SentIn(S, h) \cup {r} ELSE SentIn(S, h)
<1>1. state[r] = "waiting"
  BY SendAdds
<1>2. \A q \in S : /\ state'[q] = IF q = r THEN "sent" ELSE state[q]
                   /\ sentAt'[q] = IF q = r THEN now ELSE sentAt[q]
  BY SendAdds
<1>3. QED
  BY <1>1, <1>2 DEF SentIn
\* No step unsends an email or dates it anew.
LEMMA SentSticks ==
  ASSUME TypeOK, Next
  PROVE  /\ UNCHANGED paramVars
         /\ \A q \in Rows : state[q] = "sent" => state'[q] = "sent" /\ sentAt'[q] = sentAt[q]
<1>1. ASSUME NEW r \in Rows, Send(r)
      PROVE  /\ UNCHANGED paramVars
             /\ \A q \in Rows : state[q] = "sent" => state'[q] = "sent" /\ sentAt'[q] = sentAt[q]
  BY <1>1, SendAdds
<1>2. ASSUME NEW r \in Rows, DeferToNextWindow(r)
      PROVE  UNCHANGED <<paramVars, state, sentAt>>
  BY <1>2 DEF DeferToNextWindow
<1>3. ASSUME NEW r \in Rows, DeferExhausted(r)
      PROVE  /\ UNCHANGED paramVars
             /\ \A q \in Rows : state[q] = "sent" => state'[q] = "sent" /\ sentAt'[q] = sentAt[q]
  BY <1>3 DEF DeferExhausted, MayStart, TypeOK
<1>4. Tick => UNCHANGED <<paramVars, state, sentAt>>
  BY DEF Tick, rowVars
<1>5. QED
  BY <1>1, <1>2, <1>3, <1>4 DEF Next

\* The emails of past windows only become more.
LEMMA PastGrows ==
  ASSUME IsFiniteSet(Campaigns), TypeOK, Next, NEW h
  PROVE  /\ Cardinality(SentBefore(h)) \in Nat
         /\ Cardinality({q \in Rows : state'[q] = "sent" /\ hourWindowId(sentAt'[q]) < h}) \in Nat
         /\ Cardinality(SentBefore(h)) <=
              Cardinality({q \in Rows : state'[q] = "sent" /\ hourWindowId(sentAt'[q]) < h})
<1> DEFINE later == {q \in Rows : state'[q] = "sent" /\ hourWindowId(sentAt'[q]) < h}
<1>1. SentBefore(h) \subseteq later /\ later \subseteq Rows
  BY SentSticks DEF SentBefore
<1>2. QED
  BY <1>1, RowSets

\* Nothing has been sent or deferred yet.
LEMMA PaidInit == IsFiniteSet(Campaigns) /\ Init => PaidInv
<1> SUFFICES ASSUME IsFiniteSet(Campaigns), Init PROVE PaidInv
  OBVIOUS
<1>1. TypeOK
  BY PacingTypingInit
<1>2. \A r \in Rows : state[r] = "waiting" /\ rescheduleCount[r] = 0
  BY DEF Init
<1>3. Dated
  <2>1. \A r \in Rows : due[r] = scheduledAtForSeq(startAt[r[1]], r[2], delayBetweenMs[r[1]])
    BY DEF Init
  <2>2. \A r \in Rows : due[r] \in Int
    BY <1>1 DEF TypeOK
  <2>3. QED
    BY <1>2, <2>1, <2>2 DEF Dated
<1>4. Counted
  <2>1. \A h : SentIn(Rows, h) = {}
    BY <1>2 DEF SentIn
  <2>2. \A h \in Windows : globalUsed[h] = 0 /\ \A s \in Senders : used[s][h] = 0
    BY DEF Init
  <2>3. QED
    BY <2>1, <2>2, FS_EmptySet DEF Counted
<1>5. DeferralsPaid
  <2>1. ASSUME NEW r \in Rows
        PROVE  rescheduleCount[r] * FullWindow(r[1])
                 <= Cardinality(SentBefore(hourWindowId(due[r])))
    <3>1. FullWindow(r[1]) \in Nat
      BY <1>1, RowFacts, LimitIsPositive
    <3>2. Cardinality(SentBefore(hourWindowId(due[r]))) \in Nat
      BY <1>1, RowSets DEF SentBefore
    <3>3. QED
      BY <1>2, <3>1, <3>2
  <2>2. QED
    BY <2>1 DEF DeferralsPaid
<1>6. QED
  BY <1>1, <1>3, <1>4, <1>5 DEF PaidInv

\* Rows keep their dates: a deferral only moves one later, a Send dates it now.
LEMMA DatedStep == ASSUME TypeOK, Dated, Next PROVE Dated'
<1>1. /\ Rows' = Rows /\ startAt' = startAt /\ delayBetweenMs' = delayBetweenMs
      /\ TypeOK'
  <2>1. UNCHANGED paramVars
    BY SentSticks
  <2>2. QED
    BY <2>1, SameRows, PacingTypingStep DEF paramVars
<1>2. ASSUME NEW r \in Rows, Send(r) PROVE Dated'
  <2>1. now' = now /\ due' = due /\ due[r] <= now /\ now \in Int
    BY <1>2, SendAdds DEF TypeOK
  <2>2. \A q \in Rows : /\ state'[q] = IF q = r THEN "sent" ELSE state[q]
                        /\ sentAt'[q] = IF q = r THEN now ELSE sentAt[q]
    BY <1>2, SendAdds
  <2>3. QED
    BY <1>1, <2>1, <2>2 DEF Dated, scheduledAtForSeq
<1>3. ASSUME NEW r \in Rows, DeferToNextWindow(r) PROVE Dated'
  <2>1. /\ UNCHANGED <<now, state, sentAt>> /\ state[r] = "waiting" /\ due[r] <= now
        /\ \A q \in Rows : due'[q] = IF q = r THEN rescheduleTarget(now, r[2], MinDelay) ELSE due[q]
    BY <1>3 DEF DeferToNextWindow, MayStart, TypeOK
  <2>2. rescheduleTarget(now, r[2], MinDelay) \in Int /\ rescheduleTarget(now, r[2], MinDelay) > now
    <3>1. now \in Int /\ r[2] \in Nat /\ MinDelay \in Nat
      BY RowFacts, PacingAssumption DEF TypeOK
    <3>2. QED
      BY <3>1, TargetInNextWindow
  <2>3. /\ now \in Int /\ due[r] \in Int
        /\ scheduledAtForSeq(startAt[r[1]], r[2], delayBetweenMs[r[1]]) \in Int
    BY RowFacts, PacingAssumption DEF TypeOK, scheduledAtForSeq
  <2>4. due'[r] >= scheduledAtForSeq(startAt[r[1]], r[2], delayBetweenMs[r[1]])
    BY <2>1, <2>2, <2>3 DEF Dated
  <2>5. QED
    BY <1>1, <2>1, <2>4 DEF Dated, scheduledAtForSeq
<1>4. ASSUME NEW r \in Rows, DeferExhausted(r) PROVE Dated'
  <2>1. /\ UNCHANGED <<now, due, sentAt>>
        /\ \A q \in Rows : state'[q] = "sent" => state[q] = "sent"
    BY <1>4 DEF DeferExhausted, TypeOK
  <2>2. QED
    BY <1>1, <2>1 DEF Dated, scheduledAtForSeq
<1>5. CASE Tick
  <2>1. UNCHANGED <<state, due, sentAt>> /\ now' = now + 1 /\ now \in Int
    BY <1>5 DEF Tick, rowVars, TypeOK
  <2>2. \A r \in Rows : state[r] = "sent" => sentAt[r] \in Int
    BY DEF TypeOK
  <2>3. QED
    BY <1>1, <2>1, <2>2 DEF Dated, scheduledAtForSeq
<1>6. QED
  BY <1>2, <1>3, <1>4, <1>5 DEF Next

\* Only a Send adds an email to a window.
LEMMA OtherStepsSendNothing ==
  ASSUME TypeOK, Next, \A r \in Rows : ~Send(r)
  PROVE  /\ used' = used /\ globalUsed' = globalUsed
         /\ \A q \in Rows : state'[q] = "sent" <=> state[q] = "sent"
         /\ sentAt' = sentAt
<1>1. ASSUME NEW r \in Rows, DeferToNextWindow(r)
      PROVE  UNCHANGED <<quotaVars, state, sentAt>>
  BY <1>1 DEF DeferToNextWindow
<1>2. ASSUME NEW r \in Rows, DeferExhausted(r)
      PROVE  /\ UNCHANGED <<quotaVars, sentAt>>
             /\ \A q \in Rows : state'[q] = "sent" <=> state[q] = "sent"
  BY <1>2 DEF DeferExhausted, MayStart, TypeOK
<1>3. Tick => UNCHANGED <<quotaVars, state, sentAt>>
  BY DEF Tick, rowVars
<1>4. QED
  BY <1>1, <1>2, <1>3 DEF Next, quotaVars

\* The counter moves with the emails of its window.
LEMMA CountedStep == ASSUME IsFiniteSet(Campaigns), TypeOK, Counted, Next PROVE Counted'
<1>1. Rows' = Rows /\ Windows' = Windows
  BY SentSticks, SameRows DEF Windows
<1>2. ASSUME NEW r \in Rows, Send(r), NEW h \in Windows
      PROVE  /\ globalUsed'[h] =
                   Cardinality({q \in Rows : state'[q] = "sent" /\ hourWindowId(sentAt'[q]) = h})
             /\ \A s \in Senders : used'[s][h] <= globalUsed'[h]
  <2>1. /\ r \notin SentIn(Rows, h)
        /\ {q \in Rows : state'[q] = "sent" /\ hourWindowId(sentAt'[q]) = h} =
             IF h = hourWindowId(now) THEN SentIn(Rows, h) \cup {r} ELSE SentIn(Rows, h)
    BY <1>2, SendJoins
  <2>2. PICK s \in Senders :
           /\ globalUsed'[h] =
                 IF h = hourWindowId(now) THEN globalUsed[h] + 1 ELSE globalUsed[h]
           /\ \A p \in Senders :
                 used'[p][h] = IF p = s /\ h = hourWindowId(now)
                               THEN used[p][h] + 1 ELSE used[p][h]
    BY <1>2, SendReserves
  <2>3. IsFiniteSet(SentIn(Rows, h))
    BY RowSets DEF SentIn
  <2>4. Cardinality(SentIn(Rows, h) \cup {r}) = Cardinality(SentIn(Rows, h)) + 1
    BY <2>1, <2>3, FS_AddElement
  <2>5. \A p \in Senders : /\ used[p][h] \in Nat /\ globalUsed[h] \in Nat
                            /\ used[p][h] <= globalUsed[h]
    BY DEF TypeOK, Counted
  <2>6. \A p \in Senders : used'[p][h] <= globalUsed'[h]
    BY <2>2, <2>5
  <2>7. QED
    BY <2>1, <2>2, <2>4, <2>6 DEF Counted
<1>3. ASSUME NEW r \in Rows, Send(r) PROVE Counted'
  BY <1>1, <1>2, <1>3 DEF Counted, SentIn, hourWindowId
<1>4. CASE \A r \in Rows : ~Send(r)
  <2>1. \A h : {q \in Rows : state'[q] = "sent" /\ hourWindowId(sentAt'[q]) = h} = SentIn(Rows, h)
    BY <1>4, OtherStepsSendNothing DEF SentIn
  <2>2. \A h \in Windows :
          /\ globalUsed'[h] =
                Cardinality({q \in Rows : state'[q] = "sent" /\ hourWindowId(sentAt'[q]) = h})
          /\ \A s \in Senders : used'[s][h] <= globalUsed'[h]
    BY <1>4, <2>1, OtherStepsSendNothing DEF Counted
  <2>3. QED
    BY <1>1, <2>2 DEF Counted, SentIn, hourWindowId
<1>5. QED
  BY <1>3, <1>4

\* A deferral is refused by a window that is full: its emails, and those that paid
\* for the earlier deferrals, have all been sent before the window it lands in.
LEMMA DeferralIsPaid ==
  ASSUME IsFiniteSet(Campaigns), PaidInv, NEW r \in Rows, DeferToNextWindow(r)
  PROVE  (rescheduleCount[r] + 1) * FullWindow(r[1])
           <= Cardinality(SentBefore(hourWindowId(now) + 1))
<1> DEFINE w == hourWindowId(now)
           L == FullWindow(r[1])
           before == SentBefore(hourWindowId(due[r]))
           full == SentIn(Rows, w)
<1>1. TypeOK
  BY DEF PaidInv
<1>2. w \in Windows /\ w \in Nat
  BY <1>1, NowHasCounter
<1>3. L \in Nat /\ rescheduleCount[r] \in Nat
  BY <1>1, RowFacts, LimitIsPositive DEF TypeOK
<1>4. hourWindowId(due[r]) \in Int /\ hourWindowId(due[r]) <= w
  <2>1. due[r] \in Int /\ now \in Int /\ due[r] <= now
    BY <1>1 DEF TypeOK, DeferToNextWindow, MayStart
  <2>2. QED
    BY <2>1, WindowsAscend
<1>5. ASSUME NEW q \in Rows, state[q] = "sent" PROVE hourWindowId(sentAt[q]) \in Int
  <2>1. sentAt[q] \in Int
    BY <1>1, <1>5 DEF TypeOK
  <2>2. QED
    BY <2>1, WindowsAscend
<1> DEFINE d == hourWindowId(due[r])
<1>6. before = SentBefore(d)
  OBVIOUS
<1> HIDE DEF w, d
<1>7. before \cap full = {}
  BY <1>2, <1>4, <1>5, <1>6 DEF SentBefore, SentIn, d, w
<1>8. before \cup full \subseteq SentBefore(w + 1) /\ SentBefore(w + 1) \subseteq Rows
  BY <1>2, <1>4, <1>5, <1>6 DEF SentBefore, SentIn, d, w
<1> HIDE DEF L, before, full
<1>9. /\ IsFiniteSet(before) /\ IsFiniteSet(full)
      /\ Cardinality(before) \in Nat /\ Cardinality(full) \in Nat
      /\ Cardinality(before \cup full) \in Nat /\ Cardinality(SentBefore(w + 1)) \in Nat
      /\ Cardinality(before \cup full) <= Cardinality(SentBefore(w + 1))
  <2>1. before \subseteq Rows /\ full \subseteq Rows
    BY DEF before, full, SentBefore, SentIn
  <2>2. QED
    BY <1>1, <1>8, <2>1, RowSets
<1>10. Cardinality(before \cup full) = Cardinality(before) + Cardinality(full)
  <2>1. Cardinality(before \cup full)
          = Cardinality(before) + Cardinality(full) - Cardinality(before \cap full)
    BY <1>9, FS_Union
  <2>2. Cardinality(before \cap full) = 0
    BY <1>7, FS_EmptySet
  <2>3. QED
    BY <1>9, <2>1, <2>2
<1>11. L <= Cardinality(full)
  <2>1. /\ globalUsed[w] = Cardinality(full)
        /\ \A s \in Senders : used[s][w] <= globalUsed[w]
    BY <1>2 DEF PaidInv, Counted, full
  <2>2. Carriers(r[1], w) = {}
    BY DEF DeferToNextWindow, HasQuota, w
  <2>3. QED
    BY <1>1, <1>2, <2>1, <2>2, RowFacts, RefusedByFull DEF L
<1>12. rescheduleCount[r] * L <= Cardinality(before)
  BY DEF PaidInv, DeferralsPaid, L, before
<1>13. (rescheduleCount[r] + 1) * L = rescheduleCount[r] * L + L /\ rescheduleCount[r] * L \in Nat
  BY <1>3 DEF L
<1>14. (rescheduleCount[r] + 1) * L <= Cardinality(SentBefore(w + 1))
  <2>1. L \in Nat
    BY <1>3 DEF L
  <2>2. QED
    BY <1>9, <1>10, <1>11, <1>12, <1>13, <2>1
<1>15. QED
  BY <1>14 DEF L, w

\* Every step keeps the deferrals paid.
LEMMA PaidStep == IsFiniteSet(Campaigns) /\ PaidInv /\ [Next]_vars => PaidInv'
<1> SUFFICES ASSUME IsFiniteSet(Campaigns), PaidInv, [Next]_vars PROVE PaidInv'
  OBVIOUS
<1>1. TypeOK /\ TypeOK'
  BY PacingTypingStep DEF PaidInv
<1>2. CASE UNCHANGED vars
  <2>1. /\ UNCHANGED <<startAt, delayBetweenMs, now, state, due, rescheduleCount, sentAt, used,
                        globalUsed>>
        /\ UNCHANGED paramVars
    BY <1>2 DEF vars, paramVars, rowVars, quotaVars
  <2>2. /\ Rows' = Rows
        /\ \A r \in Rows : FullWindow(r[1])' = FullWindow(r[1])
    BY <1>1, <2>1, SameRows, RowFacts
  <2>3. Dated'
    BY <2>1, <2>2 DEF PaidInv, Dated, scheduledAtForSeq
  <2>4. Counted'
    BY <2>1, <2>2 DEF PaidInv, Counted, SentIn, Windows, hourWindowId
  <2>5. DeferralsPaid'
    BY <2>1, <2>2 DEF PaidInv, DeferralsPaid, SentBefore, hourWindowId
  <2>6. QED
    BY <1>1, <2>3, <2>4, <2>5 DEF PaidInv
<1>3. CASE Next
  <2>1. /\ Rows' = Rows
        /\ \A r \in Rows : FullWindow(r[1])' = FullWindow(r[1])
    BY <1>1, <1>3, SentSticks, SameRows, RowFacts
  <2>2. ASSUME NEW q \in Rows
        PROVE  rescheduleCount'[q] * FullWindow(q[1])
                 <= Cardinality({p \in Rows : state'[p] = "sent"
                                   /\ hourWindowId(sentAt'[p]) < hourWindowId(due'[q])})
    <3> DEFINE past == {p \in Rows : state'[p] = "sent"
                          /\ hourWindowId(sentAt'[p]) < hourWindowId(due'[q])}
    <3>1. rescheduleCount[q] \in Nat /\ FullWindow(q[1]) \in Nat
      BY <1>1, RowFacts, LimitIsPositive DEF TypeOK
    <3>2. /\ Cardinality(SentBefore(hourWindowId(due'[q]))) \in Nat /\ Cardinality(past) \in Nat
          /\ Cardinality(SentBefore(hourWindowId(due'[q]))) <= Cardinality(past)
      BY <1>1, <1>3, PastGrows
    <3>3. rescheduleCount'[q] * FullWindow(q[1])
            <= Cardinality(SentBefore(hourWindowId(due'[q])))
      <4>1. CASE rescheduleCount'[q] = rescheduleCount[q] /\ due'[q] = due[q]
        BY <4>1 DEF PaidInv, DeferralsPaid
      <4>2. CASE DeferToNextWindow(q)
        <5>1. /\ rescheduleCount'[q] = rescheduleCount[q] + 1
              /\ due'[q] = rescheduleTarget(now, q[2], MinDelay)
          BY <1>1, <4>2 DEF DeferToNextWindow, TypeOK
        <5>2. hourWindowId(due'[q]) = hourWindowId(now) + 1
          BY <1>1, <5>1, DeferralTarget
        <5>3. QED
          BY <4>2, <5>1, <5>2, DeferralIsPaid
      <4>3. ASSUME NEW r \in Rows, r # q, DeferToNextWindow(r)
            PROVE  rescheduleCount'[q] = rescheduleCount[q] /\ due'[q] = due[q]
        BY <1>1, <4>3 DEF DeferToNextWindow, TypeOK
      <4>4. ASSUME NEW r \in Rows, Send(r) \/ DeferExhausted(r)
            PROVE  rescheduleCount'[q] = rescheduleCount[q] /\ due'[q] = due[q]
        BY <4>4 DEF Send, DeferExhausted
      <4>5. CASE Tick
        BY <4>1, <4>5 DEF Tick, rowVars
      <4>6. QED
        BY <1>3, <4>1, <4>2, <4>3, <4>4, <4>5 DEF Next
    <3>4. rescheduleCount'[q] \in Nat
      BY <1>1, <2>1 DEF TypeOK
    <3>5. rescheduleCount'[q] * FullWindow(q[1]) \in Nat
      BY <3>1, <3>4
    <3>6. QED
      BY <3>2, <3>3, <3>5
  <2>3. DeferralsPaid'
    BY <2>1, <2>2 DEF DeferralsPaid, SentBefore, hourWindowId
  <2>4. Dated' /\ Counted'
    BY <1>1, <1>3, DatedStep, CountedStep DEF PaidInv
  <2>5. QED
    BY <1>1, <2>3, <2>4 DEF PaidInv
<1>4. QED
  BY <1>2, <1>3

\* No email is deferred more often than the other emails can have filled windows, of
\* its sender or of the deployment: a deferral always lets others through
\* (emailWorker.ts:316).
THEOREM DeferralsAreBounded == IsFiniteSet(Campaigns) => (Spec => []DeferralsBounded)
<1> SUFFICES ASSUME IsFiniteSet(Campaigns) PROVE Spec => []DeferralsBounded
  OBVIOUS
<1>1. ASSUME PaidInv PROVE DeferralsBounded
  <2>1. TypeOK
    BY <1>1 DEF PaidInv
  <2>2. ASSUME NEW r \in Rows
        PROVE  rescheduleCount[r] * FullWindow(r[1]) < Cardinality(Rows)
    <3> DEFINE before == SentBefore(hourWindowId(due[r]))
    <3>1. r \notin before
      <4>1. ASSUME state[r] = "sent"
            PROVE  ~(hourWindowId(sentAt[r]) < hourWindowId(due[r]))
        <5>1. sentAt[r] \in Int /\ due[r] \in Int /\ due[r] <= sentAt[r]
          BY <1>1, <2>1, <4>1 DEF PaidInv, Dated, TypeOK
        <5>2. /\ hourWindowId(due[r]) \in Int /\ hourWindowId(sentAt[r]) \in Int
              /\ hourWindowId(due[r]) <= hourWindowId(sentAt[r])
          BY <5>1, WindowsAscend
        <5>3. QED
          BY <5>2
      <4>2. QED
        BY <4>1 DEF SentBefore
    <3>2. before \subseteq Rows \ {r} /\ Rows \ {r} \subseteq Rows
      BY <3>1 DEF SentBefore
    <3>3. /\ Cardinality(before) \in Nat /\ Cardinality(Rows \ {r}) \in Nat
          /\ Cardinality(before) <= Cardinality(Rows \ {r})
      BY <2>1, <3>2, RowSets
    <3>4. Cardinality(Rows \ {r}) = Cardinality(Rows) - 1 /\ Cardinality(Rows) \in Nat
      BY <2>1, RowsFinite, FS_RemoveElement, FS_CardinalityType
    <3>5. rescheduleCount[r] * FullWindow(r[1]) <= Cardinality(before)
      BY <1>1 DEF PaidInv, DeferralsPaid
    <3>6. rescheduleCount[r] * FullWindow(r[1]) \in Nat
      <4>1. rescheduleCount[r] \in Nat /\ FullWindow(r[1]) \in Nat
        BY <2>1, RowFacts, LimitIsPositive DEF TypeOK
      <4>2. QED
        BY <4>1
    <3> HIDE DEF before
    <3>7. QED
      BY <3>3, <3>4, <3>5, <3>6
  <2>3. QED
    BY <2>2 DEF DeferralsBounded
<1>2. QED
  BY PaidInit, PaidStep, <1>1, PTL DEF Spec
------------------------------------------------------------------------------
(* The projected completion. *)

\* The emails of a campaign that were sent.
SentOf(c) == {q \in RowsOf(c) : state[q] = "sent"}

\* A window holds no more of a campaign's emails than its limit; so by any window
\* the campaign has at most that many for each window since it began, and one of
\* its emails was sent late enough to make room for all of them.
Paced ==
    \A c \in Campaigns :
        LET limit == ProjectedLimit(c)
            begun == hourWindowId(startAt[c])
            this  == Cardinality(SentIn(RowsOf(c), hourWindowId(now)))
            n     == Cardinality(SentOf(c))
        IN /\ this <= limit
           /\ SentOf(c) # {} =>
                 /\ begun <= hourWindowId(now)
                 /\ n <= limit * (hourWindowId(now) - begun) + this
                 /\ \E r \in SentOf(c) : n <= limit * (hourWindowId(sentAt[r]) - begun + 1)
\* Without failover a sender's counter covers the emails of each of its campaigns.
OwnCounted ==
    ~failover =>
        \A c \in Campaigns : \A h \in Windows :
            Cardinality(SentIn(RowsOf(c), h)) <= used[senderId[c]][h]
PacedInv == PaidInv /\ OwnCounted /\ Paced

\* A factor keeps the order.
LEMMA TimesMonotone ==
  ASSUME NEW L \in Nat, NEW a \in Int, NEW b \in Int, a <= b PROVE L * a <= L * b
<1>1. b - a \in Nat /\ L * (b - a) \in Nat /\ L * b = L * a + L * (b - a)
  OBVIOUS
<1>2. L * a \in Int /\ L * b \in Int
  OBVIOUS
<1>3. QED
  BY <1>1, <1>2

\* The windows projectCampaign counts are the least that hold the campaign.
LEMMA WindowsAreLeast ==
  ASSUME NEW n \in Nat, NEW L \in Nat \ {0}, NEW k \in Int, n <= L * k
  PROVE  (n + L - 1) \div L \in Int /\ (n + L - 1) \div L <= k
<1> DEFINE p == n + L - 1
           q == p \div L
<1>1. p \in Int /\ q \in Int /\ q * L <= p
  OBVIOUS
<1>2. ASSUME q > k PROVE FALSE
  <2>1. L * (k + 1) <= L * q
    BY <1>1, <1>2, TimesMonotone
  <2>2. L * (k + 1) = L * k + L /\ L * k \in Int /\ L * q = q * L
    BY <1>1
  <2>3. QED
    BY <1>1, <2>1, <2>2
<1>3. QED
  BY <1>1, <1>2

\* What the sets of a campaign's emails are.
LEMMA CampaignSets ==
  ASSUME IsFiniteSet(Campaigns), TypeOK, NEW c \in Campaigns, NEW h
  PROVE  /\ IsFiniteSet(SentOf(c)) /\ Cardinality(SentOf(c)) \in Nat
         /\ IsFiniteSet(SentIn(RowsOf(c), h)) /\ Cardinality(SentIn(RowsOf(c), h)) \in Nat
         /\ Cardinality(SentIn(RowsOf(c), h)) <= Cardinality(SentIn(Rows, h))
         /\ SentIn(RowsOf(c), h) \subseteq SentOf(c)
<1>1. RowsOf(c) \subseteq Rows
  BY CampaignRows
<1>2. SentOf(c) \subseteq Rows
  BY <1>1 DEF SentOf
<1>3. SentIn(RowsOf(c), h) \subseteq SentIn(Rows, h) /\ SentIn(Rows, h) \subseteq Rows
  BY <1>1 DEF SentIn
<1>4. SentIn(RowsOf(c), h) \subseteq SentOf(c)
  BY DEF SentIn, SentOf
<1>5. IsFiniteSet(SentOf(c)) /\ Cardinality(SentOf(c)) \in Nat
  BY <1>2, RowSets
<1>6. QED
  BY <1>3, <1>4, <1>5, RowSets

\* A Send counts for the campaign's sender.
LEMMA OwnCountedStep ==
  ASSUME IsFiniteSet(Campaigns), TypeOK, OwnCounted, Next PROVE OwnCounted'
<1>1. /\ UNCHANGED paramVars /\ Windows' = Windows
      /\ failover' = failover
      /\ \A c \in Campaigns : RowsOf(c)' = RowsOf(c) /\ senderId'[c] = senderId[c]
  <2>1. UNCHANGED paramVars
    BY SentSticks
  <2>2. QED
    BY <2>1, SameRows DEF Windows, paramVars
<1>2. ASSUME NEW c \in Campaigns, NEW h \in Windows, ~failover
      PROVE  Cardinality({q \in RowsOf(c) : state'[q] = "sent" /\ hourWindowId(sentAt'[q]) = h})
               <= used'[senderId[c]][h]
  <2> DEFINE in == {q \in RowsOf(c) : state'[q] = "sent" /\ hourWindowId(sentAt'[q]) = h}
  <2>1. /\ RowsOf(c) \subseteq Rows /\ senderId[c] \in Senders
        /\ used[senderId[c]][h] \in Nat
        /\ IsFiniteSet(SentIn(RowsOf(c), h)) /\ Cardinality(SentIn(RowsOf(c), h)) \in Nat
        /\ Cardinality(SentIn(RowsOf(c), h)) <= used[senderId[c]][h]
    BY <1>2, CampaignRows, LimitIsPositive, CampaignSets DEF TypeOK, OwnCounted
  <2>2. ASSUME NEW r \in Rows, Send(r)
        PROVE  Cardinality(in) <= used'[senderId[c]][h]
    <3>1. /\ r \notin SentIn(RowsOf(c), h)
          /\ in = IF r \in RowsOf(c) /\ h = hourWindowId(now)
                  THEN SentIn(RowsOf(c), h) \cup {r} ELSE SentIn(RowsOf(c), h)
      <4>1. RowsOf(c) \in SUBSET Rows
        BY <2>1
      <4>2. QED
        BY <2>2, <4>1, SendJoins
    <3>2. \A p \in Senders :
             used'[p][h] = IF p = senderId[r[1]] /\ h = hourWindowId(now)
                           THEN used[p][h] + 1 ELSE used[p][h]
      BY <1>2, <2>2, SendReserves
    <3>3. r \in RowsOf(c) => r[1] = c
      BY DEF RowsOf
    <3>4. Cardinality(SentIn(RowsOf(c), h) \cup {r}) = Cardinality(SentIn(RowsOf(c), h)) + 1
      BY <2>1, <3>1, FS_AddElement
    <3> HIDE DEF in
    <3>5. CASE r \in RowsOf(c) /\ h = hourWindowId(now)
      <4>1. /\ Cardinality(in) = Cardinality(SentIn(RowsOf(c), h)) + 1
            /\ used'[senderId[c]][h] = used[senderId[c]][h] + 1
        BY <2>1, <3>1, <3>2, <3>3, <3>4, <3>5
      <4>2. QED
        BY <2>1, <4>1
    <3>6. CASE ~(r \in RowsOf(c) /\ h = hourWindowId(now))
      <4>1. /\ in = SentIn(RowsOf(c), h)
            /\ used'[senderId[c]][h] >= used[senderId[c]][h]
        BY <2>1, <3>1, <3>2, <3>6
      <4>2. used'[senderId[c]][h] \in Nat
        BY <2>1, <3>2
      <4>3. QED
        BY <2>1, <4>1, <4>2
    <3>7. QED
      BY <3>5, <3>6
  <2>3. CASE \A r \in Rows : ~Send(r)
    <3>1. in = SentIn(RowsOf(c), h) /\ used' = used
      BY <2>1, <2>3, OtherStepsSendNothing DEF SentIn
    <3>2. QED
      BY <2>1, <3>1
  <2>4. QED
    BY <2>2, <2>3
<1>3. QED
  BY <1>1, <1>2 DEF OwnCounted, SentIn, hourWindowId

\* No campaign has sent anything.
LEMMA PacedInit == IsFiniteSet(Campaigns) /\ Init => PacedInv
<1> SUFFICES ASSUME IsFiniteSet(Campaigns), Init PROVE PacedInv
  OBVIOUS
<1>1. PaidInv /\ TypeOK
  BY PaidInit DEF PaidInv
<1>2. \A r \in Rows : state[r] = "waiting"
  BY DEF Init
<1>3. ASSUME NEW c \in Campaigns
      PROVE  /\ SentOf(c) = {}
             /\ Cardinality(SentIn(RowsOf(c), hourWindowId(now))) <= ProjectedLimit(c)
  <2>1. RowsOf(c) \subseteq Rows
    BY <1>1, CampaignRows
  <2>2. SentOf(c) = {} /\ SentIn(RowsOf(c), hourWindowId(now)) = {}
    BY <1>2, <2>1 DEF SentOf, SentIn
  <2>3. QED
    BY <1>1, <2>2, FS_EmptySet, LimitIsPositive
<1>4. Paced
  BY <1>3 DEF Paced
<1>5. OwnCounted
  <2>1. ASSUME NEW c \in Campaigns, NEW h \in Windows
        PROVE  Cardinality(SentIn(RowsOf(c), h)) <= used[senderId[c]][h]
    <3>1. RowsOf(c) \subseteq Rows /\ senderId[c] \in Senders
      BY <1>1, CampaignRows, LimitIsPositive
    <3>2. SentIn(RowsOf(c), h) = {}
      BY <1>2, <3>1 DEF SentIn
    <3>3. used[senderId[c]][h] = 0
      BY <3>1 DEF Init
    <3>4. QED
      BY <3>2, <3>3, FS_EmptySet
  <2>2. QED
    BY <2>1 DEF OwnCounted
<1>6. QED
  BY <1>1, <1>4, <1>5 DEF PacedInv

\* A Send of a campaign's email: the window had room for it.
LEMMA PacedSend ==
  ASSUME IsFiniteSet(Campaigns), PacedInv, NEW c \in Campaigns, NEW r \in RowsOf(c), Send(r)
  PROVE  LET limit == ProjectedLimit(c)
             begun == hourWindowId(startAt[c])
             w     == hourWindowId(now)
             this  == Cardinality(SentIn(RowsOf(c), w))
             n     == Cardinality(SentOf(c))
         IN /\ this + 1 <= limit
            /\ begun <= w
            /\ n + 1 <= limit * (w - begun) + this + 1
            /\ n + 1 <= limit * (w - begun + 1)
<1> DEFINE limit == ProjectedLimit(c)
           begun == hourWindowId(startAt[c])
           w     == hourWindowId(now)
           this  == Cardinality(SentIn(RowsOf(c), w))
           n     == Cardinality(SentOf(c))
<1>1. TypeOK /\ PaidInv /\ Paced /\ r \in Rows /\ r[1] = c /\ r[2] \in Nat
  <2>1. TypeOK
    BY DEF PacedInv, PaidInv
  <2>2. r \in Rows
    BY <2>1, CampaignRows
  <2>3. r[1] = c
    BY DEF RowsOf
  <2>4. QED
    BY <2>1, <2>2, <2>3, RowFacts DEF PacedInv
<1>2. limit \in Nat /\ w \in Windows /\ w \in Nat /\ this \in Nat /\ n \in Nat
  BY <1>1, LimitIsPositive, NowHasCounter, CampaignSets
<1>3. begun \in Int /\ begun <= w
  <2>1. startAt[c] \in Nat /\ delayBetweenMs[c] \in Nat /\ due[r] \in Nat /\ now \in Int
    BY <1>1, PacingAssumption DEF TypeOK
  <2>2. due[r] <= now
    BY <1>1, SendAdds
  <2>3. due[r] >= startAt[c] + r[2] * delayBetweenMs[c]
    BY <1>1 DEF PaidInv, Dated, scheduledAtForSeq
  <2>4. r[2] * delayBetweenMs[c] \in Nat
    BY <1>1, <2>1
  <2>5. startAt[c] <= now
    BY <2>1, <2>2, <2>3, <2>4
  <2>6. QED
    BY <2>1, <2>5, WindowsAscend
<1>4. this + 1 <= limit
  <2>1. PICK s \in Senders : Admits(c, s, w) /\ (~failover => s = senderId[c])
    BY <1>1, SendReserves
  <2>2. globalUsed[w] = Cardinality(SentIn(Rows, w))
    BY <1>1, <1>2 DEF PaidInv, Counted
  <2>3. this <= Cardinality(SentIn(Rows, w))
    BY <1>1, CampaignSets
  <2>4. globalUsed[w] \in Nat /\ used[s][w] \in Nat
    BY <1>1, <1>2 DEF TypeOK
  <2>5. CASE failover
    <3>1. globalUsed[w] < limit
      BY <2>1, <2>5 DEF Admits, ProjectedLimit
    <3> HIDE DEF limit, w, this
    <3>2. QED
      BY <1>2, <2>2, <2>3, <2>4, <3>1
  <2>6. CASE ~failover
    <3>1. used[s][w] < limit
      BY <2>1, <2>6 DEF Admits, ProjectedLimit
    <3>2. this <= used[s][w]
      BY <1>2, <2>1, <2>6 DEF PacedInv, OwnCounted
    <3> HIDE DEF limit, w, this
    <3>3. QED
      BY <1>2, <2>4, <3>1, <3>2
  <2>7. QED
    BY <2>5, <2>6
<1>5. n <= limit * (w - begun) + this
  <2>1. CASE SentOf(c) = {}
    <3>1. n = 0 /\ this = 0
      <4>1. SentIn(RowsOf(c), w) = {}
        BY <2>1 DEF SentOf, SentIn
      <4>2. QED
        BY <2>1, <4>1, FS_EmptySet
    <3> HIDE DEF limit, w, this, n, begun
    <3>2. limit * (w - begun) \in Nat
      BY <1>2, <1>3
    <3>3. QED
      BY <3>1, <3>2
  <2>2. CASE SentOf(c) # {}
    BY <1>1, <2>2 DEF Paced
  <2>3. QED
    BY <2>1, <2>2
<1> HIDE DEF limit, w, this, n, begun
<1>6. limit * (w - begun + 1) = limit * (w - begun) + limit /\ limit * (w - begun) \in Int
  BY <1>2, <1>3
<1>7. n + 1 <= limit * (w - begun + 1) /\ n + 1 <= limit * (w - begun) + this + 1
  BY <1>2, <1>4, <1>5, <1>6
<1>8. QED
  BY <1>3, <1>4, <1>7 DEF limit, w, this, n, begun
\* Every step keeps the campaigns paced.
LEMMA PacedStep == IsFiniteSet(Campaigns) /\ PacedInv /\ [Next]_vars => PacedInv'
<1> SUFFICES ASSUME IsFiniteSet(Campaigns), PacedInv, [Next]_vars PROVE PacedInv'
  OBVIOUS
<1>1. TypeOK /\ PaidInv /\ PaidInv'
  BY PaidStep DEF PacedInv, PaidInv
<1>2. ASSUME NEW c \in Campaigns
      PROVE  /\ RowsOf(c) \subseteq Rows
             /\ ProjectedLimit(c) \in Nat /\ ProjectedLimit(c) > 0
             /\ startAt[c] \in Int /\ hourWindowId(startAt[c]) \in Int
             /\ hourWindowId(now) \in Int
             /\ Cardinality(SentOf(c)) \in Nat
             /\ Cardinality(SentIn(RowsOf(c), hourWindowId(now))) \in Nat
  <2>1. startAt[c] \in Int
    BY <1>1, PacingAssumption DEF TypeOK
  <2>2. hourWindowId(startAt[c]) \in Int
    BY <2>1, WindowsAscend
  <2>3. hourWindowId(now) \in Int
    BY <1>1, NowHasCounter
  <2>4. RowsOf(c) \subseteq Rows
    BY <1>1, CampaignRows
  <2>5. ProjectedLimit(c) \in Nat /\ ProjectedLimit(c) > 0
    BY <1>1, LimitIsPositive
  <2>6. QED
    BY <1>1, <2>1, <2>2, <2>3, <2>4, <2>5, CampaignSets
\* The goal, for one campaign and with the primes on the variables.
<1> DEFINE
      of(c)   == {q \in RowsOf(c) : state'[q] = "sent"}
      in(c)   == {q \in RowsOf(c) : state'[q] = "sent"
                    /\ hourWindowId(sentAt'[q]) = hourWindowId(now')}
      Goal(c) == /\ Cardinality(in(c)) <= ProjectedLimit(c)
                 /\ of(c) # {} =>
                      /\ hourWindowId(startAt[c]) <= hourWindowId(now')
                      /\ Cardinality(of(c)) <=
                           ProjectedLimit(c)
                             * (hourWindowId(now') - hourWindowId(startAt[c]))
                           + Cardinality(in(c))
                      /\ \E r \in of(c) :
                           Cardinality(of(c)) <=
                             ProjectedLimit(c)
                               * (hourWindowId(sentAt'[r]) - hourWindowId(startAt[c]) + 1)
<1>3. ASSUME NEW c \in Campaigns,
             \A q \in RowsOf(c) : /\ state'[q] = "sent" <=> state[q] = "sent"
                                  /\ state[q] = "sent" => sentAt'[q] = sentAt[q],
             hourWindowId(now') = hourWindowId(now)
      PROVE  Goal(c)
  <2>1. of(c) = SentOf(c) /\ in(c) = SentIn(RowsOf(c), hourWindowId(now))
    BY <1>3 DEF SentOf, SentIn
  <2>2. \A r \in of(c) : sentAt'[r] = sentAt[r]
    BY <1>3
  <2> HIDE DEF of, in
  <2>3. QED
    BY <1>1, <1>3, <2>1, <2>2 DEF PacedInv, Paced
<1>4. ASSUME NEW c \in Campaigns, NEW r \in RowsOf(c), Send(r)
      PROVE  Goal(c)
  <2>1. r \in Rows /\ now' = now
    BY <1>1, <1>2, <1>4, SendAdds
  <2>2. \A q \in RowsOf(c) : /\ state'[q] = IF q = r THEN "sent" ELSE state[q]
                             /\ sentAt'[q] = IF q = r THEN now ELSE sentAt[q]
    BY <1>1, <1>2, <1>4, <2>1, SendAdds
  <2>3. state[r] = "waiting"
    BY <1>1, <1>4, <2>1, SendAdds
  <2>4. /\ of(c) = SentOf(c) \cup {r} /\ r \notin SentOf(c)
        /\ in(c) = SentIn(RowsOf(c), hourWindowId(now)) \cup {r}
        /\ r \notin SentIn(RowsOf(c), hourWindowId(now))
    BY <2>1, <2>2, <2>3 DEF SentOf, SentIn
  <2> DEFINE w == hourWindowId(now)
  <2>5. IsFiniteSet(SentOf(c)) /\ IsFiniteSet(SentIn(RowsOf(c), w))
    BY <1>1, CampaignSets
  <2> HIDE DEF of, in, w
  <2>6. /\ Cardinality(of(c)) = Cardinality(SentOf(c)) + 1
        /\ Cardinality(in(c)) = Cardinality(SentIn(RowsOf(c), w)) + 1
    BY <2>4, <2>5, FS_AddElement DEF w
  <2>7. /\ Cardinality(SentIn(RowsOf(c), w)) + 1 <= ProjectedLimit(c)
        /\ hourWindowId(startAt[c]) <= w
        /\ Cardinality(SentOf(c)) + 1 <=
             ProjectedLimit(c) * (w - hourWindowId(startAt[c]))
               + Cardinality(SentIn(RowsOf(c), w)) + 1
        /\ Cardinality(SentOf(c)) + 1 <=
             ProjectedLimit(c) * (w - hourWindowId(startAt[c]) + 1)
    BY <1>4, PacedSend DEF w
  <2>8. r \in of(c) /\ hourWindowId(sentAt'[r]) = w /\ hourWindowId(now') = w
    BY <2>1, <2>2, <2>4 DEF w
  <2> DEFINE product == ProjectedLimit(c) * (w - hourWindowId(startAt[c]))
  <2>9. Cardinality(of(c)) <= product + Cardinality(in(c))
    <3>1. product \in Int /\ Cardinality(SentIn(RowsOf(c), w)) \in Nat
      BY <1>2 DEF w
    <3> HIDE DEF product
    <3>2. QED
      BY <2>6, <2>7, <3>1 DEF product
  <2>10. QED
    BY <2>6, <2>7, <2>8, <2>9
<1>5. ASSUME NEW c \in Campaigns, UNCHANGED <<state, sentAt>>, now' = now + 1,
             hourWindowId(now') # hourWindowId(now)
      PROVE  Goal(c)
  <2> DEFINE w == hourWindowId(now)
             v == hourWindowId(now')
             begun == hourWindowId(startAt[c])
             L == ProjectedLimit(c)
             this == Cardinality(SentIn(RowsOf(c), w))
             n == Cardinality(SentOf(c))
  <2>1. w \in Int /\ v \in Int /\ w < v
    <3>1. now \in Int
      BY <1>1 DEF TypeOK
    <3>2. QED
      BY <1>5, <3>1, WindowsAscend
  <2>2. in(c) = {}
    <3>1. ASSUME NEW q \in RowsOf(c), state[q] = "sent"
          PROVE  hourWindowId(sentAt[q]) <= w /\ hourWindowId(sentAt[q]) \in Int
      <4>1. sentAt[q] \in Int /\ now \in Int /\ sentAt[q] <= now
        BY <1>1, <1>2, <3>1 DEF PaidInv, Dated, TypeOK
      <4>2. QED
        BY <4>1, WindowsAscend
    <3> HIDE DEF w, v
    <3>2. QED
      BY <1>5, <2>1, <3>1 DEF v
  <2>3. of(c) = SentOf(c)
    BY <1>5 DEF SentOf
  <2>4. Cardinality(in(c)) = 0
    BY <2>2, FS_EmptySet
  <2>5. /\ this <= L
        /\ SentOf(c) # {} =>
              /\ begun <= w
              /\ n <= L * (w - begun) + this
              /\ \E r \in SentOf(c) : n <= L * (hourWindowId(sentAt[r]) - begun + 1)
    BY DEF PacedInv, Paced
  <2>6. L \in Nat /\ begun \in Int /\ this \in Nat /\ n \in Nat
    BY <1>2
  <2> HIDE DEF of, in, w, v, begun, L, this, n
  <2>7. L * (w - begun) + L <= L * (v - begun)
    <3>1. L * (w - begun + 1) <= L * (v - begun)
      <4>1. w - begun + 1 \in Int /\ v - begun \in Int /\ w - begun + 1 <= v - begun
        BY <2>1, <2>6
      <4>2. QED
        BY <2>6, <4>1, TimesMonotone
    <3>2. L * (w - begun + 1) = L * (w - begun) + L
      BY <2>1, <2>6
    <3>3. QED
      BY <3>1, <3>2
  <2>8. L * (w - begun) \in Int /\ L * (v - begun) \in Int
    BY <2>1, <2>6
  <2>9. SentOf(c) # {} => begun <= v /\ n <= L * (v - begun) + 0
    BY <2>1, <2>5, <2>6, <2>7, <2>8
  <2>10. /\ Cardinality(in(c)) <= L
         /\ of(c) # {} =>
              /\ begun <= v
              /\ Cardinality(of(c)) <= L * (v - begun) + Cardinality(in(c))
              /\ \E r \in of(c) :
                   Cardinality(of(c)) <= L * (hourWindowId(sentAt'[r]) - begun + 1)
    BY <1>5, <2>3, <2>4, <2>5, <2>6, <2>9 DEF n
  <2>11. QED
    BY <2>10 DEF L, v, begun
<1>6. ASSUME NEW c \in Campaigns PROVE Goal(c)
  <2>1. CASE UNCHANGED vars
    <3>1. state' = state /\ sentAt' = sentAt /\ now' = now
      BY <2>1 DEF vars, rowVars
    <3>2. QED
      BY <1>3, <3>1
  <2>2. ASSUME NEW r \in Rows, Send(r) PROVE Goal(c)
    <3>1. CASE r \in RowsOf(c)
      BY <1>4, <2>2, <3>1
    <3>2. CASE r \notin RowsOf(c)
      <4>1. /\ \A q \in RowsOf(c) : state'[q] = state[q] /\ sentAt'[q] = sentAt[q]
            /\ now' = now
        BY <1>1, <1>2, <2>2, <3>2, SendAdds
      <4>2. QED
        BY <1>3, <4>1
    <3>3. QED
      BY <3>1, <3>2
  <2>3. ASSUME NEW r \in Rows, DeferToNextWindow(r) \/ DeferExhausted(r), \A q \in Rows : ~Send(q)
        PROVE  Goal(c)
    <3>1. Next
      BY <2>3 DEF Next
    <3>2. now' = now
      BY <2>3 DEF DeferToNextWindow, DeferExhausted
    <3>3. QED
      BY <1>1, <1>2, <1>3, <2>3, <3>1, <3>2, OtherStepsSendNothing
  <2>4. CASE Tick
    <3>1. UNCHANGED <<state, sentAt>> /\ now' = now + 1
      BY <2>4 DEF Tick, rowVars
    <3>2. QED
      BY <1>3, <1>5, <3>1
  <2>5. QED
    BY <2>1, <2>2, <2>3, <2>4 DEF Next
<1>7. UNCHANGED paramVars
  BY <1>1, SentSticks DEF vars
<1>11. OwnCounted'
  <2>1. CASE UNCHANGED vars
    BY <2>1 DEF PacedInv, OwnCounted, SentIn, RowsOf, Windows, hourWindowId, vars, paramVars,
       rowVars, quotaVars
  <2>2. CASE Next
    BY <1>1, <2>2, OwnCountedStep DEF PacedInv
  <2>3. QED
    BY <2>1, <2>2
<1>8. /\ startAt' = startAt
      /\ \A c \in Campaigns :
           RowsOf(c)' = RowsOf(c) /\ ProjectedLimit(c)' = ProjectedLimit(c)
  BY <1>7, SameRows DEF paramVars
<1>9. Paced'
  BY <1>6, <1>8 DEF Paced, SentOf, SentIn, hourWindowId
<1>10. QED
  BY <1>1, <1>9, <1>11 DEF PacedInv

\* No campaign is through before the completion its author was shown: neither the
\* cadence nor the hourly limit lets it (projectCampaign, scheduling.ts:59).
THEOREM ProjectionIsALowerBound == IsFiniteSet(Campaigns) => (Spec => []NotBeforeProjected)
<1> SUFFICES ASSUME IsFiniteSet(Campaigns) PROVE Spec => []NotBeforeProjected
  OBVIOUS
<1>1. ASSUME PacedInv PROVE NotBeforeProjected
  <2>1. TypeOK /\ PaidInv
    BY <1>1 DEF PacedInv, PaidInv
  <2>2. ASSUME NEW c \in Campaigns, \A r \in RowsOf(c) : state[r] = "sent"
        PROVE  \E r \in RowsOf(c) :
                 sentAt[r] >= projectCampaign(startAt[c], size[c], delayBetweenMs[c],
                                              ProjectedLimit(c)).completesAt
    <3> DEFINE L == ProjectedLimit(c)
               n == size[c]
               begun == hourWindowId(startAt[c])
               byDelay == scheduledAtForSeq(startAt[c], n - 1, delayBetweenMs[c])
               windows == (n + L - 1) \div L
               byQuota == IF windows <= 1 THEN byDelay ELSE CompletesByQuota(startAt[c], windows)
    <3>1. /\ RowsOf(c) \subseteq Rows /\ Cardinality(RowsOf(c)) = n /\ n \in Nat \ {0}
          /\ L \in Nat \ {0} /\ startAt[c] \in Nat /\ delayBetweenMs[c] \in Nat
      BY <2>1, CampaignRows, LimitIsPositive, PacingAssumption DEF TypeOK
    <3>2. \A r \in RowsOf(c) : sentAt[r] \in Int /\ due[r] \in Int /\ due[r] <= sentAt[r]
      BY <2>1, <2>2, <3>1 DEF PaidInv, Dated, TypeOK
    <3>3. begun \in Int
      BY <3>1, WindowsAscend
    \* The last email is not due before the end of the cadence.
    <3>4. PICK last \in RowsOf(c) : sentAt[last] >= byDelay
      <4> DEFINE q == <<c, n - 1>>
      <4>1. q \in RowsOf(c) /\ q[1] = c /\ q[2] = n - 1
        BY <3>1 DEF RowsOf
      <4> HIDE DEF q
      <4>2. due[q] >= byDelay
        BY <2>1, <3>1, <4>1 DEF PaidInv, Dated
      <4>3. byDelay \in Int
        BY <3>1 DEF scheduledAtForSeq
      <4>4. QED
        BY <3>2, <4>1, <4>2, <4>3
    \* One email was sent late enough for the windows that hold them all.
    <3>5. PICK late \in RowsOf(c) : n <= L * (hourWindowId(sentAt[late]) - begun + 1)
      <4>1. SentOf(c) = RowsOf(c)
        BY <2>2 DEF SentOf
      <4>2. RowsOf(c) # {}
        BY <3>1, FS_EmptySet
      <4>3. QED
        BY <1>1, <3>1, <4>1, <4>2 DEF PacedInv, Paced
    <3>6. byDelay \in Int /\ windows \in Int
      BY <3>1 DEF scheduledAtForSeq
    <3>7. CASE windows > 1
      <4> DEFINE ws == hourWindowId(sentAt[late])
      <4>1. ws \in Int
        BY <3>2, WindowsAscend
      <4>2. windows <= ws - begun + 1
        <5> DEFINE k == ws - begun + 1
        <5>1. k \in Int /\ n <= L * k
          BY <3>3, <3>5, <4>1
        <5> HIDE DEF k, L, n
        <5>2. windows <= k
          BY <3>1, <5>1, WindowsAreLeast DEF L, n
        <5>3. QED
          BY <5>2 DEF k
      <4>3. CompletesByQuota(startAt[c], windows) = (begun + windows - 1) * HOUR_MS
        <5>1. begun * HOUR_MS + HOUR_MS + (windows - 2) * HOUR_MS = (begun + windows - 1) * HOUR_MS
          <6> HIDE DEF begun, windows
          <6>1. QED
            BY <3>3, <3>6, HourAssumption
        <5>2. QED
          BY <5>1 DEF CompletesByQuota, nextHourWindowStart, hourWindowStart, hourWindowId
      <4>4. (begun + windows - 1) * HOUR_MS <= ws * HOUR_MS
        <5> DEFINE a == begun + windows - 1
        <5>1. a \in Int /\ a <= ws /\ HOUR_MS \in Nat
          BY <3>3, <3>6, <4>1, <4>2, HourAssumption
        <5> HIDE DEF a, ws
        <5>2. HOUR_MS * a <= HOUR_MS * ws
          BY <4>1, <5>1, TimesMonotone
        <5>3. HOUR_MS * a = a * HOUR_MS /\ HOUR_MS * ws = ws * HOUR_MS
          BY <4>1, <5>1
        <5>4. QED
          BY <5>2, <5>3 DEF a
      <4>5. ws * HOUR_MS <= sentAt[late] /\ ws * HOUR_MS \in Int
        BY <3>2, HourDivision DEF hourWindowId
      <4>6. sentAt[late] >= byQuota
        <5>1. byQuota = (begun + windows - 1) * HOUR_MS
          BY <3>6, <3>7, <4>3
        <5>2. (begun + windows - 1) * HOUR_MS \in Int /\ sentAt[late] \in Int
          BY <3>2, <3>3, <3>6, HourAssumption
        <5> HIDE DEF byQuota, ws
        <5>3. QED
          BY <4>4, <4>5, <5>1, <5>2
      <4>7. QED
        BY <3>4, <4>6, <3>1, <3>6, <3>7 DEF projectCampaign, Larger
    <3>8. CASE ~(windows > 1)
      <4>1. projectCampaign(startAt[c], n, delayBetweenMs[c], L).completesAt = byDelay
        BY <3>1, <3>6, <3>8 DEF projectCampaign, Larger
      <4>2. QED
        BY <3>4, <4>1
    <3>9. QED
      BY <3>7, <3>8
  <2>3. QED
    BY <2>2 DEF NotBeforeProjected
<1>2. QED
  BY PacedInit, PacedStep, <1>1, PTL DEF Spec
------------------------------------------------------------------------------
(* Order across deferrals. *)

\* What README.md:358 takes for granted, and pacing_order instantiates: one campaign
\* has the deployment for itself, it begins with an hour, no two of its emails are due at
\* once, its cadence and its deferred positions both fit into one hour, and workers
\* start what they may.
OneHourCampaign ==
    /\ Punctual
    /\ \E c : Campaigns = {c}
    /\ MinDelay > 0 /\ \A n \in Sizes : (n - 1) * MinDelay < HOUR_MS
    /\ \A s \in Starts : hourWindowStart(s) = s
    /\ \A d \in Delays : d > 0 /\ \A n \in Sizes : (n - 1) * d < HOUR_MS

\* The window a campaign begins in, the instant at which row r is due in window v, and
\* the latest instant at which it is started there.
Base(r) == hourWindowId(startAt[r[1]])
Slot(r, v) ==
    IF v = Base(r) THEN scheduledAtForSeq(startAt[r[1]], r[2], delayBetweenMs[r[1]])
    ELSE v * HOUR_MS + r[2] * MinDelay
Latest(r, v) == v * HOUR_MS + r[2] * Larger(delayBetweenMs[r[1]], MinDelay)

\* The window whose jobs are being started, or will be first.
Turn(r) == Larger(hourWindowId(now), Base(r))
Waiting == {r \in Rows : state[r] = "waiting"}
InTurn(r) == due[r] = Slot(r, Turn(r))
Bumped(r) == due[r] = Slot(r, Turn(r) + 1)

\* A waiting row is due in this window or, once deferred, in the next.
Slotted == \A r \in Waiting : InTurn(r) \/ Bumped(r)
\* Neither the clock nor the limiter has overtaken a row that is still to be started.
Timely ==
    /\ limiterFreeAt <= now + MinDelay
    /\ \A r \in Waiting : InTurn(r) =>
          limiterFreeAt <= Latest(r, Turn(r)) /\ now <= Latest(r, Turn(r))
\* A window that has deferred an email has no slot left for another.
Spent ==
    \A r \in Waiting : Bumped(r) =>
        Turn(r) = hourWindowId(now) /\ Carriers(r[1], Turn(r)) = {}
\* The first email is the first to be started, and finds its window unused.
FirstGoes ==
    \A r \in Waiting : r[2] = 0 =>
        /\ limiterFreeAt = 0
        /\ \A h \in Windows : globalUsed[h] = 0 /\ \A s \in Senders : used[s][h] = 0

\* The inductive invariant of the order.
QueueInv == Slotted /\ Timely /\ Spent /\ FirstGoes
OrderInv == TypeOK /\ QueueInv /\ SentInOrder

\* Positions times a spacing are a spacing apart.
LEMMA Spaced ==
  ASSUME NEW d \in Nat, NEW i \in Nat, NEW j \in Nat, i < j
  PROVE  i * d \in Nat /\ j * d \in Nat /\ i * d + d <= j * d
<1>1. d * (i + 1) <= d * j
  BY TimesMonotone
<1>2. d * (i + 1) = i * d + d /\ d * j = j * d /\ i * d \in Nat /\ j * d \in Nat
  OBVIOUS
<1>3. QED
  BY <1>1, <1>2

\* A wider spacing puts a position no earlier.
LEMMA Wider ==
  ASSUME NEW i \in Nat, NEW d \in Nat, NEW x \in Nat, d <= x
  PROVE  i * d \in Nat /\ i * x \in Nat /\ i * d <= i * x
BY TimesMonotone

\* A position among n, times a spacing that keeps n within the hour, stays within it.
LEMMA Fits ==
  ASSUME NEW d \in Nat, NEW n \in Nat, NEW i \in 0..n - 1, (n - 1) * d < HOUR_MS
  PROVE  i * d \in Nat /\ i * d < HOUR_MS
<1>1. HOUR_MS \in Nat
  BY HourAssumption
<1>2. d * i <= d * (n - 1)
  BY TimesMonotone
<1>3. d * i = i * d /\ d * (n - 1) = (n - 1) * d /\ i * d \in Nat /\ (n - 1) * d \in Int
  OBVIOUS
<1>4. QED
  BY <1>1, <1>2, <1>3

\* All rows belong to the one campaign, and are told apart by their positions.
LEMMA OneCampaign ==
  ASSUME OneHourCampaign, TypeOK
  PROVE  \E c \in Campaigns :
            /\ \A r \in Rows : r[1] = c /\ r[2] \in 0..size[c] - 1 /\ r = <<r[1], r[2]>>
            /\ size[c] \in Sizes /\ size[c] \in Nat
            /\ delayBetweenMs[c] \in Delays /\ delayBetweenMs[c] \in Nat
            /\ startAt[c] \in Starts /\ startAt[c] \in Nat
<1>1. PICK c : Campaigns = {c}
  BY DEF OneHourCampaign
<1>2. \A r \in Rows : r[1] = c /\ r[2] \in 0..size[c] - 1 /\ r = <<r[1], r[2]>>
  BY <1>1 DEF Rows, RowsOf
<1>3. /\ size[c] \in Sizes /\ delayBetweenMs[c] \in Delays /\ startAt[c] \in Starts
  BY <1>1 DEF TypeOK
<1>4. size[c] \in Nat /\ delayBetweenMs[c] \in Nat /\ startAt[c] \in Nat
  BY <1>3, PacingAssumption
<1>5. QED
  BY <1>1, <1>2, <1>3, <1>4

\* Where a row's slots lie.
LEMMA SlotFacts ==
  ASSUME OneHourCampaign, TypeOK, NEW r \in Rows, NEW v \in Nat, v >= Base(r)
  PROVE  /\ Base(r) \in Nat /\ v * HOUR_MS \in Nat
         /\ Slot(r, v) \in Nat /\ Latest(r, v) \in Nat
         /\ v * HOUR_MS <= Slot(r, v) /\ Slot(r, v) <= Latest(r, v)
         /\ Latest(r, v) < (v + 1) * HOUR_MS /\ (v + 1) * HOUR_MS = v * HOUR_MS + HOUR_MS
         /\ r[2] > 0 => v * HOUR_MS + MinDelay <= Latest(r, v)
<1>1. PICK c \in Campaigns :
         /\ r[1] = c /\ r[2] \in 0..size[c] - 1
         /\ size[c] \in Sizes /\ size[c] \in Nat
         /\ delayBetweenMs[c] \in Delays /\ delayBetweenMs[c] \in Nat
         /\ startAt[c] \in Starts /\ startAt[c] \in Nat
  BY OneCampaign
<1> DEFINE i == r[2]
           n == size[c]
           D == delayBetweenMs[c]
           M == MinDelay
           X == Larger(D, M)
           a == v * HOUR_MS
           b == startAt[c]
<1>2. /\ i \in 0..n - 1 /\ i \in Nat /\ n \in Nat /\ D \in Nat /\ M \in Nat /\ X \in Nat /\ b \in Nat
      /\ D > 0 /\ M > 0 /\ (n - 1) * D < HOUR_MS /\ (n - 1) * M < HOUR_MS
      /\ hourWindowStart(b) = b
  BY <1>1, PacingAssumption DEF OneHourCampaign, Larger
<1>3. (n - 1) * X < HOUR_MS /\ D <= X /\ M <= X
  BY <1>2 DEF Larger
<1>4. a \in Nat /\ HOUR_MS \in Nat \ {0} /\ (v + 1) * HOUR_MS = a + HOUR_MS
  BY HourAssumption
<1>5. Base(r) * HOUR_MS = b /\ Base(r) \in Nat
  <2>1. Base(r) * HOUR_MS = b
    BY <1>1, <1>2 DEF Base, hourWindowStart, hourWindowId
  <2>2. hourWindowId(0) = 0 /\ hourWindowId(b) \in Int /\ hourWindowId(0) <= hourWindowId(b)
    <3>1. HOUR_MS \in Int /\ 0 \in 0..HOUR_MS - 1 /\ 0 * HOUR_MS + 0 = 0
      BY HourAssumption
    <3>2. (0 * HOUR_MS + 0) \div HOUR_MS = 0
      BY <3>1, WindowIsUnique
    <3>3. hourWindowId(b) \in Int /\ hourWindowId(0) <= hourWindowId(b)
      BY <1>2, WindowsAscend
    <3>4. QED
      BY <3>1, <3>2, <3>3 DEF hourWindowId
  <2>3. QED
    BY <1>1, <2>1, <2>2 DEF Base
<1>6. /\ i * D \in Nat /\ i * M \in Nat /\ i * X \in Nat
      /\ i * D <= i * X /\ i * M <= i * X /\ i * X < HOUR_MS
  <2> HIDE DEF i, n, D, M, X
  <2>1. i * D <= i * X /\ i * M <= i * X /\ i * D \in Nat /\ i * M \in Nat
    BY <1>2, <1>3, Wider
  <2>2. i * X \in Nat /\ i * X < HOUR_MS
    BY <1>2, <1>3, Fits
  <2>3. QED
    BY <2>1, <2>2
<1>7. Slot(r, v) = IF v = Base(r) THEN b + i * D ELSE a + i * M
  BY <1>1 DEF Slot, scheduledAtForSeq
<1>8. Latest(r, v) = a + i * X
  BY <1>1 DEF Latest
<1>9. v = Base(r) => a = b
  BY <1>5
<1>10. i > 0 => M <= i * X
  <2>1. 0 * X = 0
    BY <1>2
  <2> HIDE DEF i, X, M, D, n
  <2>2. ASSUME i > 0 PROVE M <= i * X
    <3>1. 0 \in Nat /\ 0 < i
      BY <2>2
    <3>2. 0 * X + X <= i * X
      BY <1>2, <3>1, Spaced
    <3>3. QED
      BY <1>2, <1>3, <1>6, <2>1, <3>2
  <2>3. QED
    BY <2>2
<1> DEFINE iD == i * D
           iM == i * M
           iX == i * X
<1>11. /\ iD \in Nat /\ iM \in Nat /\ iX \in Nat /\ iD <= iX /\ iM <= iX /\ iX < HOUR_MS
       /\ Slot(r, v) = IF v = Base(r) THEN b + iD ELSE a + iM
       /\ Latest(r, v) = a + iX /\ (i > 0 => M <= iX)
  BY <1>6, <1>7, <1>8, <1>10
<1>12. r[2] > 0 => M <= iX
  BY <1>11
<1> HIDE DEF i, D, X, a, b, iD, iM, iX, n
<1>13. /\ Slot(r, v) \in Nat /\ Latest(r, v) \in Nat
       /\ a <= Slot(r, v) /\ Slot(r, v) <= Latest(r, v) /\ Latest(r, v) < a + HOUR_MS
  BY <1>2, <1>4, <1>9, <1>11
<1>14. r[2] > 0 => a + M <= Latest(r, v)
  BY <1>2, <1>4, <1>11, <1>12
<1>15. QED
  BY <1>4, <1>5, <1>13, <1>14 DEF a

\* In every window the rows are due, and started, in the order of their positions.
LEMMA SlotOrder ==
  ASSUME OneHourCampaign, TypeOK, NEW r \in Rows, NEW q \in Rows, NEW v \in Nat, v >= Base(r),
         r[2] < q[2]
  PROVE  Slot(r, v) < Slot(q, v) /\ Latest(r, v) + MinDelay <= Latest(q, v)
<1>1. PICK c \in Campaigns :
         /\ r[1] = c /\ r[2] \in 0..size[c] - 1 /\ q[1] = c /\ q[2] \in 0..size[c] - 1
         /\ size[c] \in Nat /\ delayBetweenMs[c] \in Delays /\ delayBetweenMs[c] \in Nat
         /\ startAt[c] \in Nat
  BY OneCampaign
<1> DEFINE i == r[2]
           j == q[2]
           D == delayBetweenMs[c]
           M == MinDelay
           X == Larger(D, M)
           a == v * HOUR_MS
           b == startAt[c]
<1>2. /\ i \in Nat /\ j \in Nat /\ i < j /\ D \in Nat /\ M \in Nat /\ X \in Nat /\ b \in Nat
      /\ D > 0 /\ M > 0 /\ M <= X /\ a \in Nat
  BY <1>1, PacingAssumption, HourAssumption DEF OneHourCampaign, Larger
<1> DEFINE iD == i * D
           iM == i * M
           iX == i * X
           jD == j * D
           jM == j * M
           jX == j * X
<1>3. /\ Slot(r, v) = IF v = Base(r) THEN b + iD ELSE a + iM
      /\ Slot(q, v) = IF v = Base(r) THEN b + jD ELSE a + jM
      /\ Latest(r, v) = a + iX /\ Latest(q, v) = a + jX
  BY <1>1 DEF Slot, Latest, scheduledAtForSeq, Base
<1>4. /\ iD \in Nat /\ jD \in Nat /\ iD + D <= jD
      /\ iM \in Nat /\ jM \in Nat /\ iM + M <= jM
      /\ iX \in Nat /\ jX \in Nat /\ iX + X <= jX
  <2> HIDE DEF i, j, D, M, X
  <2>1. QED
    BY <1>2, Spaced
<1> HIDE DEF i, j, D, X, a, b, iD, iM, iX, jD, jM, jX
<1>5. QED
  BY <1>2, <1>3, <1>4

\* All rows have the same turn, in a window that is not over.
LEMMA TurnFacts ==
  ASSUME OneHourCampaign, TypeOK, NEW r \in Rows
  PROVE  /\ Base(r) \in Nat /\ Turn(r) \in Nat /\ hourWindowId(now) \in Nat
         /\ Turn(r) >= Base(r) /\ Turn(r) >= hourWindowId(now) /\ Turn(r) + 1 >= Base(r)
         /\ Turn(r) = Base(r) \/ Turn(r) = hourWindowId(now)
         /\ now \in Nat /\ now < (Turn(r) + 1) * HOUR_MS
         /\ Turn(r) > hourWindowId(now) => now < Turn(r) * HOUR_MS
         /\ Turn(r) = hourWindowId(now) => Turn(r) * HOUR_MS <= now
         /\ \A q \in Rows : Turn(q) = Turn(r) /\ Base(q) = Base(r)
                            /\ q[1] = r[1]
<1> DEFINE t == Turn(r)
           v == hourWindowId(now)
<1>1. Base(r) \in Nat
  <2>1. startAt[r[1]] \in Nat
    BY RowFacts
  <2>2. hourWindowId(0) = 0 /\ hourWindowId(0) <= hourWindowId(startAt[r[1]])
        /\ hourWindowId(startAt[r[1]]) \in Int
    <3>1. HOUR_MS \in Int /\ 0 \in 0..HOUR_MS - 1 /\ 0 * HOUR_MS + 0 = 0
      BY HourAssumption
    <3>2. (0 * HOUR_MS + 0) \div HOUR_MS = 0
      BY <3>1, WindowIsUnique
    <3>3. hourWindowId(startAt[r[1]]) \in Int /\ hourWindowId(0) <= hourWindowId(startAt[r[1]])
      BY <2>1, WindowsAscend
    <3>4. QED
      BY <3>1, <3>2, <3>3 DEF hourWindowId
  <2>3. QED
    BY <2>2 DEF Base
<1>2. v \in Nat /\ now \in Nat
  BY NowHasCounter DEF TypeOK
<1>3. /\ t \in Nat /\ t >= Base(r) /\ t >= v /\ t + 1 >= Base(r) /\ (t = Base(r) \/ t = v)
  <2> HIDE DEF v
  <2>1. t = Larger(v, Base(r))
    BY DEF Turn, v
  <2> HIDE DEF t
  <2>2. QED
    BY <1>1, <1>2, <2>1 DEF Larger
<1>4. v * HOUR_MS <= now /\ now < v * HOUR_MS + HOUR_MS /\ v * HOUR_MS \in Nat
  BY <1>2, HourDivision, HourAssumption DEF hourWindowId
<1>5. HOUR_MS \in Nat /\ (v + 1) * HOUR_MS = v * HOUR_MS + HOUR_MS
      /\ (t + 1) * HOUR_MS \in Nat /\ t * HOUR_MS \in Nat
  <2> HIDE DEF v, t
  <2>1. QED
    BY <1>2, <1>3, HourAssumption
<1>6. now < (v + 1) * HOUR_MS
  <2> DEFINE e == v * HOUR_MS
             f == (v + 1) * HOUR_MS
  <2>1. e \in Nat /\ now < e + HOUR_MS /\ f = e + HOUR_MS
    BY <1>4, <1>5
  <2> HIDE DEF e, f
  <2>2. now < f
    BY <2>1
  <2>3. QED
    BY <2>2 DEF f
<1>7. now < (t + 1) * HOUR_MS /\ (t > v => now < t * HOUR_MS)
  <2> HIDE DEF v, t
  <2>1. HOUR_MS * (v + 1) <= HOUR_MS * (t + 1) /\ (t > v => HOUR_MS * (v + 1) <= HOUR_MS * t)
    BY <1>2, <1>3, <1>5, TimesMonotone
  <2>2. /\ HOUR_MS * (v + 1) = (v + 1) * HOUR_MS /\ HOUR_MS * (t + 1) = (t + 1) * HOUR_MS
        /\ HOUR_MS * t = t * HOUR_MS /\ (v + 1) * HOUR_MS \in Nat
    BY <1>2, <1>3, <1>5
  <2> DEFINE f == (v + 1) * HOUR_MS
             g == (t + 1) * HOUR_MS
             k == t * HOUR_MS
  <2>3. f <= g /\ (t > v => f <= k) /\ now < f /\ f \in Nat /\ g \in Nat /\ k \in Nat
    BY <1>5, <1>6, <2>1, <2>2
  <2> HIDE DEF f, g, k
  <2>4. now < g /\ (t > v => now < k)
    BY <1>2, <2>3
  <2>5. QED
    BY <2>4 DEF g, k
<1>8. \A q \in Rows : Turn(q) = Turn(r) /\ Base(q) = Base(r)
                      /\ q[1] = r[1]
  BY OneCampaign DEF Turn, Base
<1>9. QED
  BY <1>1, <1>2, <1>3, <1>4, <1>7, <1>8

\* A row is due in one window only.
LEMMA OneSlot ==
  ASSUME OneHourCampaign, TypeOK, NEW r \in Rows, NEW q \in Rows, NEW v \in Nat, v >= Base(r)
  PROVE  Slot(r, v) < Slot(q, v + 1)
<1>1. Base(q) = Base(r) /\ Base(r) \in Nat /\ v + 1 \in Nat /\ v + 1 >= Base(q)
  BY TurnFacts
<1>2. /\ Slot(r, v) \in Nat /\ Latest(r, v) \in Nat /\ Slot(r, v) <= Latest(r, v)
      /\ Latest(r, v) < (v + 1) * HOUR_MS
  BY SlotFacts
<1>3. (v + 1) * HOUR_MS <= Slot(q, v + 1) /\ (v + 1) * HOUR_MS \in Nat /\ Slot(q, v + 1) \in Nat
  BY <1>1, SlotFacts
<1> DEFINE e == (v + 1) * HOUR_MS
           x == Slot(r, v)
           y == Slot(q, v + 1)
           z == Latest(r, v)
<1>4. x \in Nat /\ y \in Nat /\ z \in Nat /\ e \in Nat /\ x <= z /\ z < e /\ e <= y
  BY <1>2, <1>3
<1> HIDE DEF e, x, y, z
<1>5. x < y
  BY <1>4
<1>6. QED
  BY <1>5 DEF x, y

\* A job that may start is in its turn; whoever is before it has been deferred by a
\* window that is spent, and whoever comes after it has time.
LEMMA StartFacts ==
  ASSUME OneHourCampaign, OrderInv, NEW r \in Rows, MayStart(r)
  PROVE  /\ r \in Waiting /\ InTurn(r) /\ ~Bumped(r)
         /\ Turn(r) = hourWindowId(now) /\ now <= Latest(r, Turn(r))
         /\ \A q \in Waiting : q[2] < r[2] => ~HasQuota(r)
         /\ \A q \in Waiting : InTurn(q) /\ q # r => r[2] < q[2]
         /\ \A q \in Waiting : q[2] = 0 => q = r /\ HasQuota(r)
<1> DEFINE t == Turn(r)
           v == hourWindowId(now)
<1>1. TypeOK /\ Slotted /\ Timely /\ Spent /\ FirstGoes
  BY DEF OrderInv, QueueInv
<1>2. /\ t \in Nat /\ t >= Base(r) /\ now \in Nat /\ Base(r) \in Nat /\ v \in Nat /\ t >= v
      /\ t + 1 \in Nat /\ t + 1 >= Base(r)
      /\ now < (t + 1) * HOUR_MS /\ (t > v => now < t * HOUR_MS)
      /\ \A q \in Rows : Turn(q) = t /\ Base(q) = Base(r)
                         /\ q[1] = r[1]
  BY <1>1, TurnFacts
<1>3. /\ r \in Waiting /\ due[r] <= now /\ due[r] \in Nat
      /\ \A q \in Waiting : due[r] <= due[q]
  BY <1>1 DEF MayStart, Waiting, TypeOK
<1>4. /\ t * HOUR_MS <= Slot(r, t) /\ (t + 1) * HOUR_MS <= Slot(r, t + 1)
      /\ Slot(r, t) \in Nat /\ Slot(r, t + 1) \in Nat
      /\ t * HOUR_MS \in Nat /\ (t + 1) * HOUR_MS \in Nat
  BY <1>1, <1>2, SlotFacts
<1>5. due[r] < Slot(r, t + 1) /\ (t > v => due[r] < Slot(r, t))
  <2> DEFINE e == t * HOUR_MS
             f == (t + 1) * HOUR_MS
             x == Slot(r, t)
             y == Slot(r, t + 1)
  <2>1. /\ e \in Nat /\ f \in Nat /\ x \in Nat /\ y \in Nat /\ e <= x /\ f <= y
        /\ now < f /\ (t > v => now < e)
    BY <1>2, <1>4
  <2> HIDE DEF e, f, x, y, t, v
  <2>2. due[r] < y /\ (t > v => due[r] < x)
    BY <1>2, <1>3, <2>1
  <2>3. QED
    BY <2>2 DEF x, y, t, v
<1>6. ~Bumped(r) /\ InTurn(r) /\ t = v
  <2>1. ~Bumped(r)
    BY <1>3, <1>4, <1>5 DEF Bumped
  <2>2. InTurn(r)
    BY <1>1, <1>3, <2>1 DEF Slotted
  <2>3. ~(t > v)
    BY <1>3, <1>4, <1>5, <2>2 DEF InTurn
  <2>4. QED
    BY <1>2, <2>1, <2>2, <2>3
<1>7. now <= Latest(r, t)
  BY <1>1, <1>3, <1>6 DEF Timely
<1>8. ASSUME NEW q \in Waiting, q[2] < r[2] PROVE ~HasQuota(r) /\ Bumped(q) /\ q \in Rows
  <2>1. q \in Rows /\ due[r] <= due[q] /\ Base(q) = Base(r)
    BY <1>2, <1>3 DEF Waiting
  <2>2. Slot(q, t) < Slot(r, t) /\ Slot(q, t) \in Nat
    BY <1>1, <1>2, <1>8, <2>1, SlotOrder, SlotFacts
  <2>3. due[q] # Slot(q, t)
    BY <1>3, <1>4, <1>6, <2>1, <2>2 DEF InTurn
  <2>4. Bumped(q)
    BY <1>1, <1>2, <2>1, <2>3 DEF Slotted, InTurn
  <2>5. Carriers(r[1], t) = {}
    BY <1>1, <1>2, <2>1, <2>4 DEF Spent
  <2>6. QED
    BY <1>6, <2>1, <2>4, <2>5 DEF HasQuota
<1>9. ASSUME NEW q \in Waiting, InTurn(q), q # r PROVE r[2] < q[2]
  <2>1. q \in Rows
    BY DEF Waiting
  <2>2. r[2] \in Nat /\ q[2] \in Nat /\ (r[2] = q[2] => r = q)
    <3>1. /\ r[2] \in Nat /\ q[2] \in Nat
      BY <1>1, <2>1, RowFacts
    <3>2. r[2] = q[2] => r = q
      BY <1>1, <2>1, OneCampaign
    <3>3. QED
      BY <3>1, <3>2
  <2>3. Slot(q, t + 1) # Slot(q, t) /\ Turn(q) = t
    <3>1. Slot(q, t) < Slot(q, t + 1) /\ Slot(q, t) \in Nat
      BY <1>1, <1>2, <2>1, OneSlot, SlotFacts
    <3>2. QED
      BY <1>2, <2>1, <3>1
  <2>4. ~Bumped(q)
    BY <1>9, <2>3 DEF Bumped, InTurn
  <2>5. ~(q[2] < r[2])
    BY <1>8, <2>4
  <2>6. QED
    BY <1>9, <2>2, <2>5
<1>10. ASSUME NEW q \in Waiting, q[2] = 0 PROVE q = r /\ HasQuota(r)
  <2>1. q \in Rows /\ r[2] \in Nat /\ v \in Windows
    BY <1>1, RowFacts, NowHasCounter DEF Waiting
  <2>2. globalUsed[v] = 0 /\ \A s \in Senders : used[s][v] = 0
    BY <1>1, <1>10, <2>1 DEF FirstGoes
  <2>3. /\ senderId[r[1]] \in Senders /\ resolveSenderLimit(r[1], senderId[r[1]]) \in Nat \ {0}
        /\ GlobalLimit \in Nat \ {0}
    BY <1>1, RowFacts, LimitIsPositive, PacingAssumption
  <2>4. HasQuota(r)
    BY <2>2, <2>3 DEF HasQuota, Carriers, Admits
  <2>5. ~(q[2] < r[2])
    BY <1>8, <2>4
  <2>6. r[2] = q[2]
    BY <1>10, <2>1, <2>5
  <2>7. r = q
    BY <1>1, <2>1, <2>6, OneCampaign
  <2>8. QED
    BY <2>4, <2>7
<1>11. QED
  BY <1>3, <1>6, <1>7, <1>8, <1>9, <1>10

\* A window without room for a campaign has none after more has been sent.
LEMMA FullStaysFull ==
  ASSUME TypeOK, TypeOK', NEW c \in Campaigns, NEW h \in Windows, UNCHANGED paramVars,
         globalUsed'[h] >= globalUsed[h], \A s \in Senders : used'[s][h] >= used[s][h],
         Carriers(c, h) = {}
  PROVE  Carriers(c, h)' = {}
<1>1. senderId[c] \in Senders /\ GlobalLimit \in Nat /\ h \in Windows'
  BY LimitIsPositive, PacingAssumption DEF Windows
<1>2. ASSUME NEW s \in Senders, Admits(c, s, h)' PROVE Admits(c, s, h)
  <2>1. /\ globalUsed[h] \in Nat /\ globalUsed'[h] \in Nat
        /\ used[s][h] \in Nat /\ used'[s][h] \in Nat
        /\ resolveSenderLimit(c, s) \in Nat
    BY <1>1, LimitIsPositive DEF TypeOK
  <2>2. /\ globalUsed'[h] < GlobalLimit /\ used'[s][h] < resolveSenderLimit(c, s)
    BY <1>2 DEF Admits, resolveSenderLimit, paramVars
  <2>3. QED
    BY <1>1, <2>1, <2>2 DEF Admits
<1>3. \A s \in Senders : ~(failover /\ Admits(c, s, h)')
  BY <1>1, <1>2 DEF Carriers
<1>4. PICK own \in Senders : own = senderId[c]
  BY <1>1
<1>5. ~Admits(c, own, h)'
  BY <1>2, <1>4 DEF Carriers
<1>6. senderId' = senderId /\ failover' = failover
  BY DEF paramVars
<1>7. ~Admits(c, senderId[c], h)'
  BY <1>4, <1>5, <1>6 DEF Admits
<1>8. QED
  BY <1>3, <1>6, <1>7 DEF Carriers

\* A job that has been started, and no longer waits or waits for the next window, leaves
\* the queue in order.
LEMMA HandledStep ==
  ASSUME OneHourCampaign, OrderInv, TypeOK', NEW r \in Rows, MayStart(r),
         UNCHANGED <<paramVars, now>>, limiterFreeAt' = now + MinDelay,
         \A q \in Rows \ {r} : state'[q] = state[q] /\ due'[q] = due[q],
         \A h \in Windows : /\ globalUsed'[h] >= globalUsed[h]
                            /\ \A s \in Senders : used'[s][h] >= used[s][h],
         state'[r] = "waiting" => ~HasQuota(r) /\ due'[r] = Slot(r, Turn(r) + 1)
  PROVE  QueueInv'
<1> DEFINE t == Turn(r)
<1>1. /\ r \in Waiting /\ InTurn(r) /\ t = hourWindowId(now) /\ now <= Latest(r, t)
      /\ \A q \in Waiting : InTurn(q) /\ q # r => r[2] < q[2]
      /\ \A q \in Waiting : q[2] = 0 => q = r /\ HasQuota(r)
  BY StartFacts
<1>2. TypeOK /\ Slotted /\ Timely /\ Spent /\ FirstGoes
  BY DEF OrderInv, QueueInv
<1>3. /\ Rows' = Rows
      /\ \A q \in Rows : /\ Turn(q)' = Turn(q) /\ Base(q)' = Base(q)
      /\ \A q, v : Slot(q, v)' = Slot(q, v) /\ Latest(q, v)' = Latest(q, v)
  BY DEF paramVars, Rows, RowsOf, Turn, Base, Slot, Latest
<1>4. /\ t \in Nat /\ t >= Base(r) /\ now \in Nat
      /\ \A q \in Rows : Turn(q) = t /\ Base(q) = Base(r)
                         /\ q[1] = r[1]
  BY <1>2, TurnFacts
<1>5. ASSUME NEW q \in Waiting', q # r
      PROVE  q \in Waiting /\ q \in Rows /\ due'[q] = due[q]
             /\ (InTurn(q)' <=> InTurn(q)) /\ (Bumped(q)' <=> Bumped(q))
  <2>1. q \in Rows /\ q \in Waiting /\ due'[q] = due[q]
    BY <1>3, <1>5 DEF Waiting
  <2>2. QED
    BY <1>3, <2>1 DEF InTurn, Bumped
<1>6. r \in Waiting' => ~HasQuota(r) /\ due'[r] = Slot(r, t + 1) /\ ~InTurn(r)' /\ Bumped(r)'
  <2> SUFFICES ASSUME r \in Waiting'
               PROVE  ~HasQuota(r) /\ due'[r] = Slot(r, t + 1) /\ ~InTurn(r)' /\ Bumped(r)'
    OBVIOUS
  <2>1. ~HasQuota(r) /\ due'[r] = Slot(r, t + 1)
    BY DEF Waiting
  <2>2. Slot(r, t) # Slot(r, t + 1)
    <3>1. Slot(r, t) < Slot(r, t + 1) /\ Slot(r, t) \in Nat
      BY <1>2, <1>4, OneSlot, SlotFacts
    <3>2. QED
      BY <3>1
  <2>3. QED
    BY <1>3, <2>1, <2>2 DEF InTurn, Bumped
<1>7. Slotted'
  <2>1. ASSUME NEW q \in Waiting' PROVE InTurn(q)' \/ Bumped(q)'
    BY <1>2, <1>5, <1>6 DEF Slotted
  <2>2. QED
    BY <2>1 DEF Slotted
<1>8. Timely'
  <2>1. ASSUME NEW q \in Waiting', InTurn(q)'
        PROVE  limiterFreeAt' <= Latest(q, t) /\ now <= Latest(q, t) /\ q \in Rows
    <3>1. q # r /\ q \in Waiting /\ q \in Rows /\ InTurn(q) /\ Turn(q) = t
      BY <1>4, <1>5, <1>6, <2>1
    <3>2. r[2] < q[2] /\ now <= Latest(q, t)
      BY <1>1, <1>2, <3>1 DEF Timely
    <3>3. Latest(r, t) + MinDelay <= Latest(q, t)
      BY <1>2, <1>4, <3>1, <3>2, SlotOrder
    <3>4. Latest(r, t) \in Nat /\ Latest(q, t) \in Nat /\ MinDelay \in Nat
      BY <1>2, <1>4, <3>1, SlotFacts, PacingAssumption
    <3>5. now + MinDelay <= Latest(q, t)
      BY <1>1, <1>4, <3>3, <3>4
    <3>6. QED
      BY <3>1, <3>2, <3>5
  <2>2. limiterFreeAt' <= now' + MinDelay /\ now' = now
    BY <1>4, PacingAssumption
  <2>3. \A q \in Waiting' : InTurn(q)' =>
           limiterFreeAt' <= Latest(q, Turn(q))' /\ now' <= Latest(q, Turn(q))'
    <3>1. ASSUME NEW q \in Waiting', InTurn(q)'
          PROVE  limiterFreeAt' <= Latest(q, Turn(q))' /\ now' <= Latest(q, Turn(q))'
      <4>1. q \in Rows /\ Turn(q)' = t
        BY <1>3, <1>4, <2>1, <3>1
      <4>2. Latest(q, Turn(q))' = Latest(q, t)
        BY <4>1 DEF Latest, paramVars
      <4>3. QED
        BY <2>1, <2>2, <3>1, <4>2
    <3>2. QED
      BY <3>1
  <2>4. QED
    BY <2>2, <2>3 DEF Timely
<1>9. Spent'
  <2>1. ASSUME NEW q \in Waiting', Bumped(q)'
        PROVE  Turn(q)' = hourWindowId(now)' /\ Carriers(q[1], Turn(q))' = {}
    <3>1. q \in Rows /\ Turn(q)' = t /\ q[1] = r[1]
      BY <1>3, <1>4 DEF Waiting
    <3>2. t \in Windows
      BY <1>1, <1>2, NowHasCounter
    <3>3. Carriers(r[1], t) = {}
      <4>1. CASE q = r
        BY <1>1, <1>6, <4>1 DEF HasQuota
      <4>2. CASE q # r
        BY <1>2, <1>4, <1>5, <2>1, <3>1, <4>2 DEF Spent
      <4>3. QED
        BY <4>1, <4>2
    <3>4. PICK h \in Windows : h = t
      BY <3>2
    <3>5. Carriers(r[1], h)' = {}
      <4>1. Carriers(r[1], h) = {} /\ r[1] \in Campaigns
        BY <1>2, <3>3, <3>4, RowFacts
      <4>2. QED
        BY <1>2, <4>1, FullStaysFull
    <3>6. Carriers(q[1], Turn(q))' = {}
      <4> HIDE DEF t
      <4>1. Turn(q)' = h /\ q[1] = r[1]
        BY <3>1, <3>4
      <4>2. QED
        BY <3>5, <4>1 DEF Carriers, Admits
    <3>7. QED
      BY <1>1, <3>1, <3>6
  <2>2. QED
    BY <2>1 DEF Spent
<1>10. FirstGoes'
  <2>1. ASSUME NEW q \in Waiting', q[2] = 0 PROVE FALSE
    BY <1>1, <1>5, <1>6, <2>1
  <2>2. QED
    BY <2>1 DEF FirstGoes
<1>11. QED
  BY <1>7, <1>8, <1>9, <1>10 DEF QueueInv

\* Sending, deferring or giving up on a job keeps the order.
LEMMA JobKeepsOrder ==
  ASSUME OneHourCampaign, OrderInv, TypeOK', NEW r \in Rows,
         Send(r) \/ DeferToNextWindow(r) \/ DeferExhausted(r)
  PROVE  OrderInv'
<1>1. TypeOK /\ SentInOrder /\ MayStart(r) /\ UNCHANGED <<paramVars, now>>
      /\ limiterFreeAt' = now + MinDelay
  BY DEF OrderInv, Send, DeferToNextWindow, DeferExhausted
<1>2. \A q \in Rows \ {r} : state'[q] = state[q] /\ due'[q] = due[q]
  BY <1>1 DEF TypeOK, Send, DeferToNextWindow, DeferExhausted
<1>3. \A h \in Windows : /\ globalUsed'[h] >= globalUsed[h]
                         /\ \A s \in Senders : used'[s][h] >= used[s][h]
  <2>1. \A h \in Windows : globalUsed[h] \in Nat /\ \A s \in Senders : used[s][h] \in Nat
    BY <1>1 DEF TypeOK
  <2>2. CASE Send(r)
    <3>1. PICK s \in Senders : \A h \in Windows :
             /\ globalUsed'[h] =
                   IF h = hourWindowId(now) THEN globalUsed[h] + 1 ELSE globalUsed[h]
             /\ \A p \in Senders :
                   used'[p][h] = IF p = s /\ h = hourWindowId(now)
                                 THEN used[p][h] + 1 ELSE used[p][h]
      BY <1>1, <2>2, SendReserves
    <3>2. QED
      BY <2>1, <3>1
  <2>3. CASE UNCHANGED quotaVars
    BY <2>1, <2>3 DEF quotaVars
  <2>4. QED
    BY <2>2, <2>3 DEF DeferToNextWindow, DeferExhausted
<1>4. state'[r] = "waiting" => ~HasQuota(r) /\ due'[r] = Slot(r, Turn(r) + 1)
  <2> SUFFICES ASSUME state'[r] = "waiting"
               PROVE  ~HasQuota(r) /\ due'[r] = Slot(r, Turn(r) + 1)
    OBVIOUS
  <2>1. ~HasQuota(r) /\ due'[r] = rescheduleTarget(now, r[2], MinDelay)
    BY <1>1 DEF TypeOK, Send, DeferToNextWindow, DeferExhausted
  <2>2. Turn(r) = hourWindowId(now) /\ Turn(r) \in Nat /\ Turn(r) >= Base(r) /\ Base(r) \in Nat
    BY <1>1, StartFacts, TurnFacts
  <2> DEFINE v == hourWindowId(now)
             iM == r[2] * MinDelay
  <2>3. iM \in Nat /\ iM < HOUR_MS /\ MinDelay > 0
    <3>1. PICK c \in Campaigns : r[2] \in 0..size[c] - 1 /\ size[c] \in Sizes /\ size[c] \in Nat
      BY <1>1, OneCampaign
    <3>2. (size[c] - 1) * MinDelay < HOUR_MS /\ MinDelay \in Nat /\ MinDelay > 0
      BY <3>1, PacingAssumption DEF OneHourCampaign
    <3>3. QED
      BY <3>1, <3>2, Fits
  <2>4. Slot(r, v + 1) = (v + 1) * HOUR_MS + iM
    <3>1. v + 1 # Base(r)
      BY <2>2
    <3>2. QED
      BY <3>1 DEF Slot
  <2>5. rescheduleTarget(now, r[2], MinDelay) = v * HOUR_MS + HOUR_MS + iM
    <3>1. iM % HOUR_MS = iM
      BY <2>3, HourAssumption
    <3>2. QED
      BY <2>3, <3>1 DEF rescheduleTarget, nextHourWindowStart, hourWindowStart, hourWindowId
  <2>6. (v + 1) * HOUR_MS = v * HOUR_MS + HOUR_MS
    BY <2>2, HourAssumption
  <2>7. QED
    BY <2>1, <2>2, <2>4, <2>5, <2>6
<1>5. QueueInv'
  BY <1>1, <1>2, <1>3, <1>4, HandledStep
<1>6. SentInOrder'
  <2>1. ASSUME NEW c \in Campaigns, NEW p \in RowsOf(c), NEW q \in RowsOf(c),
               p[2] < q[2], state'[q] = "sent"
        PROVE  state'[p] # "waiting"
    <3>1. p \in Rows /\ q \in Rows
      BY DEF Rows
    <3>2. CASE state[q] = "sent"
      <4>1. state[p] # "waiting"
        BY <1>1, <2>1, <3>2 DEF SentInOrder
      <4>2. p # r
        BY <1>1, <4>1 DEF MayStart
      <4>3. QED
        BY <1>2, <3>1, <4>1, <4>2
    <3>3. CASE state[q] # "sent"
      <4>1. q = r
        BY <1>2, <2>1, <3>1, <3>3
      <4>2. Send(r)
        <5>1. DeferToNextWindow(r) => state'[r] = state[r]
          BY DEF DeferToNextWindow
        <5>2. DeferExhausted(r) => state'[r] = "failed"
          BY <1>1 DEF TypeOK, DeferExhausted
        <5>3. QED
          BY <2>1, <3>3, <4>1, <5>1, <5>2
      <4>3. p \notin Waiting
        <5>1. HasQuota(r)
          BY <4>2 DEF Send, HasQuota
        <5>2. QED
          BY <2>1, <1>1, <4>1, <5>1, StartFacts
      <4>4. p # r
        BY <1>1, <4>3, StartFacts
      <4>5. QED
        BY <1>2, <3>1, <4>3, <4>4 DEF Waiting
    <3>4. QED
      BY <3>2, <3>3
  <2>2. \A c \in Campaigns : RowsOf(c)' = RowsOf(c)
    BY <1>1, SameRows
  <2>3. QED
    BY <2>1, <2>2 DEF SentInOrder
<1>7. QED
  BY <1>5, <1>6 DEF OrderInv

\* A set of natural numbers has a least one.
LEMMA LeastNatural ==
  ASSUME NEW T \in SUBSET Nat, T # {}
  PROVE  \E x \in T : \A y \in T : x <= y
<1> DEFINE less == {p \in Nat \X Nat : p[1] < p[2]}
<1>1. IsWellFoundedOn(less, Nat)
  BY NatLessThanWellFounded DEF OpToRel
<1>2. PICK x \in T : \A y \in T : <<y, x>> \notin less
  BY <1>1, WFMin
<1>3. \A y \in T : ~(y < x)
  BY <1>2
<1>4. QED
  BY <1>3

\* Punctual workers let the clock move only while the next job is not due or the
\* limiter is closed, and neither lasts beyond that job's latest start.
LEMMA NoneIsLate ==
  ASSUME OneHourCampaign, OrderInv, Tick, NEW r \in Waiting, InTurn(r)
  PROVE  now + 1 <= Latest(r, Turn(r))
<1> DEFINE t == Turn(r)
<1>1. TypeOK /\ Slotted /\ Timely
  BY DEF OrderInv, QueueInv
<1>2. /\ r \in Rows /\ t \in Nat /\ t >= Base(r) /\ Base(r) \in Nat /\ now \in Nat
      /\ t + 1 \in Nat /\ t + 1 >= Base(r)
      /\ \A q \in Rows : Turn(q) = t /\ Base(q) = Base(r)
  BY <1>1, TurnFacts DEF Waiting
<1>3. PICK m \in Waiting : \A q \in Waiting : due[m] <= due[q]
  <2> DEFINE dues == {due[q] : q \in Waiting}
  <2>1. dues \in SUBSET Nat /\ dues # {}
    <3>1. \A q \in Waiting : due[q] \in Nat
      BY <1>1 DEF Waiting, TypeOK
    <3>2. due[r] \in dues
      OBVIOUS
    <3>3. QED
      BY <3>1, <3>2
  <2> HIDE DEF dues
  <2>2. PICK x \in dues : \A y \in dues : x <= y
    BY <2>1, LeastNatural
  <2>3. PICK q \in Waiting : x = due[q]
    BY <2>2 DEF dues
  <2>4. QED
    BY <2>2, <2>3 DEF dues
<1>4. m \in Rows /\ due[m] \in Nat /\ due[m] <= due[r] /\ due[r] = Slot(r, t)
  BY <1>1, <1>3 DEF Waiting, TypeOK, InTurn
<1>5. InTurn(m) /\ Turn(m) = t /\ Base(m) = Base(r)
  <2>1. Slot(r, t) < Slot(m, t + 1) /\ Slot(r, t) \in Nat /\ Slot(m, t + 1) \in Nat
    BY <1>1, <1>2, <1>4, OneSlot, SlotFacts
  <2>2. due[m] # Slot(m, t + 1)
    BY <1>4, <2>1
  <2>3. QED
    BY <1>1, <1>2, <1>4, <2>2 DEF Slotted, Bumped
<1>6. ~(limiterFreeAt <= now /\ due[m] <= now)
  <2>1. ~MayStart(m)
    BY <1>4 DEF Tick, OneHourCampaign
  <2>2. state[m] = "waiting" /\ \A q \in Rows : state[q] = "waiting" => due[m] <= due[q]
    BY <1>3 DEF Waiting
  <2>3. QED
    BY <2>1, <2>2 DEF MayStart
<1>7. now < Latest(m, t) /\ Latest(m, t) \in Nat
  <2>1. limiterFreeAt <= Latest(m, t) /\ limiterFreeAt \in Nat
    BY <1>1, <1>5 DEF Timely, TypeOK
  <2>2. due[m] <= Latest(m, t) /\ Latest(m, t) \in Nat
    BY <1>1, <1>2, <1>4, <1>5, SlotFacts DEF InTurn
  <2>3. QED
    BY <1>2, <1>4, <1>6, <2>1, <2>2
<1>8. Latest(m, t) <= Latest(r, t) /\ Latest(r, t) \in Nat
  <2>1. Slot(m, t) \in Nat /\ Slot(r, t) \in Nat /\ Latest(r, t) \in Nat /\ MinDelay \in Nat
    BY <1>1, <1>2, <1>4, <1>5, SlotFacts, PacingAssumption
  <2>2. m[2] \in Nat /\ r[2] \in Nat /\ (m[2] = r[2] => m = r)
    <3>1. m[2] \in Nat /\ r[2] \in Nat
      BY <1>1, <1>2, <1>4, RowFacts
    <3>2. m[2] = r[2] => m = r
      BY <1>1, <1>2, <1>4, OneCampaign
    <3>3. QED
      BY <3>1, <3>2
  <2>3. ~(r[2] < m[2])
    <3>1. ASSUME r[2] < m[2] PROVE Slot(r, t) < Slot(m, t)
      BY <1>1, <1>2, <1>4, <3>1, SlotOrder
    <3>2. QED
      BY <1>4, <1>5, <2>1, <3>1 DEF InTurn
  <2>4. CASE m = r
    BY <1>7, <2>4
  <2>5. CASE m[2] < r[2]
    <3>1. Latest(m, t) + MinDelay <= Latest(r, t)
      BY <1>1, <1>2, <1>4, <1>5, <2>5, SlotOrder
    <3>2. QED
      BY <1>7, <2>1, <3>1
  <2>6. QED
    BY <2>2, <2>3, <2>4, <2>5
<1>9. QED
  BY <1>2, <1>7, <1>8

\* The clock moves on in a window, or into the next.
LEMMA NextWindow ==
  ASSUME NEW at \in Nat
  PROVE  \/ hourWindowId(at + 1) = hourWindowId(at)
         \/ /\ hourWindowId(at + 1) = hourWindowId(at) + 1
            /\ at + 1 = (hourWindowId(at) + 1) * HOUR_MS
<1> DEFINE v == at \div HOUR_MS
           a == v * HOUR_MS
<1>1. v \in Int /\ a \in Int /\ a <= at /\ at < a + HOUR_MS /\ HOUR_MS \in Nat \ {0}
      /\ (v + 1) * HOUR_MS = a + HOUR_MS
  BY HourDivision, HourAssumption
<1>2. CASE at + 1 < a + HOUR_MS
  <2>1. at + 1 - a \in 0..HOUR_MS - 1 /\ a + (at + 1 - a) = at + 1
    <3> HIDE DEF a, v
    <3>1. QED
      BY <1>1, <1>2
  <2>2. (v * HOUR_MS + (at + 1 - a)) \div HOUR_MS = v
    <3> HIDE DEF a, v
    <3>1. QED
      BY <1>1, <2>1, WindowIsUnique
  <2>3. QED
    BY <2>1, <2>2 DEF hourWindowId
<1>3. CASE ~(at + 1 < a + HOUR_MS)
  <2>1. at + 1 = (v + 1) * HOUR_MS
    <3> HIDE DEF a, v
    <3>1. at + 1 = a + HOUR_MS
      BY <1>1, <1>3
    <3>2. QED
      BY <1>1, <3>1
  <2>2. ((v + 1) * HOUR_MS + 0) \div HOUR_MS = v + 1
    <3> HIDE DEF v
    <3>1. v + 1 \in Int /\ 0 \in 0..HOUR_MS - 1
      BY <1>1
    <3>2. QED
      BY <3>1, WindowIsUnique
  <2>3. (v + 1) * HOUR_MS + 0 = (v + 1) * HOUR_MS
    <3> HIDE DEF v
    <3>1. QED
      BY <1>1
  <2>4. QED
    BY <2>1, <2>2, <2>3 DEF hourWindowId
<1>4. QED
  BY <1>2, <1>3

\* The clock keeps the order: no window ends before its rows have been started.
LEMMA TickKeepsOrder ==
  ASSUME OneHourCampaign, OrderInv, TypeOK', Tick
  PROVE  OrderInv'
<1>1. TypeOK /\ Slotted /\ Timely /\ Spent /\ FirstGoes /\ SentInOrder
  BY DEF OrderInv, QueueInv
<1>2. now' = now + 1 /\ UNCHANGED <<paramVars, state, due, used, globalUsed, limiterFreeAt>>
      /\ now \in Nat /\ limiterFreeAt \in Nat /\ MinDelay \in Nat
  BY <1>1, PacingAssumption DEF Tick, rowVars, quotaVars, TypeOK
<1>3. /\ Rows' = Rows /\ Waiting' = Waiting /\ Windows' = Windows
      /\ \A c \in Campaigns : RowsOf(c)' = RowsOf(c)
      /\ \A q \in Rows : Base(q)' = Base(q)
      /\ \A q, v : Slot(q, v)' = Slot(q, v) /\ Latest(q, v)' = Latest(q, v)
  BY <1>2 DEF paramVars, Rows, RowsOf, Waiting, Windows, Base, Slot, Latest
<1>4. SentInOrder' /\ FirstGoes'
  BY <1>1, <1>2, <1>3 DEF SentInOrder, FirstGoes
<1>5. limiterFreeAt' <= now' + MinDelay
  BY <1>1, <1>2 DEF Timely
<1>6. ASSUME NEW r \in Waiting
      PROVE  /\ InTurn(r)' \/ Bumped(r)'
             /\ InTurn(r)' => limiterFreeAt <= Latest(r, Turn(r)') /\ now' <= Latest(r, Turn(r)')
             /\ Bumped(r)' =>
                   Turn(r)' = hourWindowId(now') /\ Carriers(r[1], Turn(r)') = {}
  <2> DEFINE t == Turn(r)
             v == hourWindowId(now)
             u == hourWindowId(now')
  <2>1. r \in Rows
    BY DEF Waiting
  <2>2. /\ t \in Nat /\ v \in Nat /\ Base(r) \in Nat /\ t >= Base(r) /\ t >= v
        /\ t = Base(r) \/ t = v
        /\ t + 1 \in Nat /\ t + 1 >= Base(r)
    BY <1>1, <2>1, TurnFacts
  <2>3. \/ u = v
        \/ u = v + 1 /\ now' = (v + 1) * HOUR_MS
    BY <1>2, NextWindow
  <2>4. Turn(r)' = Larger(u, Base(r)) /\ t = Larger(v, Base(r))
    BY <1>3, <2>1 DEF Turn
  <2>5. InTurn(r) => now + 1 <= Latest(r, t)
    BY NoneIsLate
  <2>6. CASE Turn(r)' = t
    <3>1. (InTurn(r)' <=> InTurn(r)) /\ (Bumped(r)' <=> Bumped(r))
      BY <1>2, <1>3, <2>6 DEF InTurn, Bumped
    <3>2. InTurn(r) \/ Bumped(r)
      BY <1>1 DEF Slotted
    <3>3. InTurn(r) => limiterFreeAt <= Latest(r, t) /\ now' <= Latest(r, t)
      BY <1>1, <1>2, <2>5 DEF Timely
    <3>4. Bumped(r) => t = u /\ Carriers(r[1], t) = {}
      <4>1. Bumped(r) => t = v /\ Carriers(r[1], t) = {}
        BY <1>1 DEF Spent
      <4>2. t = v => t = u
        <5> HIDE DEF t, v, u
        <5>1. QED
          BY <2>2, <2>3, <2>4, <2>6 DEF Larger
      <4>3. QED
        BY <4>1, <4>2
    <3>5. QED
      BY <2>6, <3>1, <3>2, <3>3, <3>4
  <2>7. CASE Turn(r)' # t
    <3>1. t = v /\ u = v + 1 /\ Turn(r)' = t + 1 /\ now' = (t + 1) * HOUR_MS
      <4> DEFINE x == Turn(r)'
      <4>1. x = Larger(u, Base(r)) /\ x # t
        BY <2>4, <2>7
      <4> HIDE DEF t, v, u, x
      <4>2. t = v /\ u = v + 1 /\ x = t + 1
        BY <2>2, <2>3, <2>4, <4>1 DEF Larger
      <4>3. now' = (t + 1) * HOUR_MS
        BY <2>2, <2>3, <4>2
      <4>4. QED
        BY <4>2, <4>3 DEF x
    <3>2. Latest(r, t) < (t + 1) * HOUR_MS /\ Latest(r, t) \in Nat
      BY <1>1, <2>1, <2>2, SlotFacts
    <3>3. ~InTurn(r)
      BY <1>2, <2>5, <3>1, <3>2
    <3>4. due[r] = Slot(r, t + 1)
      BY <1>1, <3>3 DEF Slotted, Bumped
    <3>5. InTurn(r)'
      BY <1>2, <1>3, <3>1, <3>4 DEF InTurn
    <3>6. ~Bumped(r)'
      <4>1. Slot(r, t + 1) < Slot(r, t + 1 + 1) /\ Slot(r, t + 1) \in Nat
        BY <1>1, <2>1, <2>2, OneSlot, SlotFacts
      <4>2. Slot(r, t + 1) # Slot(r, t + 1 + 1)
        BY <4>1
      <4>3. QED
        BY <1>2, <1>3, <3>1, <3>4, <4>2 DEF Bumped
    <3>7. /\ Latest(r, t + 1) \in Nat /\ (t + 1) * HOUR_MS <= Latest(r, t + 1)
          /\ (r[2] > 0 => (t + 1) * HOUR_MS + MinDelay <= Latest(r, t + 1))
      <4> DEFINE k == t + 1
                 a == k * HOUR_MS
                 x == Slot(r, k)
                 y == Latest(r, k)
      <4>1. k \in Nat /\ k >= Base(r)
        BY <2>2
      <4> HIDE DEF k
      <4>2. /\ a \in Nat /\ x \in Nat /\ y \in Nat /\ a <= x /\ x <= y
            /\ (r[2] > 0 => a + MinDelay <= y)
        BY <1>1, <2>1, <4>1, SlotFacts
      <4> HIDE DEF a, x, y
      <4>3. a <= y
        BY <4>2
      <4>4. QED
        BY <4>2, <4>3 DEF a, y, k
    <3>8. limiterFreeAt <= Latest(r, t + 1)
      <4>1. CASE r[2] = 0
        BY <1>1, <3>7, <4>1 DEF FirstGoes
      <4>2. CASE r[2] # 0
        <5>1. r[2] > 0
          BY <1>1, <2>1, <4>2, RowFacts
        <5>2. now' + MinDelay <= Latest(r, t + 1)
          BY <3>1, <3>7, <5>1
        <5>3. limiterFreeAt <= now + MinDelay
          BY <1>1 DEF Timely
        <5>4. QED
          BY <1>2, <3>7, <5>2, <5>3
      <4>3. QED
        BY <4>1, <4>2
    <3>9. QED
      BY <3>1, <3>5, <3>6, <3>7, <3>8
  <2>8. QED
    BY <2>6, <2>7
<1>7. ASSUME NEW r \in Waiting
      PROVE  Latest(r, Turn(r))' = Latest(r, Turn(r)')
  BY <1>2 DEF Latest, paramVars
<1>8. Slotted'
  BY <1>3, <1>6 DEF Slotted
<1>9. Timely'
  BY <1>2, <1>3, <1>5, <1>6, <1>7 DEF Timely
<1>10. Spent'
  <2>1. \A r, h : Carriers(r[1], h)' = Carriers(r[1], h)
    BY <1>2 DEF paramVars, Carriers, Admits, resolveSenderLimit
  <2>2. QED
    BY <1>2, <1>3, <1>6, <2>1 DEF Spent
<1>11. QED
  BY <1>4, <1>8, <1>9, <1>10 DEF OrderInv, QueueInv

\* Nothing has been started.
LEMMA OrderInit == OneHourCampaign /\ Init => OrderInv
<1> SUFFICES ASSUME OneHourCampaign, Init PROVE OrderInv
  OBVIOUS
<1>1. TypeOK
  BY PacingTypingInit
<1>2. SentInOrder
  <2>1. ASSUME NEW c \in Campaigns, NEW q \in RowsOf(c) PROVE state[q] # "sent"
    BY DEF Init, Rows
  <2>2. QED
    BY <2>1 DEF SentInOrder
<1>3. FirstGoes /\ limiterFreeAt = 0 /\ now = 0 /\ limiterFreeAt <= now + MinDelay
  BY PacingAssumption DEF Init, FirstGoes
<1>4. ASSUME NEW r \in Rows
      PROVE  /\ InTurn(r) /\ ~Bumped(r)
             /\ 0 <= Latest(r, Turn(r))
  <2>1. hourWindowId(now) = 0
    <3>1. HOUR_MS \in Int /\ 0 \in 0..HOUR_MS - 1 /\ 0 * HOUR_MS + 0 = 0
      BY HourAssumption
    <3>2. (0 * HOUR_MS + 0) \div HOUR_MS = 0
      BY <3>1, WindowIsUnique
    <3>3. QED
      BY <1>3, <3>1, <3>2 DEF hourWindowId
  <2>2. Turn(r) \in Nat /\ Turn(r) >= Base(r) /\ Base(r) \in Nat /\ Turn(r) = Base(r)
    BY <1>1, <2>1, TurnFacts
  <2>3. due[r] = Slot(r, Base(r))
    BY DEF Init, Slot
  <2>4. Slot(r, Turn(r)) < Slot(r, Turn(r) + 1) /\ Slot(r, Turn(r)) \in Nat
        /\ Latest(r, Turn(r)) \in Nat
    BY <1>1, <2>2, OneSlot, SlotFacts
  <2>5. Slot(r, Turn(r)) # Slot(r, Turn(r) + 1)
    BY <2>4
  <2>6. QED
    BY <2>2, <2>3, <2>4, <2>5 DEF InTurn, Bumped
<1>5. Slotted /\ Timely /\ Spent
  BY <1>3, <1>4 DEF Slotted, Timely, Spent, Waiting
<1>6. QED
  BY <1>1, <1>2, <1>3, <1>5 DEF OrderInv, QueueInv

\* "Order is preserved across the bump" (README.md:358): whatever the quota, the limit of
\* the campaign and the spacing of starts, an email is never sent while an earlier one of
\* its campaign waits, as long as the campaign fits into an hour.
THEOREM OrderIsKept == OneHourCampaign => (Spec => []SentInOrder)
<1> SUFFICES ASSUME OneHourCampaign PROVE Spec => []SentInOrder
  OBVIOUS
<1>1. Init => OrderInv
  BY OrderInit
<1>2. OrderInv /\ [Next]_vars => OrderInv'
  <2> SUFFICES ASSUME OrderInv, [Next]_vars PROVE OrderInv'
    OBVIOUS
  <2>1. TypeOK /\ TypeOK'
    BY PacingTypingStep DEF OrderInv
  <2>2. ASSUME NEW r \in Rows, Send(r) \/ DeferToNextWindow(r) \/ DeferExhausted(r)
        PROVE  OrderInv'
    BY <2>1, <2>2, JobKeepsOrder
  <2>3. CASE Tick
    BY <2>1, <2>3, TickKeepsOrder
  <2>4. CASE UNCHANGED vars
    <3>1. /\ Waiting' = Waiting /\ Windows' = Windows /\ Campaigns' = Campaigns
          /\ \A c \in Campaigns : RowsOf(c)' = RowsOf(c)
          /\ \A q : /\ InTurn(q)' <=> InTurn(q)
                    /\ Bumped(q)' <=> Bumped(q)
                    /\ Turn(q)' = Turn(q) /\ Latest(q, Turn(q))' = Latest(q, Turn(q))
                    /\ \A h : Carriers(q[1], h)' = Carriers(q[1], h)
      BY <2>4 DEF vars, paramVars, rowVars, quotaVars, Carriers, Admits, Waiting, Windows, Rows, RowsOf, InTurn, Bumped, Turn,
         Slot, Base, Latest, resolveSenderLimit
    <3>2. QueueInv'
      BY <2>4, <3>1 DEF vars, paramVars, rowVars, quotaVars, OrderInv, QueueInv, Slotted, Timely, Spent, FirstGoes
    <3>3. SentInOrder'
      BY <2>4, <3>1 DEF vars, paramVars, rowVars, OrderInv, SentInOrder
    <3>4. QED
      BY <2>1, <3>2, <3>3 DEF OrderInv
  <2>5. QED
    BY <2>2, <2>3, <2>4 DEF Next
<1>3. OrderInv => SentInOrder
  BY DEF OrderInv
<1>4. QED
  BY <1>1, <1>2, <1>3, PTL DEF Spec
=============================================================================
