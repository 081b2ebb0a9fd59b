---------------------------- MODULE CampaignPacing ----------------------------
(***************************************************************************)
(* How campaigns drain over a real clock: scheduleCampaign materialises a  *)
(* cadence and projects the end; BullMQ promotes jobs in the order of      *)
(* their due times and spaces their starts (the worker's limiter); a job   *)
(* that finds its hourly quota spent goes out over another sender, if the  *)
(* deployment fails over and one has room, or is moved into the next       *)
(* window, at an offset derived from its position (deferToNextWindow).     *)
(* A job's processing takes no time here and every delivery succeeds: the  *)
(* clock moves between jobs, and retries are EmailDelivery's.              *)
(***************************************************************************)
EXTENDS Scheduling, FiniteSets

CONSTANTS
    Campaigns,       \* all campaigns of the deployment
    Senders,         \* its active senders
    Sizes,           \* how many recipients a campaign may have
    Starts,          \* startAt
    Delays,          \* delayBetweenMs
    HourlyLimits,    \* hourlyLimit of a campaign; 0: inherit the sender's
    SenderMaxes,     \* maxEmailsPerHour of a sender, or the deployment's
    GlobalLimit,     \* MAX_EMAILS_PER_HOUR
    Failovers,       \* SENDER_FAILOVER of the deployments considered
    MinDelay,        \* MIN_DELAY_BETWEEN_SENDS_MS
    MaxReschedules,  \* MAX_RESCHEDULES
    Punctual,        \* do the workers start a job as soon as they may?
    MaxClock,        \* bound: the last instant
    Never

ASSUME PacingAssumption ==
    /\ Sizes \subseteq Nat \ {0}
    /\ {Starts, Delays, HourlyLimits} \subseteq SUBSET Nat
    /\ SenderMaxes \subseteq Nat \ {0} /\ GlobalLimit \in Nat \ {0}
    /\ Failovers \subseteq BOOLEAN
    /\ MinDelay \in Nat /\ MaxReschedules \in Nat \ {0} /\ MaxClock \in Nat
    /\ Punctual \in BOOLEAN
    /\ Never \notin Nat

VARIABLES
    size, startAt, delayBetweenMs, hourlyLimit, senderId,  \* campaigns, never change
    maxPerHour,       \* of the senders; never changes
    failover,         \* SENDER_FAILOVER; never changes
    now,
    state,            \* of the row <<campaign, seq>>: status, as far as it matters
    due,              \* the delay BullMQ has for the row's job
    rescheduleCount,
    sentAt,
    used,             \* Redis: every sender's counter per window
    globalUsed,       \* Redis: the deployment's counter per window
    limiterFreeAt     \* BullMQ: when the limiter admits the next job

paramVars == <<size, startAt, delayBetweenMs, hourlyLimit, senderId, maxPerHour, failover>>
rowVars   == <<state, due, rescheduleCount, sentAt>>
quotaVars == <<used, globalUsed>>
vars == <<paramVars, now, rowVars, quotaVars, limiterFreeAt>>

Windows == 0..hourWindowId(MaxClock)
RowsOf(c) == {<<c, seq>> : seq \in 0..size[c] - 1}
Rows == UNION {RowsOf(c) : c \in Campaigns}

\* Every variable has its type, and a row is dated exactly when it was sent
\* (processEmail stamps sentAt together with SENT).
TypeOK ==
    /\ size \in [Campaigns -> Sizes]
    /\ startAt \in [Campaigns -> Starts]
    /\ delayBetweenMs \in [Campaigns -> Delays]
    /\ hourlyLimit \in [Campaigns -> HourlyLimits]
    /\ senderId \in [Campaigns -> Senders]
    /\ maxPerHour \in [Senders -> SenderMaxes]
    /\ failover \in Failovers
    /\ now \in 0..MaxClock
    /\ state \in [Rows -> {"waiting", "sent", "failed"}]
    /\ due \in [Rows -> Nat]
    /\ rescheduleCount \in [Rows -> Nat]
    /\ sentAt \in [Rows -> Nat \cup {Never}]
    /\ \A r \in Rows : state[r] = "sent" <=> sentAt[r] # Never
    /\ used \in [Senders -> [Windows -> Nat]]
    /\ globalUsed \in [Windows -> Nat]
    /\ limiterFreeAt \in Nat

\* scheduleCampaign has written the rows and enqueued their jobs.
Init ==
    /\ size \in [Campaigns -> Sizes]
    /\ startAt \in [Campaigns -> Starts]
    /\ delayBetweenMs \in [Campaigns -> Delays]
    /\ hourlyLimit \in [Campaigns -> HourlyLimits]
    /\ senderId \in [Campaigns -> Senders]
    /\ maxPerHour \in [Senders -> SenderMaxes]
    /\ failover \in Failovers
    /\ now = 0
    /\ state = [r \in Rows |-> "waiting"]
    /\ due = [r \in Rows |->
           scheduledAtForSeq(startAt[r[1]], r[2], delayBetweenMs[r[1]])]
    /\ rescheduleCount = [r \in Rows |-> 0]
    /\ sentAt = [r \in Rows |-> Never]
    /\ used = [s \in Senders |-> [h \in Windows |-> 0]]
    /\ globalUsed = [h \in Windows |-> 0]
    /\ limiterFreeAt = 0

Smaller(a, b) == IF a <= b THEN a ELSE b
\* What campaign c may send over sender s per window.
resolveSenderLimit(c, s) ==
    IF hourlyLimit[c] > 0 THEN Smaller(hourlyLimit[c], maxPerHour[s]) ELSE maxPerHour[s]

------------------------------------------------------------------------------
\* BullMQ, external: the limiter is open and no other due job is ahead of r.
\* Jobs that are due at the same instant may start in any order.
MayStart(r) ==
    /\ limiterFreeAt <= now
    /\ state[r] = "waiting" /\ due[r] <= now
    /\ \A q \in Rows : state[q] = "waiting" => due[r] <= due[q]

\* hourly-quota.lua: both ceilings are checked before either counter moves.
Admits(c, s, h) ==
    globalUsed[h] < GlobalLimit /\ used[s][h] < resolveSenderLimit(c, s)

\* The senders a job of campaign c may go out over in window h: its own or, when
\* only that one is full and the deployment fails over, any other with room.
Carriers(c, h) ==
    IF Admits(c, senderId[c], h) THEN {senderId[c]}
    ELSE {s \in Senders : failover /\ Admits(c, s, h)}

HasQuota(r) == Carriers(r[1], hourWindowId(now)) # {}

\* Reserves the quota of sender s, and of the deployment.
Reserve(s) ==
    /\ used' = [used EXCEPT ![s][hourWindowId(now)] = @ + 1]
    /\ globalUsed' = [globalUsed EXCEPT ![hourWindowId(now)] = @ + 1]

\* Buggy variant: the row does not say when it was sent.
SendUndated(r) ==
    /\ MayStart(r)
    /\ \E s \in Carriers(r[1], hourWindowId(now)) : Reserve(s)
    /\ state' = [state EXCEPT ![r] = "sent"]
    /\ limiterFreeAt' = now + MinDelay
    /\ UNCHANGED <<paramVars, now, due, rescheduleCount, sentAt>>

Send(r) ==
    /\ MayStart(r)
    /\ \E s \in Carriers(r[1], hourWindowId(now)) : Reserve(s)
    /\ state' = [state EXCEPT ![r] = "sent"]
    /\ sentAt' = [sentAt EXCEPT ![r] = now]
    /\ limiterFreeAt' = now + MinDelay
    /\ UNCHANGED <<paramVars, now, due, rescheduleCount>>

DeferToNextWindow(r) ==
    /\ MayStart(r) /\ ~HasQuota(r)
    /\ rescheduleCount[r] < MaxReschedules
    /\ due' = [due EXCEPT ![r] = rescheduleTarget(now, r[2], MinDelay)]
    /\ rescheduleCount' = [rescheduleCount EXCEPT ![r] = @ + 1]
    /\ limiterFreeAt' = now + MinDelay
    /\ UNCHANGED <<paramVars, now, state, sentAt, quotaVars>>

DeferExhausted(r) ==
    /\ MayStart(r) /\ ~HasQuota(r)
    /\ rescheduleCount[r] >= MaxReschedules
    /\ state' = [state EXCEPT ![r] = "failed"]
    /\ limiterFreeAt' = now + MinDelay
    /\ UNCHANGED <<paramVars, now, due, rescheduleCount, sentAt, quotaVars>>

\* Workers that are not Punctual may be slow or down while the clock moves on.
Tick ==
    /\ now < MaxClock
    /\ \E r \in Rows : state[r] = "waiting"
    /\ Punctual => \A r \in Rows : ~MayStart(r)
    /\ now' = now + 1
    /\ UNCHANGED <<paramVars, rowVars, quotaVars, limiterFreeAt>>

Next ==
    \/ \E r \in Rows : Send(r) \/ DeferToNextWindow(r) \/ DeferExhausted(r)
    \/ Tick

Spec == Init /\ [][Next]_vars

------------------------------------------------------------------------------
(* Properties *)

\* "Order is preserved across the bump" (README.md:358): no email is sent while
\* an earlier one of its campaign still waits.
SentInOrder ==
    \A c \in Campaigns : \A r, q \in RowsOf(c) :
        r[2] < q[2] /\ state[q] = "sent" => state[r] # "waiting"

\* An email is deferred only by a window that its sender or the deployment has used
\* up, so never more often than other emails fill windows: a backlog that fits
\* MAX_RESCHEDULES windows is not failed by its deferrals (emailWorker.ts:316).
FullWindow(c) == Smaller(resolveSenderLimit(c, senderId[c]), GlobalLimit)
DeferralsBounded ==
    \A r \in Rows : rescheduleCount[r] * FullWindow(r[1]) < Cardinality(Rows)

\* The reschedule budget is worth hours: no email is failed for quota before
\* MAX_RESCHEDULES windows have passed since its campaign started, however the
\* workers, the limiter and the offsets time it (emailWorker.ts:316).
FailedOnlyAfterHours ==
    \A r \in Rows :
        state[r] = "failed" =>
            hourWindowId(now) >= hourWindowId(startAt[r[1]]) + MaxReschedules

\* The projected completion is a lower bound: no campaign is through before the
\* instant its author was shown (scheduling.ts:59).  With SENDER_FAILOVER several
\* senders share a window's emails, and a campaign may well beat that instant; it
\* cannot beat the projection for the deployment's ceiling.
ProjectedLimit(c) == IF failover THEN GlobalLimit ELSE resolveSenderLimit(c, senderId[c])
NotBeforeProjected ==
    \A c \in Campaigns :
        (\A r \in RowsOf(c) : state[r] = "sent") =>
            \E r \in RowsOf(c) :
                sentAt[r] >= projectCampaign(startAt[c], size[c], delayBetweenMs[c],
                                             ProjectedLimit(c)).completesAt
=============================================================================
