----------------------------- MODULE HourlyQuota -----------------------------
(***************************************************************************)
(* The Redis-backed hourly quota (apps/api/src/ratelimit/) and the worker  *)
(* code around it (processEmail, emailWorker.ts:172-246): a slot is        *)
(* reserved against the window the caller read from its clock, by a Lua    *)
(* script that Redis may have forgotten; a full sender may fail over to    *)
(* another one; a failed send may refund its slot.  The clock is the       *)
(* number of the current hour window and may roll over between any two     *)
(* steps.                                                                  *)
(***************************************************************************)
EXTENDS Integers, FiniteSets, FiniteSetsExt

CONSTANTS
    Workers,         \* concurrent executions of processEmail
    Senders,
    None,
    GlobalLimit,     \* MAX_EMAILS_PER_HOUR
    SenderLimits,    \* per sender, the limits its jobs resolve to (campaigns differ)
    Failover,        \* SENDER_FAILOVER
    RefundOnFailure, \* RATE_LIMIT_REFUND_ON_FAILURE
    LateFailures,    \* may a send fail after the SMTP server has accepted it?
    RollMidReserve,  \* may the hour roll between reserve's clock reading and the
                     \* Date.now() a refund is keyed by?
    MaxWindow,       \* bound: the last hour window, in which jobs end and none starts
    DataLoss         \* may a restart lose the counters, or only the script cache?

Windows == 0..MaxWindow
Ceiling(s) == CHOOSE l \in SenderLimits[s] : \A k \in SenderLimits[s] : k <= l

ASSUME QuotaAssumption ==
    /\ GlobalLimit \in Nat \ {0}
    /\ SenderLimits \in [Senders -> SUBSET (Nat \ {0})]
    /\ \A s \in Senders : \E l \in SenderLimits[s] : \A k \in SenderLimits[s] : k <= l
    /\ {Failover, RefundOnFailure, LateFailures, RollMidReserve, DataLoss} \subseteq BOOLEAN
    /\ MaxWindow \in Nat
    /\ None \notin Senders

VARIABLES
    window,       \* the hour window the wall clock is in
    globalUsed,   \* Redis: rl:global:<window>
    senderUsed,   \* Redis: rl:sender:<id>:<window>
    scriptCached, \* Redis: the Lua script is in the script cache
    pc, sender, limit, assigned, windowId, reservedAt,  \* locals of a worker
    charged,      \* history: the window a worker's slot was charged to
    granted,      \* history: slots granted per window
    grantedTo,    \* history: slots granted per sender and window
    delivered,    \* history: accepted emails that keep their slot, per its window
    sentIn        \* history: the same, per window of the wall clock

redisVars  == <<globalUsed, senderUsed, scriptCached>>
localVars  == <<sender, limit, assigned, windowId, reservedAt, charged>>
grantVars  == <<granted, grantedTo>>
sendVars   == <<delivered, sentIn>>
vars == <<window, redisVars, pc, localVars, grantVars, sendVars>>

Stages == {"idle", "eval", "reload", "retry", "usage", "stamp", "send", "refund"}

\* Every variable has its type, and a worker between the reservation and its
\* answer holds the limit of the sender it was assigned (tryReserveHourlySlot).
TypeOK ==
    /\ window \in Windows
    /\ globalUsed \in [Windows -> Nat]
    /\ senderUsed \in [Senders -> [Windows -> Nat]]
    /\ scriptCached \in BOOLEAN
    /\ pc \in [Workers -> Stages]
    /\ sender \in [Workers -> Senders \cup {None}]
    /\ assigned \in [Workers -> Senders \cup {None}]
    /\ limit \in [Workers -> Nat]
    /\ windowId \in [Workers -> Windows]
    /\ reservedAt \in [Workers -> Windows]
    /\ charged \in [Workers -> Windows]
    /\ granted \in [Windows -> Int]
    /\ grantedTo \in [Senders -> [Windows -> Int]]
    /\ delivered \in [Windows -> Nat]
    /\ sentIn \in [Windows -> Nat]
    /\ \A w \in Workers : pc[w] \in {"eval", "reload", "retry"} =>
          sender[w] \in Senders /\ limit[w] \in SenderLimits[sender[w]]

Init ==
    /\ window = 0
    /\ globalUsed = [h \in Windows |-> 0]
    /\ senderUsed = [s \in Senders |-> [h \in Windows |-> 0]]
    /\ scriptCached = FALSE
    /\ pc = [w \in Workers |-> "idle"]
    /\ sender = [w \in Workers |-> None]
    /\ assigned = [w \in Workers |-> None]
    /\ limit = [w \in Workers |-> 0]
    /\ windowId = [w \in Workers |-> 0]
    /\ reservedAt = [w \in Workers |-> 0]
    /\ charged = [w \in Workers |-> 0]
    /\ granted = [h \in Windows |-> 0]
    /\ grantedTo = [s \in Senders |-> [h \in Windows |-> 0]]
    /\ delivered = [h \in Windows |-> 0]
    /\ sentIn = [h \in Windows |-> 0]

------------------------------------------------------------------------------
GoTo(w, stage) == pc' = [pc EXCEPT ![w] = stage]

\* The job is over (sent, failed, deferred or crashed): the locals are gone.
Finish(w) ==
    /\ GoTo(w, "idle")
    /\ sender' = [sender EXCEPT ![w] = None]
    /\ assigned' = [assigned EXCEPT ![w] = None]
    /\ limit' = [limit EXCEPT ![w] = 0]
    /\ windowId' = [windowId EXCEPT ![w] = 0]
    /\ reservedAt' = [reservedAt EXCEPT ![w] = 0]
    /\ charged' = [charged EXCEPT ![w] = 0]

\* reserve() reads the clock; the keys name that window from now on.
\* The buggy variant leaves the limit of the previous reservation in place.
ReserveForOldLimit(w, s, l) ==
    /\ l \in Nat
    /\ sender' = [sender EXCEPT ![w] = s]
    /\ windowId' = [windowId EXCEPT ![w] = window]
    /\ GoTo(w, "eval")
    /\ UNCHANGED limit

ReserveFor(w, s, l) ==
    /\ sender' = [sender EXCEPT ![w] = s]
    /\ limit' = [limit EXCEPT ![w] = l]
    /\ windowId' = [windowId EXCEPT ![w] = window]
    /\ GoTo(w, "eval")

Start(w, s, l) ==
    /\ pc[w] = "idle" /\ window < MaxWindow
    /\ l \in SenderLimits[s]
    /\ ReserveFor(w, s, l)
    /\ assigned' = [assigned EXCEPT ![w] = s]
    /\ UNCHANGED <<window, redisVars, reservedAt, charged, grantVars, sendVars>>

\* Both ceilings have room; the buggy variant lets one email too many through.
RoomForOneMore(s, h, l) == globalUsed[h] <= GlobalLimit /\ senderUsed[s][h] <= l
HasRoom(s, h, l) == globalUsed[h] < GlobalLimit /\ senderUsed[s][h] < l

\* hourly-quota.lua, atomic in Redis: both ceilings are checked before either
\* counter moves.
Script(w) ==
    LET s == sender[w]
        h == windowId[w]
    IN
    IF HasRoom(s, h, limit[w])
    THEN /\ globalUsed' = [globalUsed EXCEPT ![h] = @ + 1]
         /\ senderUsed' = [senderUsed EXCEPT ![s][h] = @ + 1]
         /\ granted' = [granted EXCEPT ![h] = @ + 1]
         /\ grantedTo' = [grantedTo EXCEPT ![s][h] = @ + 1]
         /\ charged' = [charged EXCEPT ![w] = h]
         /\ GoTo(w, "stamp")
         /\ UNCHANGED <<sender, limit, assigned, windowId, reservedAt>>
    ELSE \* refused: a full sender may fail over once, everything else defers
         /\ IF globalUsed[h] < GlobalLimit /\ Failover /\ s = assigned[w]
            THEN GoTo(w, "usage") /\ UNCHANGED localVars
            ELSE Finish(w)
         /\ UNCHANGED <<globalUsed, senderUsed, granted, grantedTo>>

\* EVALSHA; NOSCRIPT sends the caller to SCRIPT LOAD and one more EVALSHA.  The
\* first LOAD of a process, which does not know the SHA yet, takes the same path.
EvalSha(w) ==
    /\ pc[w] = "eval"
    /\ IF scriptCached
       THEN Script(w)
       ELSE GoTo(w, "reload")
            /\ UNCHANGED <<globalUsed, senderUsed, localVars, grantVars>>
    /\ UNCHANGED <<window, scriptCached, sendVars>>

LoadScript(w) ==
    /\ pc[w] = "reload"
    /\ scriptCached' = TRUE
    /\ GoTo(w, "retry")
    /\ UNCHANGED <<window, globalUsed, senderUsed, localVars, grantVars,
                   sendVars>>

\* The second EVALSHA is not retried: a script lost again fails the job.
RetryEvalSha(w) ==
    /\ pc[w] = "retry"
    /\ IF scriptCached
       THEN Script(w)
       ELSE Finish(w) /\ UNCHANGED <<globalUsed, senderUsed, grantVars>>
    /\ UNCHANGED <<window, scriptCached, sendVars>>

\* findAlternativeSender: another sender whose counter of the current window is
\* below its limit, if there is one; the reservation that follows may be refused.
FindAlternative(w) ==
    LET others == Senders \ {assigned[w]}
        used(s) == senderUsed[s][window]
    IN
    /\ pc[w] = "usage"
    /\ \/ \E s \in others : \E l \in SenderLimits[s] :
             /\ used(s) < l
             /\ ReserveFor(w, s, l)
             /\ UNCHANGED <<assigned, reservedAt, charged>>
       \/ /\ \A s \in others : \E l \in SenderLimits[s] : used(s) >= l
          /\ Finish(w)
    /\ UNCHANGED <<window, redisVars, grantVars, sendVars>>

\* reservedAt = Date.now(), read after the reservation has come back.
StampReservation(w) ==
    /\ pc[w] = "stamp"
    /\ reservedAt' = [reservedAt EXCEPT ![w] = window]
    /\ GoTo(w, "send")
    /\ UNCHANGED <<window, redisVars, sender, limit, assigned, windowId, charged,
                   grantVars, sendVars>>

\* Buggy variant: the refund runs whatever the send did.
SendAcceptedRefunds(w) ==
    /\ pc[w] = "send"
    /\ delivered' = [delivered EXCEPT ![charged[w]] = @ + 1]
    /\ sentIn' = [sentIn EXCEPT ![window] = @ + 1]
    /\ GoTo(w, "refund")
    /\ UNCHANGED <<window, redisVars, localVars, grantVars>>

SendAccepted(w) ==
    /\ pc[w] = "send"
    /\ delivered' = [delivered EXCEPT ![charged[w]] = @ + 1]
    /\ sentIn' = [sentIn EXCEPT ![window] = @ + 1]
    /\ Finish(w)
    /\ UNCHANGED <<window, redisVars, grantVars>>

\* The catch block.
HandleError(w) ==
    IF RefundOnFailure THEN GoTo(w, "refund") /\ UNCHANGED localVars ELSE Finish(w)

SendFailed(w) ==
    /\ pc[w] = "send"
    /\ HandleError(w)
    /\ UNCHANGED <<window, redisVars, grantVars, sendVars>>

\* The server has the email, but its reply or the transaction that stores SENT is
\* lost: the catch block cannot tell, and a refund hands its slot to another one.
SendFailedLate(w) ==
    /\ LateFailures
    /\ pc[w] = "send"
    /\ IF RefundOnFailure
       THEN UNCHANGED sendVars
       ELSE /\ delivered' = [delivered EXCEPT ![charged[w]] = @ + 1]
            /\ sentIn' = [sentIn EXCEPT ![window] = @ + 1]
    /\ HandleError(w)
    /\ UNCHANGED <<window, redisVars, grantVars>>

\* What a refund leaves of a sender's counter; the buggy variant forgets it.
NotRefunded(n) == n
Refunded(n) == IF n > 0 THEN n - 1 ELSE 0

\* refund: a no-op once the window of reservedAt has rolled over; otherwise both
\* counters of that window go down, each only if it is above zero.
Refund(w) ==
    LET s == sender[w]
        h == reservedAt[w]
    IN
    /\ pc[w] = "refund"
    /\ IF h = window
       THEN /\ globalUsed' = [globalUsed EXCEPT ![h] = IF @ > 0 THEN @ - 1 ELSE 0]
            /\ senderUsed' = [senderUsed EXCEPT ![s][h] = Refunded(@)]
            /\ granted' = [granted EXCEPT ![charged[w]] = @ - 1]
            /\ grantedTo' = [grantedTo EXCEPT ![s][charged[w]] = @ - 1]
       ELSE UNCHANGED <<globalUsed, senderUsed, grantVars>>
    /\ Finish(w)
    /\ UNCHANGED <<window, scriptCached, sendVars>>

------------------------------------------------------------------------------
(* Environment *)

\* The process dies; also a refused recipient, which ends the job with no refund.
Crash(w) ==
    /\ pc[w] # "idle"
    /\ Finish(w)
    /\ UNCHANGED <<window, redisVars, grantVars, sendVars>>

\* The clock rolls over.  No reservation is still on its way to Redis a whole
\* window after its clock reading, so none outlives the two hours of KEY_TTL.
Tick ==
    /\ window < MaxWindow
    /\ \A w \in Workers : pc[w] \in {"eval", "reload", "retry"} => windowId[w] = window
    /\ RollMidReserve \/ \A w \in Workers : pc[w] \notin {"eval", "reload", "retry", "stamp"}
    /\ window' = window + 1
    /\ UNCHANGED <<redisVars, pc, localVars, grantVars, sendVars>>

\* Two hours after its own first increment a key is gone: the keys of one window have
\* been started at different times of their hour, and expire apart.
Expired(h) == h + 2 <= window

ExpireGlobal(h) ==
    /\ Expired(h) /\ globalUsed[h] > 0
    /\ globalUsed' = [globalUsed EXCEPT ![h] = 0]
    /\ UNCHANGED <<window, senderUsed, scriptCached, pc, localVars, grantVars,
                   sendVars>>

ExpireSender(s, h) ==
    /\ Expired(h) /\ senderUsed[s][h] > 0
    /\ senderUsed' = [senderUsed EXCEPT ![s][h] = 0]
    /\ UNCHANGED <<window, globalUsed, scriptCached, pc, localVars, grantVars,
                   sendVars>>

RedisRestart ==
    /\ scriptCached' = FALSE
    /\ IF DataLoss
       THEN /\ globalUsed' = [h \in Windows |-> 0]
            /\ senderUsed' = [s \in Senders |-> [h \in Windows |-> 0]]
       ELSE UNCHANGED <<globalUsed, senderUsed>>
    /\ UNCHANGED <<window, pc, localVars, grantVars, sendVars>>

WorkerStep(w) ==
    \/ \E s \in Senders : \E l \in SenderLimits[s] : Start(w, s, l)
    \/ EvalSha(w) \/ LoadScript(w) \/ RetryEvalSha(w) \/ FindAlternative(w)
    \/ StampReservation(w) \/ SendAccepted(w) \/ SendFailed(w) \/ SendFailedLate(w)
    \/ Refund(w) \/ Crash(w)

Next ==
    \/ \E w \in Workers : WorkerStep(w)
    \/ Tick
    \/ \E h \in Windows : ExpireGlobal(h) \/ \E s \in Senders : ExpireSender(s, h)
    \/ RedisRestart

Spec == Init /\ [][Next]_vars

------------------------------------------------------------------------------
(* Properties *)

\* Slots granted (and not given back) never exceed the global ceiling of their
\* window, nor what any of the sender's jobs may resolve to (hourly-quota.lua:34).
NeverOversubscribed ==
    \A h \in Windows :
        /\ granted[h] <= GlobalLimit
        /\ \A s \in Senders : grantedTo[s][h] <= Ceiling(s)

\* Every email that keeps its slot is backed by one of the window it was charged
\* to, so deliveries stay under the ceiling across crashes, failovers, refunds and
\* lost script caches (emailWorker.ts:121).  A refund is for a send that failed
\* before the provider accepted it (rateLimiter.ts:131); an email accepted by a
\* send that failed late is one beyond, and is not counted.
DeliveriesWithinQuota == \A h \in Windows : delivered[h] <= GlobalLimit

\* In every window whose counters may still admit, refuse or be refunded, the global one
\* is the sum of the sender counters: no refusal, failover or refund leaks quota of one
\* kind (hourly-quota.lua:8, rateLimiter.ts:136).  Later its keys expire one by one.
NoLeak ==
    \A h \in Windows : ~Expired(h) =>
        globalUsed[h] = MapThenSumSet(LAMBDA s : senderUsed[s][h], Senders)

\* Seen from the wall clock an hour may carry more than the ceiling, but only by
\* the reservations still in flight when it began.  As above, an email whose slot is
\* refunded although the server has it is not counted.
ClockOverrunBounded ==
    \A h \in Windows : sentIn[h] <= GlobalLimit + Cardinality(Workers)

------------------------------------------------------------------------------
(* A statement of the repository that the code does not keep *)

\* "refunding into a *new* window would hand out quota that was never spent
\* there" (rateLimiter.ts:133): a refund touches only the window its slot was
\* charged to.
RefundsOwnWindow ==
    [][\A w \in Workers : Refund(w) =>
          \A h \in Windows : h # charged[w] => globalUsed'[h] = globalUsed[h]]_vars
=============================================================================
