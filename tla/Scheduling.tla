------------------------------ MODULE Scheduling ------------------------------
(***************************************************************************)
(* The pure scheduling arithmetic shared by the API and the dashboard      *)
(* (packages/shared/src/scheduling.ts).  Instants are integers; HOUR_MS is *)
(* a parameter so that TLC can use short hours.                            *)
(***************************************************************************)
EXTENDS Integers

CONSTANT HOUR_MS

ASSUME HourAssumption == HOUR_MS \in Nat \ {0}

Larger(a, b) == IF a >= b THEN a ELSE b

hourWindowId(at) == at \div HOUR_MS
hourWindowStart(at) == (at \div HOUR_MS) * HOUR_MS
nextHourWindowStart(at) == hourWindowStart(at) + HOUR_MS
msUntilNextWindow(at) == Larger(1, nextHourWindowStart(at) - at)

scheduledAtForSeq(startAt, seq, delayBetweenMs) == startAt + seq * delayBetweenMs

\* The quota's half of the projection: the window of the last email, when each
\* window admits hourlyLimit of them.  The buggy variant is one window late.
CompletesOneWindowLate(startAt, windows) ==
    nextHourWindowStart(startAt) + (windows - 1) * HOUR_MS
CompletesByQuota(startAt, windows) ==
    nextHourWindowStart(startAt) + (windows - 2) * HOUR_MS

projectCampaign(startAt, recipientCount, delayBetweenMs, hourlyLimit) ==
    LET byDelay == scheduledAtForSeq(startAt, recipientCount - 1, delayBetweenMs)
        windows == (recipientCount + hourlyLimit - 1) \div hourlyLimit  \* ceil
        byQuota == IF windows <= 1 THEN byDelay ELSE CompletesByQuota(startAt, windows)
        result(at, n, throttled) == [completesAt |-> at, windowsRequired |-> n,
                                     throttledByHourlyLimit |-> throttled]
    IN
    IF recipientCount <= 0 THEN result(startAt, 0, FALSE)
    ELSE IF hourlyLimit <= 0 THEN result(byDelay, 1, FALSE)
    ELSE result(Larger(byDelay, byQuota), windows, byQuota > byDelay)

\* Buggy variants: no seq offset, and an aim at the window that is already full.
TargetWithoutOffset(now, seq, minDelayMs) ==
    IF seq >= 0 /\ minDelayMs >= 0 THEN nextHourWindowStart(now) ELSE now
TargetInThisWindow(now, seq, minDelayMs) ==
    hourWindowStart(now) + ((seq * minDelayMs) % HOUR_MS)

rescheduleTarget(now, seq, minDelayMs) ==
    nextHourWindowStart(now)
        + (IF minDelayMs > 0 THEN (seq * minDelayMs) % HOUR_MS ELSE 0)
=============================================================================
