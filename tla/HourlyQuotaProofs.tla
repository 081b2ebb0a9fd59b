-------------------------- MODULE HourlyQuotaProofs --------------------------
(* Proofs about HourlyQuota: types, the ceilings that reserve() enforces, and *)
(* what they say of the emails that go out.                                   *)
EXTENDS HourlyQuota, FiniteSetTheorems, WellFoundedInduction, TLAPS

Evaluating == {"eval", "reload", "retry"}

\* A key of a past window expires.
Expiry == \E h \in Windows : ExpireGlobal(h) \/ \E s \in Senders : ExpireSender(s, h)

\* The locals and the program counters are well typed.
LocalsOK ==
    /\ pc \in [Workers -> Stages]
    /\ sender \in [Workers -> Senders \cup {None}]
    /\ assigned \in [Workers -> Senders \cup {None}]
    /\ limit \in [Workers -> Nat]
    /\ windowId \in [Workers -> Windows]
    /\ reservedAt \in [Workers -> Windows]
    /\ charged \in [Workers -> Windows]
    /\ \A w \in Workers : pc[w] \in Evaluating =>
          sender[w] \in Senders /\ limit[w] \in SenderLimits[sender[w]]

\* A worker outside these steps has nothing to send to Redis.
LEMMA FinishLocals ==
  ASSUME TypeOK, NEW w \in Workers, Finish(w)
  PROVE  LocalsOK'
<1>1. 0 \in Windows /\ 0 \in Nat
  BY QuotaAssumption DEF Windows
<1> HIDE QuotaAssumption
<1>2. /\ windowId' \in [Workers -> Windows]
      /\ reservedAt' \in [Workers -> Windows]
      /\ charged' \in [Workers -> Windows]
      /\ limit' \in [Workers -> Nat]
  BY <1>1 DEF TypeOK, Finish
<1>3. /\ pc' \in [Workers -> Stages]
      /\ sender' \in [Workers -> Senders \cup {None}]
      /\ assigned' \in [Workers -> Senders \cup {None}]
  BY DEF TypeOK, Finish, GoTo, Stages
<1>4. \A x \in Workers : pc'[x] \in Evaluating =>
        pc[x] \in Evaluating /\ sender'[x] = sender[x] /\ limit'[x] = limit[x]
  BY DEF TypeOK, Finish, GoTo, Evaluating
<1>5. QED
  BY <1>2, <1>3, <1>4 DEF TypeOK, LocalsOK, Evaluating

\* A worker that keeps its locals may move to any step that does not evaluate.
LEMMA MoveLocals ==
  ASSUME TypeOK, NEW w \in Workers, NEW stage \in Stages \ Evaluating,
         GoTo(w, stage), UNCHANGED <<sender, limit, assigned, windowId>>,
         reservedAt' \in [Workers -> Windows], charged' \in [Workers -> Windows]
  PROVE  LocalsOK'
BY DEF TypeOK, LocalsOK, GoTo, Evaluating

\* Between the two EVALSHAs a worker keeps its locals.
LEMMA EvaluateLocals ==
  ASSUME TypeOK, NEW w \in Workers, pc[w] \in Evaluating, NEW stage \in Evaluating,
         GoTo(w, stage), UNCHANGED localVars
  PROVE  LocalsOK'
BY DEF TypeOK, LocalsOK, GoTo, Evaluating, Stages, localVars

\* A new reservation is for a limit its sender may resolve to.
LEMMA ReserveLocals ==
  ASSUME TypeOK, NEW w \in Workers, NEW s \in Senders, NEW l \in SenderLimits[s],
         ReserveFor(w, s, l), assigned' \in [Workers -> Senders \cup {None}],
         UNCHANGED <<reservedAt, charged>>
  PROVE  LocalsOK'
<1>1. l \in Nat
  BY QuotaAssumption
<1>2. QED
  BY <1>1 DEF TypeOK, LocalsOK, ReserveFor, GoTo, Evaluating, Stages

\* Counters of any kind stay numbers when one of them moves by one.
LEMMA CountUp ==
  ASSUME NEW f \in [Windows -> Nat], NEW h \in Windows
  PROVE  [f EXCEPT ![h] = @ + 1] \in [Windows -> Nat]
OBVIOUS
LEMMA CountUpInt ==
  ASSUME NEW f \in [Windows -> Int], NEW h \in Windows
  PROVE  /\ [f EXCEPT ![h] = @ + 1] \in [Windows -> Int]
         /\ [f EXCEPT ![h] = @ - 1] \in [Windows -> Int]
OBVIOUS

\* The Redis counters and the history variables are well typed.
CountersOK ==
    /\ globalUsed \in [Windows -> Nat]
    /\ senderUsed \in [Senders -> [Windows -> Nat]]
    /\ granted \in [Windows -> Int]
    /\ grantedTo \in [Senders -> [Windows -> Int]]

\* The script leaves types intact, whatever it answers.
LEMMA ScriptTypes ==
  ASSUME TypeOK, NEW w \in Workers, pc[w] \in Evaluating, Script(w)
  PROVE  LocalsOK' /\ CountersOK'
<1> DEFINE s == sender[w]
           h == windowId[w]
<1>1. s \in Senders /\ h \in Windows
  BY DEF TypeOK, Evaluating
<1>2. CASE HasRoom(s, h, limit[w])
  <2>1. /\ globalUsed' = [globalUsed EXCEPT ![h] = @ + 1]
        /\ senderUsed' = [senderUsed EXCEPT ![s][h] = @ + 1]
        /\ granted' = [granted EXCEPT ![h] = @ + 1]
        /\ grantedTo' = [grantedTo EXCEPT ![s][h] = @ + 1]
        /\ charged' = [charged EXCEPT ![w] = h]
        /\ GoTo(w, "stamp")
        /\ UNCHANGED <<sender, limit, assigned, windowId, reservedAt>>
    BY <1>2 DEF Script
  <2>2. charged' \in [Workers -> Windows] /\ reservedAt' \in [Workers -> Windows]
    BY <1>1, <2>1 DEF TypeOK
  <2>3. LocalsOK'
    BY <2>1, <2>2, MoveLocals DEF Stages, Evaluating
  <2>4. globalUsed' \in [Windows -> Nat] /\ granted' \in [Windows -> Int]
    BY <1>1, <2>1 DEF TypeOK
  <2>5. senderUsed' \in [Senders -> [Windows -> Nat]]
    BY <1>1, <2>1, CountUp DEF TypeOK
  <2>6. grantedTo' \in [Senders -> [Windows -> Int]]
    BY <1>1, <2>1, CountUpInt DEF TypeOK
  <2>7. QED
    BY <2>3, <2>4, <2>5, <2>6 DEF CountersOK
<1>3. CASE ~HasRoom(s, h, limit[w])
  <2>1. /\ UNCHANGED <<globalUsed, senderUsed, granted, grantedTo>>
        /\ (GoTo(w, "usage") /\ UNCHANGED localVars) \/ Finish(w)
    BY <1>3 DEF Script
  <2>2. LocalsOK'
    BY <2>1, MoveLocals, FinishLocals DEF localVars, TypeOK, Stages, Evaluating
  <2>3. QED
    BY <2>1, <2>2 DEF CountersOK, TypeOK
<1>4. QED
  BY <1>2, <1>3

\* Initially every counter is zero.
LEMMA QuotaTypingInit == Init => TypeOK
<1> SUFFICES ASSUME Init PROVE TypeOK
  OBVIOUS
<1>1. 0 \in Windows /\ 0 \in Nat /\ 0 \in Int
  BY QuotaAssumption DEF Windows
<1>2. QED
  BY <1>1 DEF Init, TypeOK, Stages

\* The clock, Redis and the histories of deliveries are well typed.
RestOK ==
    /\ window \in Windows
    /\ scriptCached \in BOOLEAN
    /\ delivered \in [Windows -> Nat]
    /\ sentIn \in [Windows -> Nat]

\* TypeOK is the conjunction of its three parts, now and in the next state.
LEMMA TypeParts ==
  /\ TypeOK => CountersOK /\ RestOK
  /\ LocalsOK' /\ CountersOK' /\ RestOK' => TypeOK'
BY DEF TypeOK, LocalsOK, CountersOK, RestOK, Evaluating

\* Every step of a worker keeps the types.
LEMMA WorkerTypes ==
  ASSUME TypeOK, NEW w \in Workers, WorkerStep(w)
  PROVE  TypeOK'
<1> USE DEF redisVars, grantVars, sendVars
<1>1. ASSUME NEW s \in Senders, NEW l \in SenderLimits[s], Start(w, s, l) PROVE TypeOK'
  <2>1. assigned' \in [Workers -> Senders \cup {None}]
    BY <1>1 DEF Start, TypeOK
  <2>2. LocalsOK'
    BY <1>1, <2>1, ReserveLocals DEF Start
  <2>3. QED
    BY <1>1, <2>2, TypeParts DEF Start, CountersOK, RestOK
<1>2. CASE EvalSha(w)
  <2>1. pc[w] \in Evaluating
    BY <1>2 DEF EvalSha, Evaluating
  <2>2. LocalsOK' /\ CountersOK'
    <3>1. CASE scriptCached
      BY <1>2, <2>1, <3>1, ScriptTypes DEF EvalSha
    <3>2. CASE ~scriptCached
      <4>1. GoTo(w, "reload") /\ UNCHANGED localVars /\ UNCHANGED <<globalUsed, senderUsed, grantVars>>
        BY <1>2, <3>2 DEF EvalSha
      <4>2. LocalsOK'
        BY <2>1, <4>1, EvaluateLocals DEF Evaluating
      <4>3. QED
        BY <4>1, <4>2, TypeParts DEF CountersOK, RestOK
    <3>3. QED
      BY <3>1, <3>2
  <2>3. QED
    BY <1>2, <2>2, TypeParts DEF EvalSha, RestOK
<1>3. CASE LoadScript(w)
  <2>1. LocalsOK'
    BY <1>3, EvaluateLocals DEF LoadScript, Evaluating
  <2>2. QED
    BY <1>3, <2>1, TypeParts DEF LoadScript, CountersOK, RestOK
<1>4. CASE RetryEvalSha(w)
  <2>1. pc[w] \in Evaluating
    BY <1>4 DEF RetryEvalSha, Evaluating
  <2>2. LocalsOK' /\ CountersOK'
    <3>1. CASE scriptCached
      BY <1>4, <2>1, <3>1, ScriptTypes DEF RetryEvalSha
    <3>2. CASE ~scriptCached
      <4>1. Finish(w) /\ UNCHANGED <<globalUsed, senderUsed, grantVars>>
        BY <1>4, <3>2 DEF RetryEvalSha
      <4>2. QED
        BY <4>1, FinishLocals, TypeParts DEF CountersOK, RestOK
    <3>3. QED
      BY <3>1, <3>2
  <2>3. QED
    BY <1>4, <2>2, TypeParts DEF RetryEvalSha, RestOK
<1>5. CASE FindAlternative(w)
  <2>1. LocalsOK'
    <3>1. CASE Finish(w)
      BY <3>1, FinishLocals
    <3>2. ASSUME NEW s \in Senders, NEW l \in SenderLimits[s], ReserveFor(w, s, l),
                 UNCHANGED <<assigned, reservedAt, charged>>
          PROVE  LocalsOK'
      BY <3>2, ReserveLocals DEF TypeOK
    <3>3. QED
      BY <1>5, <3>1, <3>2 DEF FindAlternative
  <2>2. QED
    BY <1>5, <2>1, TypeParts DEF FindAlternative, CountersOK, RestOK
<1>6. CASE StampReservation(w)
  <2>1. reservedAt' \in [Workers -> Windows] /\ charged' \in [Workers -> Windows]
    BY <1>6 DEF StampReservation, TypeOK
  <2>2. LocalsOK'
    BY <1>6, <2>1, MoveLocals DEF StampReservation, Stages, Evaluating
  <2>3. QED
    BY <1>6, <2>2, TypeParts DEF StampReservation, CountersOK, RestOK
<1>7. CASE SendAccepted(w)
  <2>1. charged[w] \in Windows /\ window \in Windows
    BY DEF TypeOK
  <2>2. delivered' \in [Windows -> Nat] /\ sentIn' \in [Windows -> Nat]
    BY <1>7, <2>1, CountUp DEF SendAccepted, TypeOK
  <2>3. LocalsOK'
    BY <1>7, FinishLocals DEF SendAccepted
  <2>4. QED
    BY <1>7, <2>2, <2>3, TypeParts DEF SendAccepted, CountersOK, RestOK
<1>8. CASE SendFailed(w)
  <2>1. (GoTo(w, "refund") /\ UNCHANGED localVars) \/ Finish(w)
    BY <1>8 DEF SendFailed, HandleError
  <2>2. LocalsOK'
    BY <2>1, MoveLocals, FinishLocals DEF localVars, TypeOK, Stages, Evaluating
  <2>3. QED
    BY <1>8, <2>2, TypeParts DEF SendFailed, CountersOK, RestOK
<1>9. CASE Refund(w)
  <2>1. CountersOK'
    <3> DEFINE h == reservedAt[w]
               s == sender[w]
    <3>1. CASE h = window
      <4>1. /\ globalUsed' = [globalUsed EXCEPT ![h] = IF @ > 0 THEN @ - 1 ELSE 0]
            /\ senderUsed' = [senderUsed EXCEPT ![s][h] = Refunded(@)]
            /\ granted' = [granted EXCEPT ![charged[w]] = @ - 1]
            /\ grantedTo' = [grantedTo EXCEPT ![s][charged[w]] = @ - 1]
        BY <1>9, <3>1 DEF Refund
      <4>2. h \in Windows /\ charged[w] \in Windows /\ s \in Senders \cup {None}
        BY DEF TypeOK
      <4>3. globalUsed' \in [Windows -> Nat] /\ granted' \in [Windows -> Int]
        BY <4>1, <4>2 DEF TypeOK
      <4>4. ASSUME NEW f \in [Windows -> Nat]
            PROVE  [f EXCEPT ![h] = Refunded(@)] \in [Windows -> Nat]
        BY <4>2 DEF Refunded
      <4>5. CASE s \in Senders
        <5>1. senderUsed' \in [Senders -> [Windows -> Nat]]
          BY <4>1, <4>4, <4>5 DEF TypeOK
        <5>2. grantedTo' \in [Senders -> [Windows -> Int]]
          BY <4>1, <4>2, <4>5, CountUpInt DEF TypeOK
        <5>3. QED
          BY <4>3, <5>1, <5>2 DEF CountersOK
      <4>6. CASE s \notin Senders
        <5>1. senderUsed' = senderUsed /\ grantedTo' = grantedTo
          BY <4>1, <4>6 DEF TypeOK
        <5>2. QED
          BY <4>3, <5>1 DEF CountersOK, TypeOK
      <4>7. QED
        BY <4>5, <4>6
    <3>2. CASE h # window
      BY <1>9, <3>2, TypeParts DEF Refund, CountersOK, RestOK
    <3>3. QED
      BY <3>1, <3>2
  <2>2. LocalsOK'
    BY <1>9, FinishLocals DEF Refund
  <2>3. QED
    BY <1>9, <2>1, <2>2, TypeParts DEF Refund, RestOK
<1>10. CASE Crash(w)
  BY <1>10, FinishLocals, TypeParts DEF Crash, CountersOK, RestOK
<1>11. CASE SendFailedLate(w)
  <2>1. charged[w] \in Windows /\ window \in Windows
    BY DEF TypeOK
  <2>2. delivered' \in [Windows -> Nat] /\ sentIn' \in [Windows -> Nat]
    <3>1. CASE RefundOnFailure
      BY <1>11, <3>1 DEF SendFailedLate, TypeOK
    <3>2. CASE ~RefundOnFailure
      <4>1. /\ delivered' = [delivered EXCEPT ![charged[w]] = @ + 1]
            /\ sentIn' = [sentIn EXCEPT ![window] = @ + 1]
        BY <1>11, <3>2 DEF SendFailedLate
      <4>2. QED
        BY <2>1, <4>1, CountUp DEF TypeOK
    <3>3. QED
      BY <3>1, <3>2
  <2>3. (GoTo(w, "refund") /\ UNCHANGED localVars) \/ Finish(w)
    BY <1>11 DEF SendFailedLate, HandleError
  <2>4. LocalsOK'
    BY <2>3, MoveLocals, FinishLocals DEF localVars, TypeOK, Stages, Evaluating
  <2>5. QED
    BY <1>11, <2>2, <2>4, TypeParts DEF SendFailedLate, CountersOK, RestOK
<1>12. QED
  BY <1>1, <1>2, <1>3, <1>4, <1>5, <1>6, <1>7, <1>8, <1>9, <1>10, <1>11 DEF WorkerStep

\* Every step keeps the types.
LEMMA QuotaTypingStep == TypeOK /\ [Next]_vars => TypeOK'
<1> SUFFICES ASSUME TypeOK, [Next]_vars PROVE TypeOK'
  OBVIOUS
<1> USE DEF redisVars, grantVars, sendVars, localVars
<1>1. ASSUME NEW w \in Workers, WorkerStep(w) PROVE TypeOK'
  BY <1>1, WorkerTypes
<1>2. CASE Tick
  <2>1. window' \in Windows
    BY <1>2, QuotaAssumption DEF Tick, TypeOK, Windows
  <2>2. QED
    BY <1>2, <2>1 DEF Tick, TypeOK
<1>3. ASSUME NEW h \in Windows, ExpireGlobal(h) \/ \E s \in Senders : ExpireSender(s, h)
      PROVE  TypeOK'
  <2>1. CASE ExpireGlobal(h)
    <3>1. globalUsed' \in [Windows -> Nat]
      BY <2>1 DEF ExpireGlobal, TypeOK
    <3>2. QED
      BY <2>1, <3>1 DEF ExpireGlobal, TypeOK
  <2>2. ASSUME NEW s \in Senders, ExpireSender(s, h) PROVE TypeOK'
    <3>1. senderUsed' \in [Senders -> [Windows -> Nat]]
      BY <2>2 DEF ExpireSender, TypeOK
    <3>2. QED
      BY <2>2, <3>1 DEF ExpireSender, TypeOK
  <2>3. QED
    BY <1>3, <2>1, <2>2
<1>4. CASE RedisRestart
  <2>1. scriptCached' \in BOOLEAN
    BY <1>4 DEF RedisRestart
  <2>2. globalUsed' \in [Windows -> Nat] /\ senderUsed' \in [Senders -> [Windows -> Nat]]
    BY <1>4 DEF RedisRestart, TypeOK
  <2>3. QED
    BY <1>4, <2>1, <2>2 DEF RedisRestart, TypeOK
<1>5. CASE UNCHANGED vars
  BY <1>5 DEF vars, TypeOK
<1>6. QED
  BY <1>1, <1>2, <1>3, <1>4, <1>5 DEF Next, Expiry

\* Every reachable state of the limiter and its callers is well typed: in
\* particular a script is only ever called for a limit its sender may resolve to
\* (HourlyQuotaLimiter, rateLimiter.ts:93).
THEOREM QuotaTyping == Spec => []TypeOK
<1>1. QED
  BY QuotaTypingInit, QuotaTypingStep, PTL DEF Spec
------------------------------------------------------------------------------
(* What a step of a worker may do to its locals and to the ledger. *)

\* The steps at which a worker holds a slot, charged to a window.
Holding == {"stamp", "send", "refund"}

\* The locals of worker x that say where it stands.
Stays(x) ==
    /\ pc'[x] = pc[x] /\ sender'[x] = sender[x] /\ windowId'[x] = windowId[x]
    /\ reservedAt'[x] = reservedAt[x] /\ charged'[x] = charged[x]

\* How a worker moves, and what it takes along.
Moves(w) ==
    \/ pc'[w] \in {"idle", "usage"}
    \/ pc'[w] = "eval" /\ windowId'[w] = window
    \/ /\ pc[w] \in Evaluating /\ pc'[w] \in Evaluating /\ windowId'[w] = windowId[w]
    \/ /\ pc[w] \in Evaluating /\ pc'[w] = "stamp"
       /\ charged'[w] = windowId[w] /\ windowId'[w] = windowId[w] /\ sender'[w] = sender[w]
    \/ /\ pc[w] = "stamp" /\ pc'[w] = "send" /\ reservedAt'[w] = window
       /\ charged'[w] = charged[w] /\ windowId'[w] = windowId[w] /\ sender'[w] = sender[w]
    \/ /\ pc[w] = "send" /\ pc'[w] = "refund" /\ RefundOnFailure /\ reservedAt'[w] = reservedAt[w]
       /\ charged'[w] = charged[w] /\ windowId'[w] = windowId[w] /\ sender'[w] = sender[w]

\* A slot is granted, refunded, used for a delivery, or nothing is booked at all.
Grants(w) ==
    LET s == sender[w]
        h == windowId[w]
    IN
    /\ pc[w] \in Evaluating /\ pc'[w] = "stamp"
    /\ charged'[w] = h /\ sender'[w] = s
    /\ HasRoom(s, h, limit[w])
    /\ globalUsed' = [globalUsed EXCEPT ![h] = @ + 1]
    /\ senderUsed' = [senderUsed EXCEPT ![s][h] = @ + 1]
    /\ granted' = [granted EXCEPT ![h] = @ + 1]
    /\ grantedTo' = [grantedTo EXCEPT ![s][h] = @ + 1]
    /\ UNCHANGED <<delivered, sentIn>>
Refunds(w) ==
    LET s == sender[w]
        h == window
    IN
    /\ pc[w] = "refund" /\ pc'[w] = "idle" /\ reservedAt[w] = h
    /\ globalUsed' = [globalUsed EXCEPT ![h] = IF @ > 0 THEN @ - 1 ELSE 0]
    /\ senderUsed' = [senderUsed EXCEPT ![s][h] = Refunded(@)]
    /\ granted' = [granted EXCEPT ![charged[w]] = @ - 1]
    /\ grantedTo' = [grantedTo EXCEPT ![s][charged[w]] = @ - 1]
    /\ UNCHANGED <<delivered, sentIn>>
Delivers(w) ==
    /\ pc[w] = "send" /\ pc'[w] = "idle"
    /\ delivered' = [delivered EXCEPT ![charged[w]] = @ + 1]
    /\ sentIn' = [sentIn EXCEPT ![window] = @ + 1]
    /\ UNCHANGED <<globalUsed, senderUsed, granted, grantedTo>>
BooksNothing(w) ==
    /\ pc'[w] # "stamp"
    /\ UNCHANGED <<globalUsed, senderUsed, granted, grantedTo, delivered, sentIn>>

WorkerMove(w) ==
    /\ window' = window
    /\ \A x \in Workers \ {w} : Stays(x)
    /\ Moves(w)
    /\ Grants(w) \/ Refunds(w) \/ Delivers(w) \/ BooksNothing(w)

\* A worker whose job ends holds nothing any more.
LEMMA FinishMoves ==
  ASSUME TypeOK, NEW w \in Workers, Finish(w)
  PROVE  pc'[w] = "idle" /\ Moves(w) /\ \A x \in Workers \ {w} : Stays(x)
BY DEF Finish, GoTo, Moves, Stays, TypeOK

\* The script grants a slot, or leaves the ledger alone.
LEMMA ScriptMoves ==
  ASSUME TypeOK, NEW w \in Workers, pc[w] \in Evaluating, Script(w), window' = window,
         UNCHANGED sendVars
  PROVE  WorkerMove(w)
<1>1. CASE HasRoom(sender[w], windowId[w], limit[w])
  <2>1. Grants(w) /\ Moves(w)
    BY <1>1 DEF Script, GoTo, Grants, Moves, TypeOK, sendVars
  <2>2. \A x \in Workers \ {w} : Stays(x)
    BY <1>1 DEF Script, GoTo, Stays, TypeOK
  <2>3. QED
    BY <2>1, <2>2 DEF WorkerMove
<1>2. CASE ~HasRoom(sender[w], windowId[w], limit[w])
  <2>1. /\ UNCHANGED <<globalUsed, senderUsed, granted, grantedTo>>
        /\ (GoTo(w, "usage") /\ UNCHANGED localVars) \/ Finish(w)
    BY <1>2 DEF Script
  <2>2. CASE GoTo(w, "usage") /\ UNCHANGED localVars
    BY <2>1, <2>2 DEF GoTo, localVars, sendVars, WorkerMove, Moves, Stays, BooksNothing, TypeOK
  <2>3. CASE Finish(w)
    BY <2>1, <2>3, FinishMoves DEF sendVars, WorkerMove, BooksNothing
  <2>4. QED
    BY <2>1, <2>2, <2>3
<1>3. QED
  BY <1>1, <1>2

\* Every step of a worker is such a move.
LEMMA WorkerMoves ==
  ASSUME TypeOK, NEW w \in Workers, WorkerStep(w)
  PROVE  WorkerMove(w)
<1> USE DEF redisVars, grantVars, sendVars
<1>1. ASSUME NEW s \in Senders, NEW l \in SenderLimits[s], Start(w, s, l)
      PROVE  WorkerMove(w)
  BY <1>1 DEF Start, ReserveFor, GoTo, WorkerMove, Moves, Stays, BooksNothing, TypeOK
<1>2. CASE EvalSha(w) \/ RetryEvalSha(w)
  <2>1. window' = window /\ UNCHANGED sendVars /\ pc[w] \in Evaluating
    BY <1>2 DEF EvalSha, RetryEvalSha, Evaluating
  <2>2. CASE Script(w)
    BY <2>1, <2>2, ScriptMoves
  <2>3. CASE ~Script(w)
    <3>1. UNCHANGED <<globalUsed, senderUsed, granted, grantedTo, delivered, sentIn>>
      BY <1>2, <2>3 DEF EvalSha, RetryEvalSha
    <3>2. CASE Finish(w)
      BY <2>1, <3>1, <3>2, FinishMoves DEF WorkerMove, BooksNothing
    <3>3. CASE GoTo(w, "reload") /\ UNCHANGED localVars
      BY <2>1, <3>1, <3>3 DEF GoTo, localVars, Evaluating, WorkerMove, Moves, Stays, BooksNothing,
         TypeOK
    <3>4. QED
      BY <1>2, <2>3, <3>2, <3>3 DEF EvalSha, RetryEvalSha
  <2>4. QED
    BY <2>2, <2>3
<1>3. CASE LoadScript(w)
  BY <1>3 DEF LoadScript, GoTo, localVars, Evaluating, WorkerMove, Moves, Stays, BooksNothing, TypeOK
<1>4. CASE FindAlternative(w)
  <2>1. UNCHANGED <<window, globalUsed, senderUsed, granted, grantedTo, delivered, sentIn>>
    BY <1>4 DEF FindAlternative
  <2>2. ASSUME NEW s \in Senders, NEW l \in SenderLimits[s], ReserveFor(w, s, l),
               UNCHANGED <<reservedAt, charged>>
        PROVE  WorkerMove(w)
    BY <2>1, <2>2 DEF ReserveFor, GoTo, WorkerMove, Moves, Stays, BooksNothing, TypeOK
  <2>3. CASE Finish(w)
    BY <2>1, <2>3, FinishMoves DEF WorkerMove, BooksNothing
  <2>4. QED
    BY <1>4, <2>2, <2>3 DEF FindAlternative
<1>5. CASE StampReservation(w)
  BY <1>5 DEF StampReservation, GoTo, WorkerMove, Moves, Stays, BooksNothing, TypeOK
<1>6. CASE SendAccepted(w)
  BY <1>6, FinishMoves DEF SendAccepted, WorkerMove, Delivers
<1>7. CASE SendFailed(w) \/ SendFailedLate(w)
  <2>1. /\ UNCHANGED <<window, globalUsed, senderUsed, granted, grantedTo>>
        /\ pc[w] = "send"
    BY <1>7 DEF SendFailed, SendFailedLate
  <2>2. CASE RefundOnFailure
    <3>1. GoTo(w, "refund") /\ UNCHANGED localVars /\ UNCHANGED sendVars
      BY <1>7, <2>2 DEF SendFailed, SendFailedLate, HandleError
    <3>2. QED
      BY <2>1, <2>2, <3>1 DEF GoTo, localVars, WorkerMove, Moves, Stays, BooksNothing, TypeOK
  <2>3. CASE ~RefundOnFailure
    <3>1. /\ Finish(w)
          /\ \/ UNCHANGED <<delivered, sentIn>>
             \/ /\ delivered' = [delivered EXCEPT ![charged[w]] = @ + 1]
                /\ sentIn' = [sentIn EXCEPT ![window] = @ + 1]
      BY <1>7, <2>3 DEF SendFailed, SendFailedLate, HandleError
    <3>2. QED
      BY <2>1, <3>1, FinishMoves DEF WorkerMove, Delivers, BooksNothing
  <2>4. QED
    BY <2>2, <2>3
<1>8. CASE Refund(w)
  <2>1. CASE reservedAt[w] = window
    BY <1>8, <2>1, FinishMoves DEF Refund, WorkerMove, Refunds
  <2>2. CASE reservedAt[w] # window
    BY <1>8, <2>2, FinishMoves DEF Refund, WorkerMove, BooksNothing
  <2>3. QED
    BY <2>1, <2>2
<1>9. CASE Crash(w)
  BY <1>9, FinishMoves DEF Crash, WorkerMove, BooksNothing
<1>10. QED
  BY <1>1, <1>2, <1>3, <1>4, <1>5, <1>6, <1>7, <1>8, <1>9 DEF WorkerStep

------------------------------------------------------------------------------
(* Whose window a reservation is charged to. *)

\* A reservation reaches Redis at most one window after its clock reading, and a
\* slot is charged to the window that was read.
Reservations ==
    \A w \in Workers :
        /\ pc[w] \in Evaluating => windowId[w] <= window /\ window <= windowId[w] + 1
        /\ pc[w] \in Holding =>
              sender[w] \in Senders /\ charged[w] = windowId[w] /\ windowId[w] <= window

\* Every step keeps Reservations.
LEMMA ReservationStep ==
  ASSUME TypeOK, TypeOK', Reservations, [Next]_vars PROVE Reservations'
<1>1. window \in Int /\ \A w \in Workers : windowId[w] \in Int
  BY DEF TypeOK, Windows
<1>2. ASSUME NEW w \in Workers, WorkerStep(w) PROVE Reservations'
  <2>1. window' = window /\ Moves(w) /\ \A x \in Workers \ {w} : Stays(x)
    BY <1>2, WorkerMoves DEF WorkerMove
  <2>2. pc[w] \in Evaluating => sender[w] \in Senders
    BY DEF TypeOK, Evaluating
  <2>3. /\ pc'[w] \in Evaluating => windowId'[w] <= window /\ window <= windowId'[w] + 1
        /\ pc'[w] \in Holding =>
              sender'[w] \in Senders /\ charged'[w] = windowId'[w] /\ windowId'[w] <= window
    BY <1>1, <2>1, <2>2 DEF Reservations, Moves, Evaluating, Holding
  <2>4. QED
    BY <2>1, <2>3 DEF Reservations, Stays
<1>3. CASE Tick
  <2>1. /\ window' = window + 1
        /\ UNCHANGED <<pc, sender, windowId, charged>>
        /\ \A w \in Workers : pc[w] \in Evaluating => windowId[w] = window
    BY <1>3 DEF Tick, localVars, Evaluating
  <2>2. QED
    BY <1>1, <2>1 DEF Reservations
<1>4. CASE RedisRestart \/ Expiry \/ UNCHANGED vars
  BY <1>4 DEF RedisRestart, Expiry, ExpireGlobal, ExpireSender, vars, localVars, Reservations
<1>5. QED
  BY <1>2, <1>3, <1>4 DEF Next, Expiry

------------------------------------------------------------------------------
(* The ceilings. *)

\* Redis keeps its counters across restarts, workers are finitely many, and if
\* failed sends refund, the hour does not roll over between a reservation's
\* clock reading and the Date.now() its refund is keyed by.
CountersKept ==
    /\ ~DataLoss
    /\ RefundOnFailure => ~RollMidReserve
    /\ IsFiniteSet(Workers)

\* The workers that hold a slot of a window, and of a sender in it.
Holders(h) == {w \in Workers : pc[w] \in Holding /\ charged[w] = h}
HoldersOf(s, h) == {w \in Holders(h) : sender[w] = s}

\* A counter that can still be charged is exactly the number of slots granted from it.
CountersAreGrants ==
    \A h \in Windows : h + 2 > window =>
        /\ globalUsed[h] = granted[h]
        /\ \A s \in Senders : senderUsed[s][h] = grantedTo[s][h]
\* What a refund will return is what its reservation was charged.
RefundsInTime ==
    \A w \in Workers :
        /\ pc[w] = "refund" => RefundOnFailure
        /\ RefundOnFailure =>
              /\ pc[w] \in Evaluating \cup {"stamp"} => windowId[w] = window
              /\ pc[w] \in {"send", "refund"} => reservedAt[w] = charged[w]
\* Every delivery that keeps its slot, and every slot a worker holds, was granted.
SlotsBacked ==
    \A h \in Windows :
        /\ delivered[h] + Cardinality(Holders(h)) <= granted[h]
        /\ \A s \in Senders : Cardinality(HoldersOf(s, h)) <= grantedTo[s][h]

\* The inductive invariant of the ceilings.
CeilingInv ==
    /\ TypeOK /\ Reservations /\ RefundsInTime
    /\ CountersAreGrants /\ SlotsBacked /\ NeverOversubscribed

\* No job of a sender resolves to more than the sender's ceiling.
LEMMA CeilingBounds ==
  ASSUME NEW s \in Senders, NEW l \in SenderLimits[s]
  PROVE  Ceiling(s) \in Nat /\ l <= Ceiling(s)
<1>1. \E m \in SenderLimits[s] : \A k \in SenderLimits[s] : k <= m
  BY QuotaAssumption
<1>2. Ceiling(s) \in SenderLimits[s] /\ \A k \in SenderLimits[s] : k <= Ceiling(s)
  BY <1>1 DEF Ceiling
<1>3. QED
  BY <1>2, QuotaAssumption

\* Sets of workers are finite, and a part of one is no larger.
LEMMA WorkerSets ==
  ASSUME IsFiniteSet(Workers), NEW S, NEW T, S \subseteq Workers, T \subseteq S
  PROVE  /\ IsFiniteSet(S) /\ Cardinality(S) \in Nat /\ Cardinality(T) \in Nat
         /\ Cardinality(T) <= Cardinality(S)
<1>1. IsFiniteSet(S)
  BY FS_Subset
<1>2. IsFiniteSet(T) /\ Cardinality(T) <= Cardinality(S)
  BY <1>1, FS_Subset
<1>3. QED
  BY <1>1, <1>2, FS_CardinalityType

\* A set that worker w joins or leaves grows or shrinks by one.
LEMMA OneWorker ==
  ASSUME IsFiniteSet(Workers), NEW S, S \subseteq Workers, NEW w \in Workers
  PROVE  /\ w \notin S => Cardinality(S \cup {w}) = Cardinality(S) + 1
         /\ w \in S => Cardinality(S \ {w}) = Cardinality(S) - 1
<1>1. IsFiniteSet(S)
  BY FS_Subset
<1>2. QED
  BY <1>1, FS_AddElement, FS_RemoveElement

\* Every step keeps RefundsInTime.
LEMMA RefundStep ==
  ASSUME CountersKept, TypeOK, Reservations, RefundsInTime, [Next]_vars PROVE RefundsInTime'
<1>1. ASSUME NEW w \in Workers, WorkerStep(w) PROVE RefundsInTime'
  <2>1. window' = window /\ Moves(w) /\ \A x \in Workers \ {w} : Stays(x)
    BY <1>1, WorkerMoves DEF WorkerMove
  <2>2. /\ pc'[w] = "refund" => RefundOnFailure
        /\ RefundOnFailure =>
              /\ pc'[w] \in Evaluating \cup {"stamp"} => windowId'[w] = window
              /\ pc'[w] \in {"send", "refund"} => reservedAt'[w] = charged'[w]
    BY <2>1 DEF RefundsInTime, Reservations, Moves, Evaluating, Holding
  <2>3. QED
    BY <2>1, <2>2 DEF RefundsInTime, Stays
<1>2. CASE Tick
  <2>1. UNCHANGED <<pc, reservedAt, charged>>
    BY <1>2 DEF Tick, localVars
  <2>2. RefundOnFailure => \A w \in Workers : pc[w] \notin Evaluating \cup {"stamp"}
    BY <1>2 DEF Tick, CountersKept, Evaluating
  <2>3. QED
    BY <2>1, <2>2 DEF RefundsInTime
<1>3. CASE RedisRestart \/ Expiry \/ UNCHANGED vars
  BY <1>3 DEF RedisRestart, Expiry, ExpireGlobal, ExpireSender, vars, localVars, RefundsInTime
<1>4. QED
  BY <1>1, <1>2, <1>3 DEF Next, Expiry

\* A step that changes no counter of its window and lets nobody take a slot keeps
\* the ledger balanced.
LEMMA NothingBooked ==
  ASSUME CountersKept, CeilingInv, window' = window,
         UNCHANGED <<globalUsed, senderUsed, granted, grantedTo, delivered>>,
         \A w \in Workers : pc'[w] \in Holding =>
            pc[w] \in Holding /\ charged'[w] = charged[w] /\ sender'[w] = sender[w]
  PROVE  CountersAreGrants' /\ SlotsBacked' /\ NeverOversubscribed'
<1>1. CountersAreGrants' /\ NeverOversubscribed'
  BY DEF CeilingInv, CountersAreGrants, NeverOversubscribed, Ceiling
<1>2. ASSUME NEW h \in Windows PROVE delivered'[h] + Cardinality(Holders(h)') <= granted'[h]
  <2>1. Holders(h) \subseteq Workers /\ Holders(h)' \subseteq Holders(h)
    BY DEF Holders
  <2>2. /\ Cardinality(Holders(h)) \in Nat /\ Cardinality(Holders(h)') \in Nat
        /\ Cardinality(Holders(h)') <= Cardinality(Holders(h))
    BY <2>1, WorkerSets DEF CountersKept
  <2>3. /\ delivered[h] \in Nat /\ granted[h] \in Int
        /\ delivered[h] + Cardinality(Holders(h)) <= granted[h]
    BY DEF CeilingInv, SlotsBacked, TypeOK
  <2>4. QED
    BY <2>2, <2>3
<1>3. ASSUME NEW h \in Windows, NEW s \in Senders
      PROVE  Cardinality(HoldersOf(s, h)') <= grantedTo'[s][h]
  <2>1. HoldersOf(s, h) \subseteq Workers /\ HoldersOf(s, h)' \subseteq HoldersOf(s, h)
    BY DEF Holders, HoldersOf
  <2>2. /\ Cardinality(HoldersOf(s, h)) \in Nat /\ Cardinality(HoldersOf(s, h)') \in Nat
        /\ Cardinality(HoldersOf(s, h)') <= Cardinality(HoldersOf(s, h))
    BY <2>1, WorkerSets DEF CountersKept
  <2>3. grantedTo[s][h] \in Int /\ Cardinality(HoldersOf(s, h)) <= grantedTo[s][h]
    BY DEF CeilingInv, SlotsBacked, TypeOK
  <2>4. QED
    BY <2>2, <2>3
<1>4. QED
  BY <1>1, <1>2, <1>3 DEF SlotsBacked

\* The script grants a slot only below both ceilings, and its worker holds it.
LEMMA GrantKeepsCeilings ==
  ASSUME CountersKept, CeilingInv, NEW w \in Workers, WorkerMove(w), Grants(w)
  PROVE  CountersAreGrants' /\ SlotsBacked' /\ NeverOversubscribed'
<1>1. TypeOK /\ IsFiniteSet(Workers) /\ window' = window /\ \A x \in Workers \ {w} : Stays(x)
  BY DEF CeilingInv, CountersKept, WorkerMove
<1>2. PICK s \in Senders : s = sender[w]
  BY <1>1 DEF Grants, TypeOK, Evaluating
<1>3. PICK h \in Windows : h = windowId[w]
  BY <1>1 DEF TypeOK
<1>4. /\ limit[w] \in SenderLimits[s] /\ window \in Int /\ h \in Int /\ h + 2 > window
  <2>1. limit[w] \in SenderLimits[s]
    BY <1>1, <1>2 DEF Grants, TypeOK, Evaluating
  <2>2. window \in Int /\ h \in Int
    BY <1>1 DEF TypeOK, Windows
  <2>3. window <= h + 1
    BY <1>3 DEF CeilingInv, Reservations, Grants
  <2>4. QED
    BY <2>1, <2>2, <2>3
<1>5. /\ \A k \in Windows : /\ globalUsed'[k] = IF k = h THEN globalUsed[k] + 1 ELSE globalUsed[k]
                            /\ granted'[k] = IF k = h THEN granted[k] + 1 ELSE granted[k]
                            /\ delivered'[k] = delivered[k]
      /\ \A q \in Senders, k \in Windows :
            /\ senderUsed'[q][k] =
                  IF q = s /\ k = h THEN senderUsed[q][k] + 1 ELSE senderUsed[q][k]
            /\ grantedTo'[q][k] =
                  IF q = s /\ k = h THEN grantedTo[q][k] + 1 ELSE grantedTo[q][k]
  BY <1>1, <1>2, <1>3 DEF Grants, TypeOK
<1>6. /\ globalUsed[h] = granted[h] /\ granted[h] \in Int
      /\ senderUsed[s][h] = grantedTo[s][h] /\ grantedTo[s][h] \in Int
  BY <1>1, <1>4 DEF CeilingInv, CountersAreGrants, TypeOK
<1>7. CountersAreGrants'
  BY <1>1, <1>5 DEF CeilingInv, CountersAreGrants
<1>8. NeverOversubscribed'
  <2>1. granted[h] < GlobalLimit /\ grantedTo[s][h] < limit[w]
    BY <1>2, <1>3, <1>6 DEF Grants, HasRoom
  <2>2. limit[w] \in Nat /\ limit[w] <= Ceiling(s) /\ Ceiling(s) \in Nat /\ GlobalLimit \in Nat
    BY <1>4, CeilingBounds, QuotaAssumption
  <2>3. granted[h] + 1 <= GlobalLimit /\ grantedTo[s][h] + 1 <= Ceiling(s)
    BY <1>6, <2>1, <2>2
  <2>4. \A k \in Windows : granted'[k] <= GlobalLimit
    BY <1>5, <2>3 DEF CeilingInv, NeverOversubscribed
  <2>5. \A q \in Senders, k \in Windows : grantedTo'[q][k] <= Ceiling(q)
    BY <1>5, <2>3 DEF CeilingInv, NeverOversubscribed
  <2>6. QED
    BY <2>4, <2>5 DEF NeverOversubscribed, Ceiling
<1>9. /\ pc[w] \notin Holding /\ pc'[w] \in Holding /\ charged'[w] = h /\ sender'[w] = s
  BY <1>2, <1>3 DEF Grants, Holding, Evaluating
<1>10. ASSUME NEW k \in Windows PROVE delivered'[k] + Cardinality(Holders(k)') <= granted'[k]
  <2>1. /\ Holders(k) \subseteq Workers /\ w \notin Holders(k)
        /\ Holders(k)' = IF k = h THEN Holders(k) \cup {w} ELSE Holders(k)
    BY <1>1, <1>9 DEF Holders, Stays
  <2>2. Cardinality(Holders(k)') =
          IF k = h THEN Cardinality(Holders(k)) + 1 ELSE Cardinality(Holders(k))
    BY <1>1, <2>1, OneWorker
  <2>3. Cardinality(Holders(k)) \in Nat
    BY <1>1, <2>1, WorkerSets
  <2>4. /\ delivered[k] \in Nat /\ granted[k] \in Int
        /\ delivered[k] + Cardinality(Holders(k)) <= granted[k]
    BY DEF CeilingInv, SlotsBacked, TypeOK
  <2>5. QED
    BY <1>5, <2>2, <2>3, <2>4
<1>11. ASSUME NEW q \in Senders, NEW k \in Windows
       PROVE  Cardinality(HoldersOf(q, k)') <= grantedTo'[q][k]
  <2>1. /\ HoldersOf(q, k) \subseteq Workers /\ w \notin HoldersOf(q, k)
        /\ HoldersOf(q, k)' =
              IF q = s /\ k = h THEN HoldersOf(q, k) \cup {w} ELSE HoldersOf(q, k)
    BY <1>1, <1>9 DEF Holders, HoldersOf, Stays
  <2>2. Cardinality(HoldersOf(q, k)') =
          IF q = s /\ k = h THEN Cardinality(HoldersOf(q, k)) + 1 ELSE Cardinality(HoldersOf(q, k))
    BY <1>1, <2>1, OneWorker
  <2>3. Cardinality(HoldersOf(q, k)) \in Nat
    BY <1>1, <2>1, WorkerSets
  <2>4. grantedTo[q][k] \in Int /\ Cardinality(HoldersOf(q, k)) <= grantedTo[q][k]
    BY DEF CeilingInv, SlotsBacked, TypeOK
  <2>5. QED
    BY <1>5, <2>2, <2>3, <2>4
<1>12. QED
  BY <1>7, <1>8, <1>10, <1>11 DEF SlotsBacked

\* A refund returns a slot that its worker holds, so no counter is at zero.
LEMMA RefundKeepsCeilings ==
  ASSUME CountersKept, CeilingInv, NEW w \in Workers, WorkerMove(w), Refunds(w)
  PROVE  CountersAreGrants' /\ SlotsBacked' /\ NeverOversubscribed'
<1>1. TypeOK /\ IsFiniteSet(Workers) /\ window' = window /\ \A x \in Workers \ {w} : Stays(x)
  BY DEF CeilingInv, CountersKept, WorkerMove
<1>2. PICK h \in Windows : h = window /\ h \in Int
  BY <1>1 DEF TypeOK, Windows
<1>3. /\ pc[w] \in Holding /\ pc'[w] \notin Holding
      /\ charged[w] = h /\ reservedAt[w] = h /\ sender[w] \in Senders
  BY <1>2 DEF CeilingInv, RefundsInTime, Reservations, Refunds, Holding
<1>4. PICK s \in Senders : s = sender[w]
  BY <1>3
<1>5. /\ w \in Holders(h) /\ w \in HoldersOf(s, h)
      /\ Holders(h) \subseteq Workers /\ HoldersOf(s, h) \subseteq Workers
  BY <1>3, <1>4 DEF Holders, HoldersOf
<1>6. /\ Cardinality(Holders(h) \ {w}) = Cardinality(Holders(h)) - 1
      /\ Cardinality(HoldersOf(s, h) \ {w}) = Cardinality(HoldersOf(s, h)) - 1
      /\ Cardinality(Holders(h) \ {w}) \in Nat /\ Cardinality(HoldersOf(s, h) \ {w}) \in Nat
      /\ Cardinality(Holders(h)) \in Nat /\ Cardinality(HoldersOf(s, h)) \in Nat
  <2>1. /\ Cardinality(Holders(h) \ {w}) = Cardinality(Holders(h)) - 1
        /\ Cardinality(HoldersOf(s, h) \ {w}) = Cardinality(HoldersOf(s, h)) - 1
    BY <1>1, <1>5, OneWorker
  <2>2. Holders(h) \ {w} \subseteq Holders(h) /\ HoldersOf(s, h) \ {w} \subseteq HoldersOf(s, h)
    OBVIOUS
  <2>3. QED
    BY <1>1, <1>5, <2>1, <2>2, WorkerSets
<1>7. /\ globalUsed[h] = granted[h] /\ granted[h] \in Int /\ delivered[h] \in Nat
      /\ senderUsed[s][h] = grantedTo[s][h] /\ grantedTo[s][h] \in Int
  BY <1>1, <1>2 DEF CeilingInv, CountersAreGrants, TypeOK
<1>8. /\ delivered[h] + Cardinality(Holders(h)) <= granted[h]
      /\ Cardinality(HoldersOf(s, h)) <= grantedTo[s][h]
  BY DEF CeilingInv, SlotsBacked
<1>9. granted[h] > 0 /\ grantedTo[s][h] > 0
  BY <1>6, <1>7, <1>8
<1>10. /\ \A k \in Windows : /\ globalUsed'[k] = IF k = h THEN globalUsed[k] - 1 ELSE globalUsed[k]
                             /\ granted'[k] = IF k = h THEN granted[k] - 1 ELSE granted[k]
                             /\ delivered'[k] = delivered[k]
       /\ \A q \in Senders, k \in Windows :
             /\ senderUsed'[q][k] =
                   IF q = s /\ k = h THEN senderUsed[q][k] - 1 ELSE senderUsed[q][k]
             /\ grantedTo'[q][k] =
                   IF q = s /\ k = h THEN grantedTo[q][k] - 1 ELSE grantedTo[q][k]
  BY <1>1, <1>2, <1>3, <1>4, <1>7, <1>9 DEF Refunds, Refunded, TypeOK
<1>11. CountersAreGrants'
  BY <1>1, <1>10 DEF CeilingInv, CountersAreGrants
<1>12. NeverOversubscribed'
  <2>1. \A k \in Windows : granted[k] <= GlobalLimit /\ granted[k] \in Int
    BY <1>1 DEF CeilingInv, NeverOversubscribed, TypeOK
  <2>2. \A q \in Senders, k \in Windows : grantedTo[q][k] <= Ceiling(q) /\ grantedTo[q][k] \in Int
    BY <1>1 DEF CeilingInv, NeverOversubscribed, TypeOK
  <2>3. GlobalLimit \in Int /\ Ceiling(s) \in Int
    <3>1. PICK l \in SenderLimits[s] : TRUE
      BY QuotaAssumption
    <3>2. QED
      BY <3>1, CeilingBounds, QuotaAssumption
  <2>4. \A k \in Windows : granted'[k] <= GlobalLimit
    BY <1>10, <2>1, <2>3
  <2>5. \A q \in Senders, k \in Windows : grantedTo'[q][k] <= Ceiling(q)
    BY <1>10, <2>2, <2>3
  <2>6. QED
    BY <2>4, <2>5 DEF NeverOversubscribed, Ceiling
<1>13. ASSUME NEW k \in Windows PROVE delivered'[k] + Cardinality(Holders(k)') <= granted'[k]
  <2>1. Holders(k)' = IF k = h THEN Holders(h) \ {w} ELSE Holders(k)
    BY <1>1, <1>3 DEF Holders, Stays
  <2>2. CASE k = h
    BY <1>6, <1>7, <1>8, <1>10, <2>1, <2>2
  <2>3. CASE k # h
    BY <1>10, <2>1, <2>3 DEF CeilingInv, SlotsBacked
  <2>4. QED
    BY <2>2, <2>3
<1>14. ASSUME NEW q \in Senders, NEW k \in Windows
       PROVE  Cardinality(HoldersOf(q, k)') <= grantedTo'[q][k]
  <2>1. HoldersOf(q, k)' = IF q = s /\ k = h THEN HoldersOf(s, h) \ {w} ELSE HoldersOf(q, k)
    BY <1>1, <1>3, <1>4 DEF Holders, HoldersOf, Stays
  <2>2. CASE q = s /\ k = h
    BY <1>6, <1>7, <1>8, <1>10, <2>1, <2>2
  <2>3. CASE ~(q = s /\ k = h)
    BY <1>10, <2>1, <2>3 DEF CeilingInv, SlotsBacked
  <2>4. QED
    BY <2>2, <2>3
<1>15. QED
  BY <1>11, <1>12, <1>13, <1>14 DEF SlotsBacked

\* A delivery uses up the slot that its worker holds.
LEMMA DeliveryKeepsCeilings ==
  ASSUME CountersKept, CeilingInv, NEW w \in Workers, WorkerMove(w), Delivers(w)
  PROVE  CountersAreGrants' /\ SlotsBacked' /\ NeverOversubscribed'
<1>1. TypeOK /\ IsFiniteSet(Workers) /\ window' = window /\ \A x \in Workers \ {w} : Stays(x)
  BY DEF CeilingInv, CountersKept, WorkerMove
<1>2. CountersAreGrants' /\ NeverOversubscribed'
  BY <1>1 DEF Delivers, CeilingInv, CountersAreGrants, NeverOversubscribed, Ceiling
<1>3. PICK h \in Windows : h = charged[w]
  BY <1>1 DEF TypeOK
<1>4. pc[w] \in Holding /\ pc'[w] \notin Holding
  BY DEF Delivers, Holding
<1>5. ASSUME NEW k \in Windows PROVE delivered'[k] + Cardinality(Holders(k)') <= granted'[k]
  <2>1. /\ Holders(k) \subseteq Workers /\ w \in Holders(h)
        /\ Holders(k)' = IF k = h THEN Holders(k) \ {w} ELSE Holders(k)
    BY <1>1, <1>3, <1>4 DEF Holders, Stays
  <2>2. Cardinality(Holders(k)') =
          IF k = h THEN Cardinality(Holders(k)) - 1 ELSE Cardinality(Holders(k))
    BY <1>1, <2>1, OneWorker
  <2>3. Cardinality(Holders(k)) \in Nat
    BY <1>1, <2>1, WorkerSets
  <2>4. /\ delivered[k] \in Nat /\ granted[k] \in Int /\ granted' = granted
        /\ delivered[k] + Cardinality(Holders(k)) <= granted[k]
        /\ delivered'[k] = IF k = h THEN delivered[k] + 1 ELSE delivered[k]
    BY <1>1, <1>3 DEF CeilingInv, SlotsBacked, Delivers, TypeOK
  <2>5. QED
    BY <2>2, <2>3, <2>4
<1>6. ASSUME NEW s \in Senders, NEW k \in Windows
      PROVE  Cardinality(HoldersOf(s, k)') <= grantedTo'[s][k]
  <2>1. HoldersOf(s, k) \subseteq Workers /\ HoldersOf(s, k)' \subseteq HoldersOf(s, k)
    BY <1>1, <1>4 DEF Holders, HoldersOf, Stays
  <2>2. /\ Cardinality(HoldersOf(s, k)) \in Nat /\ Cardinality(HoldersOf(s, k)') \in Nat
        /\ Cardinality(HoldersOf(s, k)') <= Cardinality(HoldersOf(s, k))
    BY <1>1, <2>1, WorkerSets
  <2>3. /\ grantedTo[s][k] \in Int /\ Cardinality(HoldersOf(s, k)) <= grantedTo[s][k]
        /\ grantedTo' = grantedTo
    BY <1>1 DEF CeilingInv, SlotsBacked, Delivers, TypeOK
  <2>4. QED
    BY <2>2, <2>3
<1>7. QED
  BY <1>2, <1>5, <1>6 DEF SlotsBacked

\* Every step keeps CeilingInv.
LEMMA CeilingStep ==
  ASSUME CountersKept, CeilingInv, [Next]_vars
  PROVE  CeilingInv'
<1>1. TypeOK /\ TypeOK' /\ Reservations' /\ RefundsInTime'
  BY QuotaTypingStep, ReservationStep, RefundStep DEF CeilingInv
<1> SUFFICES CountersAreGrants' /\ SlotsBacked' /\ NeverOversubscribed'
  BY <1>1 DEF CeilingInv
<1>2. ASSUME NEW w \in Workers, WorkerStep(w)
      PROVE  CountersAreGrants' /\ SlotsBacked' /\ NeverOversubscribed'
  <2>1. WorkerMove(w)
    BY <1>1, <1>2, WorkerMoves
  <2>2. CASE Grants(w)
    BY <2>1, <2>2, GrantKeepsCeilings
  <2>3. CASE Refunds(w)
    BY <2>1, <2>3, RefundKeepsCeilings
  <2>4. CASE Delivers(w)
    BY <2>1, <2>4, DeliveryKeepsCeilings
  <2>5. CASE BooksNothing(w)
    <3>1. \A x \in Workers : pc'[x] \in Holding =>
             pc[x] \in Holding /\ charged'[x] = charged[x] /\ sender'[x] = sender[x]
      BY <2>1, <2>5 DEF WorkerMove, BooksNothing, Moves, Stays, Holding, Evaluating
    <3>2. QED
      BY <2>1, <2>5, <3>1, NothingBooked DEF WorkerMove, BooksNothing
  <2>6. QED
    BY <2>1, <2>2, <2>3, <2>4, <2>5 DEF WorkerMove
<1>3. CASE Tick \/ Expiry
  <2>1. /\ window' \in Int /\ window' >= window /\ window \in Int
        /\ UNCHANGED <<pc, sender, charged, granted, grantedTo, delivered>>
    <3>1. window' \in Int /\ window' >= window /\ window \in Int
      <4>1. window \in Int
        BY <1>1 DEF TypeOK, Windows
      <4>2. window' = window \/ window' = window + 1
        BY <1>3 DEF Tick, Expiry, ExpireGlobal, ExpireSender
      <4>3. QED
        BY <4>1, <4>2
    <3>2. UNCHANGED <<pc, sender, charged, granted, grantedTo, delivered>>
      BY <1>3 DEF Tick, Expiry, ExpireGlobal, ExpireSender, localVars, grantVars, sendVars
    <3>3. QED
      BY <3>1, <3>2
  <2>2. ASSUME NEW h \in Windows, h + 2 > window'
        PROVE  /\ globalUsed'[h] = globalUsed[h] /\ h + 2 > window
               /\ \A s \in Senders : senderUsed'[s][h] = senderUsed[s][h]
    <3>1. h \in Int /\ h + 2 > window
      BY <2>1, <2>2 DEF Windows
    <3>2. CASE Tick
      BY <3>1, <3>2 DEF Tick, redisVars
    <3>3. ASSUME NEW k \in Windows, ExpireGlobal(k) \/ \E q \in Senders : ExpireSender(q, k)
          PROVE  /\ globalUsed'[h] = globalUsed[h]
                 /\ \A s \in Senders : senderUsed'[s][h] = senderUsed[s][h]
      <4>1. k # h
        BY <2>1, <3>1, <3>3 DEF ExpireGlobal, ExpireSender, Expired
      <4>2. QED
        BY <1>1, <3>3, <4>1 DEF ExpireGlobal, ExpireSender, TypeOK
    <3>4. QED
      BY <1>3, <3>1, <3>2, <3>3 DEF Expiry
  <2>3. CountersAreGrants'
    BY <2>1, <2>2 DEF CeilingInv, CountersAreGrants
  <2>4. SlotsBacked' /\ NeverOversubscribed'
    BY <2>1 DEF CeilingInv, SlotsBacked, Holders, HoldersOf, NeverOversubscribed, Ceiling
  <2>5. QED
    BY <2>3, <2>4
<1>4. CASE RedisRestart \/ UNCHANGED vars
  <2>1. /\ UNCHANGED <<window, globalUsed, senderUsed, granted, grantedTo, delivered>>
        /\ UNCHANGED <<pc, sender, charged>>
    BY <1>4 DEF RedisRestart, CountersKept, vars, redisVars, localVars, grantVars, sendVars
  <2>2. QED
    BY <2>1, NothingBooked
<1>5. QED
  BY <1>2, <1>3, <1>4 DEF Next, Expiry

\* The invariant holds at the start.
LEMMA CeilingInit == CountersKept /\ Init => CeilingInv
<1> SUFFICES ASSUME CountersKept, Init PROVE CeilingInv
  OBVIOUS
<1>1. TypeOK
  BY QuotaTypingInit
<1>2. CountersAreGrants /\ Reservations /\ RefundsInTime
  BY DEF Init, CountersAreGrants, Reservations, RefundsInTime, Evaluating, Holding
<1>3. ASSUME NEW s \in Senders PROVE 0 <= Ceiling(s)
  <2>1. PICK l \in SenderLimits[s] : TRUE
    BY QuotaAssumption
  <2>2. QED
    BY <2>1, CeilingBounds
<1>4. NeverOversubscribed
  BY <1>3, QuotaAssumption DEF Init, NeverOversubscribed
<1>5. \A h \in Windows : Holders(h) = {} /\ \A s \in Senders : HoldersOf(s, h) = {}
  BY DEF Init, Holders, HoldersOf, Holding
<1>6. SlotsBacked
  <2>1. \A h \in Windows : /\ Cardinality(Holders(h)) = 0
                           /\ \A s \in Senders : Cardinality(HoldersOf(s, h)) = 0
    BY <1>5, FS_EmptySet
  <2>2. \A h \in Windows : /\ delivered[h] = 0 /\ granted[h] = 0
                           /\ \A s \in Senders : grantedTo[s][h] = 0
    BY DEF Init
  <2>3. QED
    BY <2>1, <2>2 DEF SlotsBacked
<1>7. QED
  BY <1>1, <1>2, <1>4, <1>6 DEF CeilingInv

\* However many workers race, whatever limits their campaigns carry, however often
\* the script cache is lost and however many failed sends give their slot back, no
\* window of the global or of a sender's quota grants more slots than its ceiling
\* (hourly-quota.lua:34).
THEOREM QuotaHolds == CountersKept => (Spec => []NeverOversubscribed)
<1> SUFFICES ASSUME CountersKept PROVE Spec => []NeverOversubscribed
  OBVIOUS
<1>1. CeilingInv /\ [Next]_vars => CeilingInv'
  BY CeilingStep
<1>2. Init => CeilingInv
  BY CeilingInit
<1>3. CeilingInv => NeverOversubscribed
  BY DEF CeilingInv
<1>4. QED
  BY <1>1, <1>2, <1>3, PTL DEF Spec

\* The ledger bounds what a window delivers.
LEMMA LedgerBounds ==
  ASSUME CountersKept, CeilingInv, NEW h \in Windows PROVE delivered[h] <= GlobalLimit
<1>1. Holders(h) \subseteq Workers
  BY DEF Holders
<1>2. Cardinality(Holders(h)) \in Nat
  BY <1>1, WorkerSets DEF CountersKept
<1>3. /\ delivered[h] \in Nat /\ granted[h] \in Int /\ GlobalLimit \in Nat
      /\ delivered[h] + Cardinality(Holders(h)) <= granted[h] /\ granted[h] <= GlobalLimit
  BY QuotaAssumption DEF CeilingInv, SlotsBacked, NeverOversubscribed, TypeOK
<1>4. QED
  BY <1>2, <1>3

\* The emails that keep a slot of a window are never more than its ceiling: a crash
\* or a failover loses a slot, and none is ever used twice (emailWorker.ts:121).
THEOREM DeliveriesHold == CountersKept => (Spec => []DeliveriesWithinQuota)
<1> SUFFICES ASSUME CountersKept PROVE Spec => []DeliveriesWithinQuota
  OBVIOUS
<1>1. CeilingInv /\ [Next]_vars => CeilingInv'
  BY CeilingStep
<1>2. Init => CeilingInv
  BY CeilingInit
<1>3. CeilingInv => DeliveriesWithinQuota
  BY LedgerBounds DEF DeliveriesWithinQuota
<1>4. QED
  BY <1>1, <1>2, <1>3, PTL DEF Spec

------------------------------------------------------------------------------
(* What an hour of the wall clock carries. *)

\* The workers still sending for a window that is over.
Late == {w \in Workers : pc[w] \in Evaluating \cup {"stamp", "send"} /\ windowId[w] # window}

\* What the running hour carries beyond the slots of its own window was in flight
\* when it began; of that, Late is still to come.
Overrun ==
    /\ \A h \in Windows : h > window => sentIn[h] = 0
    /\ sentIn[window] + Cardinality(Late) <= delivered[window] + Cardinality(Workers)
    /\ \A h \in Windows : sentIn[h] <= delivered[h] + Cardinality(Workers)
OverrunInv == TypeOK /\ Reservations /\ Overrun

\* A step that delivers nothing and lets nobody fall behind keeps the bound.
LEMMA NothingSent ==
  ASSUME IsFiniteSet(Workers), OverrunInv, UNCHANGED <<window, delivered, sentIn>>,
         Late' \subseteq Late
  PROVE  Overrun'
<1>1. Late \subseteq Workers
  BY DEF Late
<1>2. /\ Cardinality(Late') <= Cardinality(Late)
      /\ Cardinality(Late') \in Nat /\ Cardinality(Late) \in Nat /\ Cardinality(Workers) \in Nat
  BY <1>1, WorkerSets, FS_CardinalityType
<1>3. sentIn[window] \in Nat /\ delivered[window] \in Nat
  BY DEF OverrunInv, TypeOK
<1>4. QED
  BY <1>2, <1>3 DEF OverrunInv, Overrun

\* A delivery of this window uses its own slot; a late one leaves Late.
LEMMA DeliveryOverruns ==
  ASSUME IsFiniteSet(Workers), OverrunInv, NEW w \in Workers, WorkerMove(w), Delivers(w)
  PROVE  Overrun'
<1>1. TypeOK /\ window' = window /\ \A x \in Workers \ {w} : Stays(x)
  BY DEF OverrunInv, WorkerMove
<1>2. PICK h \in Windows : h = charged[w]
  BY <1>1 DEF TypeOK
<1>3. window \in Windows
  BY <1>1 DEF TypeOK
<1>4. h = windowId[w] /\ pc[w] = "send" /\ pc'[w] = "idle"
  BY <1>2 DEF OverrunInv, Reservations, Delivers, Holding
<1>5. \A k \in Windows :
         /\ delivered'[k] = IF k = h THEN delivered[k] + 1 ELSE delivered[k]
         /\ sentIn'[k] = IF k = window THEN sentIn[k] + 1 ELSE sentIn[k]
         /\ delivered[k] \in Nat /\ sentIn[k] \in Nat
  BY <1>1, <1>2, <1>3 DEF Delivers, TypeOK
<1>6. /\ Late \subseteq Workers /\ Late' = Late \ {w}
      /\ w \in Late <=> h # window
  BY <1>1, <1>4 DEF Late, Stays, Evaluating
<1>7. /\ Cardinality(Late) \in Nat /\ Cardinality(Late') \in Nat /\ Cardinality(Workers) \in Nat
      /\ Cardinality(Late') = IF h # window THEN Cardinality(Late) - 1 ELSE Cardinality(Late)
  <2>1. Late' \subseteq Late
    BY <1>6
  <2>2. Cardinality(Late) \in Nat /\ Cardinality(Late') \in Nat /\ Cardinality(Workers) \in Nat
    BY <1>6, <2>1, WorkerSets, FS_CardinalityType
  <2>3. CASE h # window
    BY <1>6, <2>2, <2>3, OneWorker
  <2>4. CASE h = window
    <3>1. Late' = Late
      BY <1>6, <2>4
    <3>2. QED
      BY <2>2, <2>4, <3>1
  <2>5. QED
    BY <2>3, <2>4
<1>8. sentIn'[window] + Cardinality(Late') <= delivered'[window] + Cardinality(Workers)
  BY <1>3, <1>5, <1>7 DEF OverrunInv, Overrun
<1>9. \A k \in Windows : sentIn'[k] <= delivered'[k] + Cardinality(Workers)
  BY <1>3, <1>5, <1>7, <1>8 DEF OverrunInv, Overrun
<1>10. \A k \in Windows : k > window => sentIn'[k] = 0
  <2>1. window \in Int /\ \A k \in Windows : k \in Int
    BY <1>3 DEF Windows
  <2>2. QED
    BY <1>3, <1>5, <2>1 DEF OverrunInv, Overrun
<1>11. QED
  BY <1>1, <1>8, <1>9, <1>10 DEF Overrun

\* Every step keeps OverrunInv.
LEMMA OverrunStep ==
  ASSUME IsFiniteSet(Workers), OverrunInv, [Next]_vars PROVE OverrunInv'
<1>1. TypeOK /\ TypeOK' /\ Reservations' /\ Reservations
  BY QuotaTypingStep, ReservationStep DEF OverrunInv
<1> SUFFICES Overrun'
  BY <1>1 DEF OverrunInv
<1>2. ASSUME NEW w \in Workers, WorkerStep(w) PROVE Overrun'
  <2>1. WorkerMove(w)
    BY <1>1, <1>2, WorkerMoves
  <2>2. CASE Delivers(w)
    BY <2>1, <2>2, DeliveryOverruns
  <2>3. CASE ~Delivers(w)
    <3>1. UNCHANGED <<window, delivered, sentIn>>
      BY <2>1, <2>3 DEF WorkerMove, Grants, Refunds, BooksNothing
    <3>2. Late' \subseteq Late
      BY <2>1, <3>1 DEF WorkerMove, Moves, Stays, Late, Evaluating
    <3>3. QED
      BY <3>1, <3>2, NothingSent
  <2>4. QED
    BY <2>2, <2>3
<1>3. CASE Tick
  <2>1. /\ window' = window + 1 /\ window \in Int /\ window' \in Windows
        /\ UNCHANGED <<delivered, sentIn>>
    BY <1>1, <1>3 DEF Tick, sendVars, TypeOK, Windows
  <2>2. sentIn[window'] = 0 /\ delivered[window'] \in Nat
    BY <1>1, <2>1 DEF OverrunInv, Overrun, TypeOK
  <2>3. Late' \subseteq Workers
    BY DEF Late
  <2>4. /\ Cardinality(Late') <= Cardinality(Workers)
        /\ Cardinality(Late') \in Nat /\ Cardinality(Workers) \in Nat
    BY <2>3, WorkerSets
  <2>5. sentIn'[window'] + Cardinality(Late') <= delivered'[window'] + Cardinality(Workers)
    BY <2>1, <2>2, <2>4
  <2>6. \A h \in Windows : h > window' => sentIn'[h] = 0
    BY <2>1 DEF OverrunInv, Overrun, Windows
  <2>7. QED
    BY <2>1, <2>5, <2>6 DEF OverrunInv, Overrun
<1>4. CASE RedisRestart \/ Expiry \/ UNCHANGED vars
  <2>1. UNCHANGED <<window, delivered, sentIn, pc, windowId>>
    BY <1>4 DEF RedisRestart, Expiry, ExpireGlobal, ExpireSender, vars, localVars, sendVars
  <2>2. Late' \subseteq Late
    BY <2>1 DEF Late
  <2>3. QED
    BY <2>1, <2>2, NothingSent
<1>5. QED
  BY <1>2, <1>3, <1>4 DEF Next, Expiry

\* An hour of the wall clock carries at most the ceiling and one email per worker
\* that was in flight when it began, whatever the workers were doing.
THEOREM ClockOverrunHolds == CountersKept => (Spec => []ClockOverrunBounded)
<1> SUFFICES ASSUME CountersKept PROVE Spec => []ClockOverrunBounded
  OBVIOUS
<1>1. Init => OverrunInv
  <2> SUFFICES ASSUME Init PROVE OverrunInv
    OBVIOUS
  <2>1. TypeOK
    BY QuotaTypingInit
  <2>2. Reservations /\ Late = {}
    BY DEF Init, Reservations, Late, Evaluating, Holding
  <2>3. Cardinality(Late) = 0 /\ Cardinality(Workers) \in Nat
    BY <2>2, FS_EmptySet, FS_CardinalityType DEF CountersKept
  <2>4. window \in Windows /\ \A h \in Windows : sentIn[h] = 0 /\ delivered[h] = 0
    BY <2>1 DEF Init, TypeOK
  <2>5. QED
    BY <2>1, <2>2, <2>3, <2>4 DEF OverrunInv, Overrun
<1>2. OverrunInv /\ [Next]_vars => OverrunInv'
  BY OverrunStep DEF CountersKept
<1>3. CeilingInv /\ OverrunInv => ClockOverrunBounded
  <2> SUFFICES ASSUME CeilingInv, OverrunInv, NEW h \in Windows
               PROVE  sentIn[h] <= GlobalLimit + Cardinality(Workers)
    BY DEF ClockOverrunBounded
  <2>1. delivered[h] <= GlobalLimit
    BY LedgerBounds
  <2>2. /\ delivered[h] \in Nat /\ sentIn[h] \in Nat /\ GlobalLimit \in Nat
        /\ Cardinality(Workers) \in Nat
    BY QuotaAssumption, FS_CardinalityType DEF OverrunInv, TypeOK, CountersKept
  <2>3. sentIn[h] <= delivered[h] + Cardinality(Workers)
    BY DEF OverrunInv, Overrun
  <2>4. QED
    BY <2>1, <2>2, <2>3
<1>4. CeilingInv /\ [Next]_vars => CeilingInv'
  BY CeilingStep
<1>5. Init => CeilingInv
  BY CeilingInit
<1>6. QED
  BY <1>1, <1>2, <1>3, <1>4, <1>5, PTL DEF Spec
------------------------------------------------------------------------------
(* Sums over finite sets.  The library's induction theorems cannot be instantiated; *)
(* what holds of all sizes is shown by the absence of a least counterexample.       *)

\* Induction: a set that has 0 and all successors in 0..n has all of 0..n.
LEMMA UpTo ==
  ASSUME NEW n \in Nat, NEW T, 0 \in T, \A m \in 1..n : m - 1 \in T => m \in T
  PROVE  0..n \subseteq T
<1> DEFINE out  == (0..n) \ T
           less == {p \in Nat \X Nat : p[1] < p[2]}
<1>1. SUFFICES ASSUME out # {} PROVE FALSE
  OBVIOUS
<1>2. PICK m \in out : \A k \in out : ~(k < m)
  <2>1. IsWellFoundedOn(less, Nat)
    BY NatLessThanWellFounded DEF OpToRel
  <2>2. out \subseteq Nat
    OBVIOUS
  <2> HIDE DEF less, out
  <2>3. PICK m \in out : \A k \in out : <<k, m>> \notin less
    BY <1>1, <2>1, <2>2, WFMin
  <2>4. \A k \in out : ~(k < m)
    BY <2>2, <2>3 DEF less
  <2>5. QED
    BY <2>4
<1>3. m # 0 /\ m \in 1..n /\ m - 1 \in 0..n /\ m - 1 < m
  BY <1>2
<1>4. m - 1 \in T
  BY <1>2, <1>3
<1>5. QED
  BY <1>2, <1>3, <1>4

\* The sum of the counters of window h over the members of S.
Total(f, h, S) == MapThenSumSet(LAMBDA s : f[s][h], S)

\* The member that a sum takes next, and the function on the parts of S that it is
\* computed by.
First(T) == CHOOSE x \in T : TRUE
IsTotal(f, h, S, g) ==
    g = [T \in SUBSET S |-> IF T = {} THEN 0 ELSE f[First(T)][h] + g[T \ {First(T)}]]

\* The size of a set that is taken apart.
LEMMA TakeFirst ==
  ASSUME NEW S, IsFiniteSet(S), NEW T \in SUBSET S
  PROVE  /\ IsFiniteSet(T) /\ Cardinality(T) \in Nat
         /\ Cardinality(T) = 0 <=> T = {}
         /\ T # {} => /\ First(T) \in T /\ First(T) \in S /\ T \ {First(T)} \in SUBSET S
                      /\ Cardinality(T \ {First(T)}) = Cardinality(T) - 1
<1>1. IsFiniteSet(T)
  BY FS_Subset
<1>2. Cardinality(T) \in Nat /\ (Cardinality(T) = 0 <=> T = {})
  BY <1>1, FS_CardinalityType, FS_EmptySet
<1>3. ASSUME T # {}
      PROVE  /\ First(T) \in T /\ First(T) \in S /\ T \ {First(T)} \in SUBSET S
             /\ Cardinality(T \ {First(T)}) = Cardinality(T) - 1
  <2>1. First(T) \in T
    BY <1>3 DEF First
  <2>2. Cardinality(T \ {First(T)}) = Cardinality(T) - 1
    BY <1>1, <2>1, FS_RemoveElement
  <2>3. QED
    BY <2>1, <2>2
<1>4. QED
  BY <1>1, <1>2, <1>3

\* A sum over a finite set is what its equation says.
LEMMA TotalIsDefined ==
  ASSUME NEW S, IsFiniteSet(S), NEW f, NEW h
  PROVE  \E g : IsTotal(f, h, S, g) /\ Total(f, h, S) = g[S]
<1> DEFINE Small(m) == {T \in SUBSET S : Cardinality(T) <= m}
           Up(m, g) == g = [T \in Small(m) |->
                              IF T = {} THEN 0 ELSE f[First(T)][h] + g[T \ {First(T)}]]
           Ok == {m \in Nat : \E g : Up(m, g)}
<1>0. \A T \in SUBSET S :
         /\ Cardinality(T) \in Nat /\ (Cardinality(T) = 0 <=> T = {})
         /\ T # {} => /\ First(T) \in T /\ First(T) \in S /\ T \ {First(T)} \in SUBSET S
                      /\ Cardinality(T \ {First(T)}) = Cardinality(T) - 1
  BY TakeFirst
<1>1. 0 \in Ok
  <2>1. \A T \in Small(0) : T = {}
    <3>1. ASSUME NEW T \in Small(0) PROVE T = {}
      <4> DEFINE c == Cardinality(T)
      <4>1. c \in Nat /\ c <= 0 /\ (c = 0 <=> T = {})
        BY <1>0
      <4> HIDE DEF c
      <4>2. QED
        BY <4>1
    <3>2. QED
      BY <3>1
  <2>2. Up(0, [T \in Small(0) |-> 0])
    BY <2>1
  <2>3. QED
    BY <2>2
<1>2. ASSUME NEW m \in Nat \ {0}, m - 1 \in Ok PROVE m \in Ok
  <2>1. PICK g : Up(m - 1, g)
    BY <1>2
  <2> DEFINE k == [T \in Small(m) |-> IF Cardinality(T) <= m - 1 THEN g[T]
                     ELSE IF T = {} THEN 0 ELSE f[First(T)][h] + g[T \ {First(T)}]]
  <2>2. ASSUME NEW T \in Small(m)
        PROVE  k[T] = IF T = {} THEN 0 ELSE f[First(T)][h] + k[T \ {First(T)}]
    <3> DEFINE c == Cardinality(T)
               R == T \ {First(T)}
    <3>1. c \in Nat /\ c <= m
      BY <1>0
    <3>2. ASSUME T # {} PROVE R \in Small(m) /\ k[R] = g[R]
      <4>1. R \in SUBSET S /\ Cardinality(R) = c - 1
        BY <1>0, <3>2
      <4>2. Cardinality(R) <= m - 1 /\ Cardinality(R) <= m
        <5> DEFINE d == Cardinality(R)
        <5>1. d = c - 1
          BY <4>1
        <5> HIDE DEF d, c
        <5>2. d <= m - 1 /\ d <= m
          BY <3>1, <5>1
        <5>3. QED
          BY <5>2 DEF d
      <4> HIDE DEF R
      <4>3. R \in Small(m)
        BY <4>1, <4>2
      <4>4. QED
        BY <4>2, <4>3
    <3>3. CASE c <= m - 1
      <4>1. T \in Small(m - 1) /\ k[T] = g[T]
        BY <3>3
      <4>2. g[T] = IF T = {} THEN 0 ELSE f[First(T)][h] + g[T \ {First(T)}]
        BY <2>1, <4>1
      <4> HIDE DEF k
      <4>3. QED
        BY <3>2, <4>1, <4>2
    <3>4. CASE ~(c <= m - 1)
      <4>1. k[T] = IF T = {} THEN 0 ELSE f[First(T)][h] + g[T \ {First(T)}]
        BY <3>4
      <4> HIDE DEF k
      <4>2. QED
        BY <3>2, <4>1
    <3>5. QED
      BY <3>3, <3>4
  <2>3. Up(m, k)
    <3>1. k = [T \in Small(m) |-> k[T]]
      OBVIOUS
    <3> HIDE DEF k
    <3>2. QED
      BY <2>2, <3>1
  <2> HIDE DEF Up, k
  <2>4. QED
    BY <2>3
<1> DEFINE n == Cardinality(S)
<1>3. n \in Nat
  BY <1>0
<1>4. n \in Ok
  <2> HIDE DEF n, Ok
  <2>1. \A m \in 1..n : m - 1 \in Ok => m \in Ok
    BY <1>2
  <2>2. 0..n \subseteq Ok
    BY <1>1, <1>3, <2>1, UpTo
  <2>3. QED
    BY <1>3, <2>2
<1>5. Small(n) = SUBSET S
  <2>1. \A T \in SUBSET S : Cardinality(T) <= Cardinality(S)
    BY FS_Subset
  <2>2. QED
    BY <2>1
<1>6. \E g : IsTotal(f, h, S, g)
  <2>1. PICK g : Up(n, g)
    BY <1>4
  <2> HIDE DEF Small, n
  <2>2. IsTotal(f, h, S, g)
    BY <1>5, <2>1 DEF IsTotal
  <2>3. QED
    BY <2>2
<1>7. Total(f, h, S) = (CHOOSE g : IsTotal(f, h, S, g))[S]
  BY Zenon DEF Total, MapThenSumSet, MapThenFoldSet, IsTotal, First
<1>8. QED
  BY <1>6, <1>7

\* If the counters of one member change by d, and the others not at all, so does the sum.
LEMMA TotalChanges ==
  ASSUME NEW S, IsFiniteSet(S), NEW f, NEW f2, NEW h, NEW a \in S, NEW d \in Int,
         \A s \in S : f[s][h] \in Int /\ f2[s][h] = IF s = a THEN f[s][h] + d ELSE f[s][h]
  PROVE  Total(f, h, S) \in Int /\ Total(f2, h, S) = Total(f, h, S) + d
<1>1. PICK g : IsTotal(f, h, S, g) /\ Total(f, h, S) = g[S]
  BY TotalIsDefined
<1>2. PICK g2 : IsTotal(f2, h, S, g2) /\ Total(f2, h, S) = g2[S]
  BY TotalIsDefined
<1> DEFINE Right(T) == g[T] \in Int /\ g2[T] = IF a \in T THEN g[T] + d ELSE g[T]
           Ok == {m \in Nat : \A T \in SUBSET S : Cardinality(T) = m => Right(T)}
<1>3. \A T \in SUBSET S :
         /\ g[T]  = IF T = {} THEN 0 ELSE f[First(T)][h] + g[T \ {First(T)}]
         /\ g2[T] = IF T = {} THEN 0 ELSE f2[First(T)][h] + g2[T \ {First(T)}]
  BY <1>1, <1>2 DEF IsTotal
<1>4. 0 \in Ok
  <2>1. ASSUME NEW T \in SUBSET S, Cardinality(T) = 0 PROVE Right(T)
    <3>1. T = {}
      BY <2>1, TakeFirst
    <3>2. g[T] = 0 /\ g2[T] = 0 /\ a \notin T
      BY <1>3, <3>1
    <3>3. QED
      BY <3>2
  <2>2. QED
    BY <2>1
<1>5. ASSUME NEW m \in Nat \ {0}, m - 1 \in Ok PROVE m \in Ok
  <2>1. ASSUME NEW T \in SUBSET S, Cardinality(T) = m PROVE Right(T)
    <3> DEFINE x == First(T)
               R == T \ {x}
    <3>1. T # {}
      BY <2>1, TakeFirst
    <3>2. x \in T /\ x \in S /\ R \in SUBSET S /\ Cardinality(R) = m - 1
      BY <2>1, <3>1, TakeFirst
    <3>3. Right(R)
      BY <1>5, <3>2
    <3>4. g[T] = f[x][h] + g[R] /\ g2[T] = f2[x][h] + g2[R]
      BY <1>3, <3>1
    <3>5. f[x][h] \in Int /\ f2[x][h] = IF x = a THEN f[x][h] + d ELSE f[x][h]
      BY <3>2
    <3>6. (a \in T <=> x = a \/ a \in R) /\ ~(x = a /\ a \in R)
      BY <3>2
    <3> HIDE DEF x, R
    <3>7. g[T] \in Int
      BY <3>3, <3>4, <3>5
    <3>8. CASE x = a
      BY <3>3, <3>4, <3>5, <3>6, <3>7, <3>8
    <3>9. CASE x # a
      BY <3>3, <3>4, <3>5, <3>6, <3>7, <3>9
    <3>10. QED
      BY <3>8, <3>9
  <2> HIDE DEF Right
  <2>2. QED
    BY <2>1
<1>6. Right(S)
  <2> DEFINE n == Cardinality(S)
  <2>1. n \in Nat
    BY TakeFirst
  <2>2. n \in Ok
    <3> HIDE DEF n, Ok
    <3>1. \A m \in 1..n : m - 1 \in Ok => m \in Ok
      BY <1>5
    <3>2. 0..n \subseteq Ok
      BY <1>4, <2>1, <3>1, UpTo
    <3>3. QED
      BY <2>1, <3>2
  <2> HIDE DEF Right
  <2>3. QED
    BY <2>2
<1>7. QED
  BY <1>1, <1>2, <1>6

\* Counters that are equal have equal sums.
LEMMA TotalIsStable ==
  ASSUME NEW S, IsFiniteSet(S), NEW f, NEW f2, NEW h,
         \A s \in S : f[s][h] \in Int /\ f2[s][h] = f[s][h]
  PROVE  Total(f2, h, S) = Total(f, h, S)
<1>1. CASE S = {}
  <2>1. PICK g : IsTotal(f, h, S, g) /\ Total(f, h, S) = g[S]
    BY TotalIsDefined
  <2>2. PICK g2 : IsTotal(f2, h, S, g2) /\ Total(f2, h, S) = g2[S]
    BY TotalIsDefined
  <2>3. g[S] = 0 /\ g2[S] = 0
    BY <1>1, <2>1, <2>2 DEF IsTotal
  <2>4. QED
    BY <2>1, <2>2, <2>3
<1>2. CASE S # {}
  <2>1. PICK a \in S : TRUE
    BY <1>2
  <2>2. \A s \in S : f[s][h] \in Int /\ f2[s][h] = IF s = a THEN f[s][h] + 0 ELSE f[s][h]
    OBVIOUS
  <2> DEFINE t == Total(f, h, S)
             t2 == Total(f2, h, S)
  <2>3. t \in Int /\ t2 = t + 0
    BY <2>1, <2>2, TotalChanges
  <2> HIDE DEF t, t2
  <2>4. t2 = t
    BY <2>3
  <2>5. QED
    BY <2>4 DEF t, t2
<1>3. QED
  BY <1>1, <1>2

\* The sum of counters that are all zero is zero.
LEMMA TotalOfZeros ==
  ASSUME NEW S, IsFiniteSet(S), NEW f, NEW h, \A s \in S : f[s][h] = 0
  PROVE  Total(f, h, S) = 0
<1>1. PICK g : IsTotal(f, h, S, g) /\ Total(f, h, S) = g[S]
  BY TotalIsDefined
<1> DEFINE Ok == {m \in Nat : \A T \in SUBSET S : Cardinality(T) = m => g[T] = 0}
<1>2. \A T \in SUBSET S : g[T] = IF T = {} THEN 0 ELSE f[First(T)][h] + g[T \ {First(T)}]
  BY <1>1 DEF IsTotal
<1>3. 0 \in Ok
  <2>1. ASSUME NEW T \in SUBSET S, Cardinality(T) = 0 PROVE g[T] = 0
    <3>1. T = {}
      BY <2>1, TakeFirst
    <3>2. QED
      BY <1>2, <3>1
  <2>2. QED
    BY <2>1
<1>4. ASSUME NEW m \in Nat \ {0}, m - 1 \in Ok PROVE m \in Ok
  <2>1. ASSUME NEW T \in SUBSET S, Cardinality(T) = m PROVE g[T] = 0
    <3> DEFINE R == T \ {First(T)}
    <3>1. T # {}
      BY <2>1, TakeFirst
    <3>2. First(T) \in S /\ R \in SUBSET S /\ Cardinality(R) = m - 1
      BY <2>1, <3>1, TakeFirst
    <3>3. g[R] = 0 /\ f[First(T)][h] = 0
      BY <1>4, <3>2
    <3>4. g[T] = f[First(T)][h] + g[R]
      BY <1>2, <3>1
    <3> HIDE DEF R
    <3>5. QED
      BY <3>3, <3>4
  <2>2. QED
    BY <2>1
<1>5. QED
  <2> DEFINE n == Cardinality(S)
  <2>1. n \in Nat
    BY TakeFirst
  <2>2. n \in Ok
    <3> HIDE DEF n, Ok
    <3>1. \A m \in 1..n : m - 1 \in Ok => m \in Ok
      BY <1>4
    <3>2. 0..n \subseteq Ok
      BY <1>3, <2>1, <3>1, UpTo
    <3>3. QED
      BY <2>1, <3>2
  <2>3. QED
    BY <1>1, <2>2

------------------------------------------------------------------------------
(* The counters of a window agree with each other. *)

\* NoLeak with its sum spelled out.
LEMMA NoLeakIsTotal ==
  NoLeak <=> \A h \in Windows : ~Expired(h) => globalUsed[h] = Total(senderUsed, h, Senders)
BY DEF NoLeak, Total

\* A step that moves the counters of one window by as much for one sender as for all
\* keeps them in agreement.
LEMMA NothingLeaks ==
  ASSUME IsFiniteSet(Senders), TypeOK, NoLeak, window' = window,
         NEW s \in Senders, NEW h \in Windows, NEW d \in Int,
         \A k \in Windows : globalUsed'[k] = IF k = h THEN globalUsed[k] + d ELSE globalUsed[k],
         \A q \in Senders, k \in Windows : senderUsed'[q][k] =
            IF q = s /\ k = h THEN senderUsed[q][k] + d ELSE senderUsed[q][k]
  PROVE  NoLeak'
<1>1. ASSUME NEW k \in Windows, ~Expired(k) PROVE globalUsed'[k] = Total(senderUsed', k, Senders)
  <2> DEFINE t == Total(senderUsed, k, Senders)
             t2 == Total(senderUsed', k, Senders)
  <2>1. \A q \in Senders : senderUsed[q][k] \in Int
    BY DEF TypeOK
  <2>2. globalUsed[k] = t
    BY <1>1, NoLeakIsTotal
  <2>3. CASE k = h
    <3>1. \A q \in Senders : senderUsed'[q][k] =
             IF q = s THEN senderUsed[q][k] + d ELSE senderUsed[q][k]
      BY <2>3
    <3>2. t2 = t + d
      BY <2>1, <3>1, TotalChanges
    <3> HIDE DEF t, t2
    <3>3. globalUsed'[k] = t2
      BY <2>2, <2>3, <3>2
    <3>4. QED
      BY <3>3 DEF t2
  <2>4. CASE k # h
    <3>1. \A q \in Senders : senderUsed'[q][k] = senderUsed[q][k]
      BY <2>4
    <3>2. t2 = t
      BY <2>1, <3>1, TotalIsStable
    <3>3. QED
      BY <2>2, <2>4, <3>2
  <2>5. QED
    BY <2>3, <2>4
<1>2. QED
  BY <1>1 DEF NoLeak, Expired, Total, MapThenSumSet, MapThenFoldSet

\* A step that moves no counter of a window that has not expired leaks nothing.
LEMMA NothingMoved ==
  ASSUME IsFiniteSet(Senders), TypeOK, NoLeak, window' \in Int, window' >= window,
         \A h \in Windows : ~Expired(h)' =>
            /\ globalUsed'[h] = globalUsed[h]
            /\ \A q \in Senders : senderUsed'[q][h] = senderUsed[q][h]
  PROVE  NoLeak'
<1>1. ASSUME NEW h \in Windows, ~Expired(h)'
      PROVE  globalUsed'[h] = Total(senderUsed', h, Senders)
  <2>1. ~Expired(h)
    BY <1>1 DEF Expired, TypeOK, Windows
  <2>2. \A q \in Senders : senderUsed[q][h] \in Int
    BY DEF TypeOK
  <2>3. Total(senderUsed', h, Senders) = Total(senderUsed, h, Senders)
    BY <1>1, <2>2, TotalIsStable
  <2>4. QED
    BY <1>1, <2>1, <2>3, NoLeakIsTotal
<1>2. QED
  BY <1>1 DEF NoLeak, Total, MapThenSumSet, MapThenFoldSet

\* A refund returns its slot to both counters: neither is at zero, where Refunded and
\* the global decrement would go different ways.
LEMMA RefundMovesBoth ==
  ASSUME CountersKept, CeilingInv, NEW w \in Workers, WorkerMove(w), Refunds(w)
  PROVE  /\ sender[w] \in Senders /\ window \in Windows
         /\ \A k \in Windows :
               globalUsed'[k] = IF k = window THEN globalUsed[k] + (-1) ELSE globalUsed[k]
         /\ \A q \in Senders, k \in Windows : senderUsed'[q][k] =
               IF q = sender[w] /\ k = window THEN senderUsed[q][k] + (-1) ELSE senderUsed[q][k]
<1>1. TypeOK /\ CountersAreGrants /\ CountersAreGrants' /\ window' = window
  BY RefundKeepsCeilings DEF CeilingInv, WorkerMove
<1>2. PICK h \in Windows : h = window /\ h + 2 > window
  BY <1>1 DEF TypeOK, Windows
<1>3. charged[w] = h /\ sender[w] \in Senders
  BY <1>2 DEF CeilingInv, RefundsInTime, Reservations, Refunds, Holding
<1>4. PICK s \in Senders : s = sender[w]
  BY <1>3
<1>5. /\ globalUsed' = [globalUsed EXCEPT ![h] = IF @ > 0 THEN @ - 1 ELSE 0]
      /\ senderUsed' = [senderUsed EXCEPT ![s][h] = Refunded(@)]
      /\ granted' = [granted EXCEPT ![h] = @ - 1]
      /\ grantedTo' = [grantedTo EXCEPT ![s][h] = @ - 1]
  BY <1>2, <1>3, <1>4 DEF Refunds
<1>6. /\ globalUsed[h] = granted[h] /\ globalUsed'[h] = granted'[h]
      /\ senderUsed[s][h] = grantedTo[s][h] /\ senderUsed'[s][h] = grantedTo'[s][h]
  BY <1>1, <1>2 DEF CountersAreGrants
<1>7. granted'[h] = granted[h] - 1 /\ grantedTo'[s][h] = grantedTo[s][h] - 1
  BY <1>1, <1>5 DEF TypeOK
<1>8. globalUsed'[h] = globalUsed[h] - 1 /\ senderUsed'[s][h] = senderUsed[s][h] - 1
  BY <1>6, <1>7
<1>9. \A k \in Windows : k # h => globalUsed'[k] = globalUsed[k]
  BY <1>1, <1>5 DEF TypeOK
<1>10. \A q \in Senders, k \in Windows : ~(q = s /\ k = h) => senderUsed'[q][k] = senderUsed[q][k]
  BY <1>1, <1>5 DEF TypeOK
<1>11. globalUsed[h] \in Int /\ senderUsed[s][h] \in Int
  BY <1>1 DEF TypeOK
<1>12. QED
  BY <1>2, <1>4, <1>8, <1>9, <1>10, <1>11

\* Every step keeps the counters in agreement.
LEMMA LeakStep ==
  ASSUME CountersKept, IsFiniteSet(Senders), CeilingInv, NoLeak, [Next]_vars
  PROVE  NoLeak'
<1>1. TypeOK
  BY DEF CeilingInv
<1>2. ASSUME NEW w \in Workers, WorkerStep(w) PROVE NoLeak'
  <2>1. WorkerMove(w)
    BY <1>1, <1>2, WorkerMoves
  <2>2. CASE Grants(w)
    <3>1. PICK s \in Senders : s = sender[w]
      BY <1>1, <2>2 DEF Grants, TypeOK, Evaluating
    <3>2. PICK h \in Windows : h = windowId[w]
      BY <1>1 DEF TypeOK
    <3>3. /\ \A k \in Windows :
                globalUsed'[k] = IF k = h THEN globalUsed[k] + 1 ELSE globalUsed[k]
          /\ \A q \in Senders, k \in Windows : senderUsed'[q][k] =
                IF q = s /\ k = h THEN senderUsed[q][k] + 1 ELSE senderUsed[q][k]
      BY <1>1, <2>2, <3>1, <3>2 DEF Grants, TypeOK
    <3>4. 1 \in Int
      OBVIOUS
    <3>5. QED
      BY <1>1, <2>1, <3>3, <3>4, NothingLeaks DEF WorkerMove
  <2>3. CASE Refunds(w)
    <3>1. -1 \in Int
      OBVIOUS
    <3>2. QED
      BY <1>1, <2>1, <2>3, <3>1, RefundMovesBoth, NothingLeaks DEF WorkerMove
  <2>4. CASE Delivers(w) \/ BooksNothing(w)
    <3>1. window' = window /\ window \in Int
      BY <1>1, <2>1 DEF WorkerMove, TypeOK, Windows
    <3>2. UNCHANGED <<globalUsed, senderUsed>>
      BY <2>4 DEF Delivers, BooksNothing
    <3>3. QED
      BY <1>1, <3>1, <3>2, NothingMoved
  <2>5. QED
    BY <2>1, <2>2, <2>3, <2>4 DEF WorkerMove
<1>3. CASE Expiry
  <2>1. PICK h \in Windows : ExpireGlobal(h) \/ \E s \in Senders : ExpireSender(s, h)
    BY <1>3 DEF Expiry
  <2>2. window' = window /\ window \in Int /\ Expired(h)
    BY <1>1, <2>1 DEF ExpireGlobal, ExpireSender, TypeOK, Windows
  <2>3. \A k \in Windows : k # h =>
           /\ globalUsed'[k] = globalUsed[k]
           /\ \A q \in Senders : senderUsed'[q][k] = senderUsed[q][k]
    <3>1. ASSUME NEW s \in Senders, ExpireSender(s, h), NEW k \in Windows, k # h, NEW q \in Senders
          PROVE  globalUsed'[k] = globalUsed[k] /\ senderUsed'[q][k] = senderUsed[q][k]
      BY <1>1, <3>1 DEF ExpireSender, TypeOK
    <3>2. ASSUME ExpireGlobal(h), NEW k \in Windows, k # h
          PROVE  globalUsed'[k] = globalUsed[k] /\ senderUsed' = senderUsed
      BY <1>1, <3>2 DEF ExpireGlobal, TypeOK
    <3>3. ASSUME NEW s \in Senders, ExpireSender(s, h) PROVE globalUsed' = globalUsed
      BY <3>3 DEF ExpireSender
    <3>4. QED
      BY <2>1, <3>1, <3>2, <3>3
  <2>4. \A k \in Windows : ~Expired(k)' => k # h
    BY <2>2 DEF Expired
  <2>5. window' \in Int /\ window' >= window
    BY <2>2
  <2>6. \A k \in Windows : ~Expired(k)' =>
           /\ globalUsed'[k] = globalUsed[k]
           /\ \A q \in Senders : senderUsed'[q][k] = senderUsed[q][k]
    BY <2>3, <2>4
  <2>7. QED
    BY <1>1, <2>5, <2>6, NothingMoved
<1>4. CASE Tick \/ RedisRestart \/ UNCHANGED vars
  <2>1. window' \in Int /\ window' >= window /\ UNCHANGED <<globalUsed, senderUsed>>
    BY <1>1, <1>4 DEF Tick, RedisRestart, CountersKept, vars, redisVars, TypeOK, Windows
  <2>2. QED
    BY <1>1, <2>1, NothingMoved
<1>5. QED
  BY <1>2, <1>3, <1>4 DEF Next, Expiry

\* While a window is alive its global counter is the sum of its sender counters, whatever is granted,
\* refused, refunded or expires (hourly-quota.lua:8, rateLimiter.ts:136).
THEOREM CountersAgree == CountersKept /\ IsFiniteSet(Senders) => (Spec => []NoLeak)
<1> SUFFICES ASSUME CountersKept, IsFiniteSet(Senders) PROVE Spec => []NoLeak
  OBVIOUS
<1>1. Init => NoLeak
  <2> SUFFICES ASSUME Init, NEW h \in Windows
               PROVE  globalUsed[h] = Total(senderUsed, h, Senders)
    BY NoLeakIsTotal
  <2>1. globalUsed[h] = 0 /\ \A s \in Senders : senderUsed[s][h] = 0
    BY DEF Init
  <2>2. QED
    BY <2>1, TotalOfZeros
<1>2. CeilingInv /\ NoLeak /\ [Next]_vars => NoLeak'
  BY LeakStep
<1>3. CeilingInv /\ [Next]_vars => CeilingInv'
  BY CeilingStep
<1>4. Init => CeilingInv
  BY CeilingInit
<1>5. QED
  BY <1>1, <1>2, <1>3, <1>4, PTL DEF Spec

\* A refund touches only the window its slot was charged to (rateLimiter.ts:133),
\* provided that the hour does not roll between the reservation and its Date.now(): the
\* only way to the disagreement that the run refund_new_window shows.
THEOREM RefundsStayHome == CountersKept => (Spec => RefundsOwnWindow)
<1> SUFFICES ASSUME CountersKept PROVE Spec => RefundsOwnWindow
  OBVIOUS
<1> DEFINE Home == \A w \in Workers : Refund(w) =>
                      \A h \in Windows : h # charged[w] => globalUsed'[h] = globalUsed[h]
<1>1. CeilingInv /\ [Next]_vars => [Home]_vars
  <2> SUFFICES ASSUME CeilingInv, NEW w \in Workers, Refund(w), NEW h \in Windows, h # charged[w]
               PROVE  globalUsed'[h] = globalUsed[h]
    OBVIOUS
  <2>1. pc[w] = "refund" /\ TypeOK
    BY DEF Refund, CeilingInv
  <2>2. reservedAt[w] = charged[w]
    BY <2>1 DEF CeilingInv, RefundsInTime
  <2>3. CASE reservedAt[w] = window
    <3>1. globalUsed' = [globalUsed EXCEPT ![reservedAt[w]] = IF @ > 0 THEN @ - 1 ELSE 0]
      BY <2>3 DEF Refund
    <3>2. QED
      BY <2>1, <2>2, <3>1 DEF TypeOK
  <2>4. CASE reservedAt[w] # window
    BY <2>4 DEF Refund
  <2>5. QED
    BY <2>3, <2>4
<1>2. CeilingInv /\ [Next]_vars => CeilingInv'
  BY CeilingStep
<1>3. Init => CeilingInv
  BY CeilingInit
<1>4. QED
  BY <1>1, <1>2, <1>3, PTL DEF Spec, RefundsOwnWindow
=============================================================================
