------------------------------ MODULE Lifecycle ------------------------------
(***************************************************************************)
(* The processes of a deployment: boot (index.ts, worker.ts), graceful     *)
(* shutdown and its backstop (lib/shutdown.ts), the launcher that starts   *)
(* and stops them in development (scripts/dev.mjs), and what the work they *)
(* have in hand needs of them: a worker's runs their SMTP transport        *)
(* (mail/transport.ts), HTTP requests the database.  Of the requests the   *)
(* sign-ins are modelled (modules/auth), of a run what touches the process *)
(* it is in; EmailDelivery has the rest.                                   *)
(***************************************************************************)
EXTENDS Naturals, Sequences, FiniteSets

CONSTANTS
    Serving,        \* processes with the HTTP server (index.ts)
    Working,        \* ... with a worker (worker.ts, or RUN_WORKER_IN_API)
    Slots, ProcOf,  \* worker slots (WORKER_CONCURRENCY) and their processes
    Rows,           \* emails, all of one sender
    Transports,     \* names for the SMTP connection pools of a process
    Ways,           \* sign-ins of one person: with Google, or the demo form
    Google,
    None,
    MaxRotations,   \* bound: changes of the sender's credentials
    MaxRequests,    \* bound: sign-ins sent
    MaxFaults       \* bound: crashes and losses of Redis

Procs == Serving \cup Working
CacheEntry == [id : Transports, fingerprint : Nat]

ASSUME LifecycleAssumption ==
    /\ ProcOf \in [Slots -> Working] /\ Google \subseteq Ways
    /\ None \notin Procs \cup Transports \cup CacheEntry
    /\ {MaxRotations, MaxRequests, MaxFaults} \subseteq Nat

VARIABLES
    launcher,      \* dev.mjs, until it stops; in production a supervisor, always up
    phase,         \* of each process
    teardown,      \* how many steps of the shutdown are done
    todo,          \* rows that the reconcile of a process has still to look at
    row, owner,    \* email_jobs: status and lockedBy
    job,           \* the rows with a job in Redis
    run,           \* what each slot does
    cached,        \* the transport each process has cached, with its fingerprint
    live,          \* the transports of a process that are not closed
    credentials,   \* of the sender, by version
    account,       \* has the person a row in users?
    request,       \* the sign-in in flight, where, and if the person had a row by then
    sent, faults,
    owed           \* history, of a boot: the rows that were pending when it began, less
                   \* those the log says it could not enqueue

procVars == <<launcher, phase, teardown, todo, owed>>
workVars == <<row, owner, job, run, cached, live, credentials>>
httpVars == <<account, request, sent>>
vars     == <<procVars, workVars, httpVars, faults>>

\* What shutdown() closes, in this order.
Teardown == <<"server", "worker", "queue", "transports", "db", "redis">>

Closed(p) == {Teardown[i] : i \in 1..teardown[p]}
RunsOf(p) == {s \in Slots : ProcOf[s] = p /\ run[s] # None}
InHand(r) == \E s \in Slots : run[s] # None /\ run[s].row = r
RequestsOf(p) == {w \in Ways : request[w].at = p}
Cached(p) == IF cached[p] = None THEN {} ELSE {cached[p].id}
Nowhere == [at |-> None, stage |-> "idle", known |-> FALSE, connected |-> FALSE]

\* Types; a process that is off holds nothing, and a row is PROCESSING exactly while it
\* has an owner.
TypeOK ==
    /\ launcher \in {"up", "stopping"}
    /\ phase \in [Procs -> {"off", "booting", "up", "down"}]
    /\ teardown \in [Procs -> 0..Len(Teardown)]
    /\ \A p \in Procs : todo[p] \subseteq Rows /\ owed[p] \subseteq Rows
    /\ \A p \in Procs : phase[p] = "off" =>
          /\ RunsOf(p) = {} /\ RequestsOf(p) = {} /\ todo[p] = {}
          /\ cached[p] = None /\ live[p] = {}
    /\ row \in [Rows -> {"pending", "processing", "sent", "failed"}]
    /\ \A r \in Rows : row[r] = "processing" <=> owner[r] \in Working
    /\ job \subseteq Rows
    /\ account \in BOOLEAN
    /\ \A w \in Ways : request[w].known => account

Init ==
    /\ launcher = "up"
    /\ phase = [p \in Procs |-> "booting"]
    /\ teardown = [p \in Procs |-> 0]
    /\ todo = [p \in Procs |-> Rows] /\ owed = todo
    /\ row = [r \in Rows |-> "pending"] /\ owner = [r \in Rows |-> None]
    /\ job = {}
    /\ run = [s \in Slots |-> None] /\ credentials = 0
    /\ cached = [p \in Procs |-> None] /\ live = [p \in Procs |-> {}]
    /\ account = FALSE /\ request = [w \in Ways |-> Nowhere]
    /\ sent = 0 /\ faults = 0

------------------------------------------------------------------------------
(* Boot and death *)

\* The supervisor starts a process again: connectDatabase, checkRedisDurability, and
\* reconcile over what is in the database by then.
Restart(p) ==
    /\ phase[p] = "off" /\ launcher = "up"
    /\ phase' = [phase EXCEPT ![p] = "booting"]
    /\ todo' = [todo EXCEPT ![p] = Rows]
    /\ owed' = [owed EXCEPT ![p] = {r \in Rows : row[r] = "pending"}]
    /\ UNCHANGED <<launcher, teardown, workVars, httpVars, faults>>

\* The two passes of reconcile, row by row.  A row its owner has left behind is given
\* back, under RESEND_SUSPECT_JOBS and while attempts are left, and meets the second
\* pass, or is closed as suspect.  A pending row gets its job; if Redis fails, or the
\* shutdown has closed the queue, the log says so and reconcile goes on.
LeftBehind(p, r) ==
    /\ row[r] = "processing" /\ ~InHand(r) /\ UNCHANGED <<job, owed>>
    /\ \E status \in {"pending", "failed"} :
          /\ row' = [row EXCEPT ![r] = status] /\ owner' = [owner EXCEPT ![r] = None]
          /\ todo' = IF status = "pending" THEN todo ELSE [todo EXCEPT ![p] = @ \ {r}]
Examine(p, r) ==
    /\ phase[p] # "off" /\ r \in todo[p]
    /\ \/ LeftBehind(p, r)
       \/ /\ todo' = [todo EXCEPT ![p] = @ \ {r}]
          /\ \/ row[r] = "pending" /\ "queue" \notin Closed(p)
                /\ job' = job \cup {r} /\ UNCHANGED owed
             \/ row[r] = "pending" /\ owed' = [owed EXCEPT ![p] = @ \ {r}] /\ UNCHANGED job
             \/ row[r] # "pending" /\ UNCHANGED <<job, owed>>
          /\ UNCHANGED <<row, owner>>
    /\ UNCHANGED <<launcher, phase, teardown, run, cached, live, credentials, httpVars, faults>>

\* reconcile has resolved: the worker, the timer and the server start, and the handlers
\* of signals are registered.  The buggy variant does not await reconcile.
StartAtOnce(p) ==
    /\ phase[p] = "booting"
    /\ phase' = [phase EXCEPT ![p] = "up"]
    /\ owed' = [owed EXCEPT ![p] = {}]
    /\ UNCHANGED <<launcher, teardown, todo, workVars, httpVars, faults>>
Start(p) ==
    /\ phase[p] = "booting" /\ todo[p] = {}
    /\ phase' = [phase EXCEPT ![p] = "up"]
    /\ owed' = [owed EXCEPT ![p] = {}]
    /\ UNCHANGED <<launcher, teardown, todo, workVars, httpVars, faults>>

\* The timer of startReconcileSweep fires, whatever there is to do.
Sweep(p) ==
    /\ phase[p] = "up"
    /\ todo' = [todo EXCEPT ![p] = Rows]
    /\ UNCHANGED <<launcher, phase, teardown, owed, workVars, httpVars, faults>>

\* A query of the sweep throws, because the shutdown, which does not await it, has
\* closed the database, or for reasons of its own; it is logged.
SweepThrows(p) ==
    /\ phase[p] \in {"up", "down"} /\ todo[p] # {}
    /\ todo' = [todo EXCEPT ![p] = {}]
    /\ UNCHANGED <<launcher, phase, teardown, owed, workVars, httpVars, faults>>

\* Processes that end take their runs, requests and transports with them; the rows of
\* the runs stay PROCESSING.
Die(gone) ==
    /\ phase' = [p \in Procs |-> IF p \in gone THEN "off" ELSE phase[p]]
    /\ teardown' = [p \in Procs |-> IF p \in gone THEN 0 ELSE teardown[p]]
    /\ todo' = [p \in Procs |-> IF p \in gone THEN {} ELSE todo[p]]
    /\ owed' = [p \in Procs |-> IF p \in gone THEN {} ELSE owed[p]]
    /\ run' = [s \in Slots |-> IF ProcOf[s] \in gone THEN None ELSE run[s]]
    /\ cached' = [p \in Procs |-> IF p \in gone THEN None ELSE cached[p]]
    /\ live' = [p \in Procs |-> IF p \in gone THEN {} ELSE live[p]]
    /\ request' = [w \in Ways |-> IF request[w].at \in gone THEN Nowhere ELSE request[w]]
    /\ UNCHANGED <<row, owner, job, credentials, account, sent>>

\* uncaughtException, a failed boot, or SIGKILL.
Crash(p) ==
    /\ phase[p] # "off" /\ Die({p})
    /\ faults < MaxFaults /\ faults' = faults + 1
    /\ UNCHANGED launcher

\* What Redis loses while a process boots is left to a later sweep.
RedisLoss ==
    /\ faults < MaxFaults /\ faults' = faults + 1
    /\ job # {} /\ job' = {}
    /\ owed' = [p \in Procs |-> {}]
    /\ UNCHANGED <<launcher, phase, teardown, todo, row, owner, run, cached, live,
                   credentials, httpVars>>

------------------------------------------------------------------------------
(* Shutdown *)

\* SIGTERM or SIGINT; a second one changes nothing, and one during the boot meets no
\* handler.
Signalled(p) == IF phase[p] = "up" THEN "down" ELSE phase[p]
Signal(p) ==
    /\ phase[p] = "up"
    /\ phase' = [phase EXCEPT ![p] = "down"]
    /\ UNCHANGED <<launcher, teardown, todo, owed, workVars, httpVars, faults>>

\* server.close waits for the connections it has, not for the handler of a client that
\* has gone; worker.close(false) for the runs in progress.  The buggy variant is
\* worker.close(true).
Connected(p) == {w \in RequestsOf(p) : request[w].connected}
MayCloseAbandoning(p, part) == part = "server" => Connected(p) = {}
MayClose(p, part) ==
    /\ part = "server" => Connected(p) = {}
    /\ part = "worker" => RunsOf(p) = {}

CloseNext(p) ==
    /\ phase[p] = "down" /\ teardown[p] < Len(Teardown)
    /\ MayClose(p, Teardown[teardown[p] + 1])
    /\ teardown' = [teardown EXCEPT ![p] = @ + 1]
    /\ IF Teardown[teardown[p] + 1] = "transports"
       THEN /\ cached' = [cached EXCEPT ![p] = None]
            /\ live' = [live EXCEPT ![p] = @ \ Cached(p)]
       ELSE UNCHANGED <<cached, live>>
    /\ UNCHANGED <<launcher, phase, todo, owed, row, owner, job, run, credentials, httpVars,
                   faults>>

\* process.exit(0)
Exit(p) ==
    /\ phase[p] = "down" /\ teardown[p] = Len(Teardown)
    /\ Die({p})
    /\ UNCHANGED <<launcher, faults>>

\* Twenty seconds have passed: process.exit(1).
Backstop(p) ==
    /\ phase[p] = "down" /\ Die({p})
    /\ UNCHANGED <<launcher, faults>>

\* dev.mjs stops, on a signal or because a child has exited: every child is signalled,
\* and one that has no handler yet dies of it.
LauncherStops ==
    /\ launcher = "up" /\ launcher' = "stopping"
    /\ phase' = [p \in Procs |-> IF phase[p] = "booting" THEN "off" ELSE Signalled(p)]
    /\ todo' = [p \in Procs |-> IF phase[p] = "booting" THEN {} ELSE todo[p]]
    /\ owed' = [p \in Procs |-> {}]
    /\ UNCHANGED <<teardown, workVars, httpVars, faults>>

\* Three seconds later, if the launcher is still there: SIGKILL, child by child.
LauncherKills(p) ==
    /\ launcher = "stopping" /\ phase[p] # "off"
    /\ Die({p})
    /\ UNCHANGED <<launcher, faults>>

------------------------------------------------------------------------------
(* The worker's runs *)

\* worker.close keeps a slot from taking a job, not the closing of the server.
Taking(p) == phase[p] = "up" \/ (phase[p] = "down" /\ teardown[p] = 0 /\ p \in Serving)

\* Load and claim: the run keeps the sender it has read.
Take(s, r) ==
    /\ run[s] = None /\ Taking(ProcOf[s])
    /\ r \in job /\ row[r] = "pending"
    /\ row' = [row EXCEPT ![r] = "processing"] /\ owner' = [owner EXCEPT ![r] = ProcOf[s]]
    /\ run' = [run EXCEPT ![s] = [row |-> r, stage |-> "claimed", with |-> credentials,
                                  over |-> None]]
    /\ UNCHANGED <<procVars, job, cached, live, credentials, httpVars, faults>>

\* getTransport: the cached one if its fingerprint is that of the run's sender, else it
\* is closed, for those who have it too, and another is built.  The buggy variant does
\* not close it.
Reuse(s) ==
    LET p == ProcOf[s] IN
    /\ cached[p] # None
    /\ cached[p].fingerprint = run[s].with
    /\ run' = [run EXCEPT ![s].stage = "queued", ![s].over = cached[p].id]
    /\ UNCHANGED <<cached, live>>
Rebuild(s, closed) ==
    LET p    == ProcOf[s]
        free == Transports \ (live[p] \cup {run[t].over : t \in RunsOf(p)})
        id   == CHOOSE x \in free : TRUE
    IN
    /\ free # {}
    /\ cached[p] # None => cached[p].fingerprint # run[s].with
    /\ cached' = [cached EXCEPT ![p] = [id |-> id, fingerprint |-> run[s].with]]
    /\ live' = [live EXCEPT ![p] = (@ \ closed) \cup {id}]
    /\ run' = [run EXCEPT ![s].stage = "queued", ![s].over = id]
GetTransportLeaks(s) ==
    /\ run[s] # None
    /\ run[s].stage = "claimed"
    /\ Reuse(s) \/ Rebuild(s, {})
    /\ UNCHANGED <<procVars, row, owner, job, credentials, httpVars, faults>>
GetTransport(s) ==
    /\ run[s] # None
    /\ run[s].stage = "claimed"
    /\ Reuse(s) \/ Rebuild(s, Cached(ProcOf[s]))
    /\ UNCHANGED <<procVars, row, owner, job, credentials, httpVars, faults>>

\* The row is settled or given back, and loses its owner.  The buggy variant forgets
\* lockedBy.
FinishKeepsOwner(s, status) ==
    /\ row' = [row EXCEPT ![run[s].row] = status] /\ UNCHANGED owner
    /\ run' = [run EXCEPT ![s] = None]
    /\ UNCHANGED <<procVars, job, cached, live, credentials, httpVars, faults>>
Finish(s, status) ==
    /\ row' = [row EXCEPT ![run[s].row] = status]
    /\ owner' = [owner EXCEPT ![run[s].row] = None]
    /\ run' = [run EXCEPT ![s] = None]
    /\ UNCHANGED <<procVars, job, cached, live, credentials, httpVars, faults>>

\* The send and its row; or the SMTP server refuses, or the transport was closed with
\* the email still in its queue, and the row is pending again.
Sends(s) == run[s] # None /\ run[s].stage = "queued" /\ Finish(s, "sent")
SendFails(s) == run[s] # None /\ run[s].stage = "queued" /\ Finish(s, "pending")

\* provision-ethereal gives the sender other credentials.
Rotate ==
    /\ credentials < MaxRotations /\ credentials' = credentials + 1
    /\ UNCHANGED <<procVars, row, owner, job, run, cached, live, httpVars, faults>>

------------------------------------------------------------------------------
(* Sign-ins, as the requests in flight *)

At(w, stage) ==
    /\ request' = [request EXCEPT ![w].stage = stage]
    /\ UNCHANGED <<procVars, workVars, sent, faults>>

Accept(w, p) ==
    /\ phase[p] = "up" /\ request[w] = Nowhere
    /\ sent < MaxRequests /\ sent' = sent + 1
    /\ request' = [request EXCEPT ![w] = [at |-> p, stage |-> "asked", known |-> account,
                                             connected |-> TRUE]]
    /\ UNCHANGED <<procVars, workVars, account, faults>>

\* upsertGoogleUser looks for the identity, then for the address.  The buggy variant
\* looks for the identity alone, which a row the demo form has made has not.
LookupIdentity(w) ==
    /\ w \in Google /\ request[w].stage = "asked" /\ At(w, "new")
    /\ UNCHANGED account
Lookup(w) ==
    /\ w \in Google /\ request[w].stage = "asked"
    /\ At(w, IF account THEN "found" ELSE "new")
    /\ UNCHANGED account

\* update, or create: the unique index refuses an address inserted since.
WriteUser(w) ==
    /\ request[w].stage \in {"found", "new"}
    /\ account' = TRUE
    /\ At(w, IF request[w].stage = "new" /\ account THEN "refused" ELSE "done")

\* loginWithPassword is one upsert.
DemoUpsert(w) ==
    /\ w \notin Google /\ request[w].stage = "asked"
    /\ account' = TRUE
    /\ At(w, "done")

\* The client goes; its handler runs on.
Disconnect(w) ==
    /\ request[w].connected
    /\ request' = [request EXCEPT ![w].connected = FALSE]
    /\ UNCHANGED <<procVars, workVars, account, sent, faults>>

\* The answer; of a handler that meets a closed database, an error.  (Prisma may as well
\* connect again, so the steps above do not ask.)
Reply(w) ==
    /\ request[w] # Nowhere
    /\ request[w].stage \in {"refused", "done"} \/ "db" \in Closed(request[w].at)
    /\ request' = [request EXCEPT ![w] = Nowhere]
    /\ UNCHANGED <<procVars, workVars, account, sent, faults>>

------------------------------------------------------------------------------
ProcStep(p) ==
    \/ Restart(p) \/ (\E r \in Rows : Examine(p, r)) \/ Start(p) \/ Sweep(p) \/ SweepThrows(p)
    \/ Crash(p) \/ Signal(p) \/ CloseNext(p) \/ Exit(p) \/ Backstop(p) \/ LauncherKills(p)
RunStep(s) ==
    (\E r \in Rows : Take(s, r)) \/ GetTransport(s) \/ Sends(s) \/ SendFails(s)
RequestStep(w) ==
    (\E p \in Serving : Accept(w, p)) \/ Lookup(w) \/ WriteUser(w) \/ DemoUpsert(w)
    \/ Disconnect(w) \/ Reply(w)

Next ==
    \/ \E p \in Procs : ProcStep(p)
    \/ RedisLoss \/ LauncherStops \/ Rotate
    \/ \E s \in Slots : RunStep(s)
    \/ \E w \in Ways : RequestStep(w)

Spec == Init /\ [][Next]_vars

------------------------------------------------------------------------------
(* Properties *)

\* "A restart cannot begin sending before the backlog has been rebuilt" (index.ts:19):
\* when a process starts its worker, every row that was pending when it booted and
\* still is has a job, or the log says that it could not be enqueued
\* (reconciler.ts:145).
BacklogFirst ==
    [][\A p \in Procs : phase[p] = "booting" /\ phase'[p] = "up" =>
          \A r \in owed[p] : row[r] = "pending" => r \in job]_vars

\* The order of the shutdown: no connection is closed under a run that needs it
\* (shutdown.ts:19), nor under a request whose client still waits.  A sweep, and the
\* handler of a client that has gone, are not waited for.
NothingUnplugged ==
    \A p \in Procs :
        /\ RunsOf(p) # {} => Closed(p) \subseteq {"server"}
        /\ Connected(p) # {} => Closed(p) = {}

\* Whatever credentials the runs of a process have read, and in whatever order they
\* ask for a transport: none stays open that is not in the cache, where the shutdown
\* would miss it, and a run that holds an open one holds one of its own credentials
\* (transport.ts:36).
NoStrayTransport ==
    /\ \A p \in Procs : live[p] \subseteq Cached(p)
    /\ \A s \in Slots : run[s] # None /\ run[s].over \in live[ProcOf[s]] =>
          cached[ProcOf[s]].fingerprint = run[s].with

\* Of two first sign-ins with one address the unique index may refuse one, but never a
\* sign-in that came when the person had a row (auth.service.ts:82).
RefusedOnlyInARace == \A w \in Ways : request[w].stage = "refused" => ~request[w].known
=============================================================================
