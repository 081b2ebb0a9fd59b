--------------------------- MODULE LifecycleProofs ---------------------------
(***************************************************************************)
(* Lifecycle, for any number of processes, slots, rows and sign-ins.  The  *)
(* invariant has four parts: the processes and their shutdown, the runs    *)
(* and the transports they hold, the rows, the sign-ins.                   *)
(***************************************************************************)
EXTENDS Lifecycle, TLAPS

Phases  == {"off", "booting", "up", "down"}
RunType == [row : Rows, stage : {"claimed", "queued"}, with : Nat,
            over : Transports \cup {None}]
RequestType == [at : Serving \cup {None}, known : BOOLEAN, connected : BOOLEAN,
                stage : {"idle", "asked", "found", "new", "refused", "done"}]

\* Only a process that is shutting down has closed anything.
ProcInv ==
    /\ launcher \in {"up", "stopping"}
    /\ phase \in [Procs -> Phases]
    /\ teardown \in [Procs -> 0..6]
    /\ \A p \in Procs : phase[p] # "down" => teardown[p] = 0

\* Runs and transports are those of processes that have booted, and a run's process has
\* closed its server at most.
RunInv ==
    /\ run \in [Slots -> RunType \cup {None}]
    /\ cached \in [Procs -> CacheEntry \cup {None}] /\ live \in [Procs -> SUBSET Transports]
    /\ credentials \in Nat
    /\ \A s \in Slots : run[s] # None =>
          phase[ProcOf[s]] \in {"up", "down"} /\ teardown[ProcOf[s]] <= 1
    /\ \A p \in Procs : cached[p] # None => phase[p] \in {"up", "down"}
    /\ NoStrayTransport

\* Runs have rows of their own, which stay PROCESSING while they last.  What a booting
\* process owes is still to be looked at, or has its job; a row in hand has one.
RowInv ==
    /\ todo \in [Procs -> SUBSET Rows] /\ owed \in [Procs -> SUBSET Rows]
    /\ \A p \in Procs : phase[p] = "off" => todo[p] = {}
    /\ row \in [Rows -> {"pending", "processing", "sent", "failed"}]
    /\ owner \in [Rows -> Working \cup {None}] /\ job \subseteq Rows
    /\ \A r \in Rows : row[r] = "processing" <=> owner[r] \in Working
    /\ \A s \in Slots : run[s] # None => row[run[s].row] = "processing"
    /\ \A s, t \in Slots : run[s] # None /\ run[t] # None /\ run[s].row = run[t].row => s = t
    /\ \A p \in Procs : phase[p] = "booting" =>
          \A r \in owed[p] : row[r] # "pending" \/ r \notin todo[p] => r \in job

\* A sign-in whose client waits is in a process that has closed nothing; one that found
\* no row came when there was none.
SignInInv ==
    /\ account \in BOOLEAN
    /\ request \in [Ways -> RequestType]
    /\ \A w \in Ways : request[w].known => account
    /\ \A w \in Ways : request[w].stage \in {"new", "refused"} => ~request[w].known
    /\ \A w \in Ways : request[w].at # None =>
          /\ phase[request[w].at] \in {"up", "down"}
          /\ request[w].connected => teardown[request[w].at] = 0

IInv == ProcInv /\ RunInv /\ RowInv /\ SignInInv

------------------------------------------------------------------------------
\* The six steps of the shutdown, by number.
LEMMA TeardownSteps ==
    /\ Len(Teardown) = 6
    /\ Teardown[1] = "server" /\ Teardown[2] = "worker"
BY DEF Teardown

\* What has been closed grows with the number of steps done.
LEMMA ClosedSoFar ==
    ASSUME NEW p \in Procs, teardown[p] \in 0..6
    PROVE  /\ teardown[p] = 0 => Closed(p) = {}
           /\ teardown[p] <= 1 => Closed(p) \subseteq {"server"}
<1>1. \A i \in 1..teardown[p] : i \in Nat /\ 1 <= i /\ i <= teardown[p]
  OBVIOUS
<1>2. CASE teardown[p] = 0
  BY <1>2 DEF Closed
<1>3. CASE teardown[p] = 1
  BY <1>3, TeardownSteps DEF Closed
<1>4. QED
  BY <1>2, <1>3

LEMMA InitInv == Init => IInv
<1> SUFFICES ASSUME Init PROVE IInv
  OBVIOUS
<1> USE LifecycleAssumption DEF Init
<1>1. ProcInv
  BY DEF ProcInv, Phases
<1>2. RunInv
  BY DEF RunInv, NoStrayTransport, Procs
<1>3. RowInv
  BY DEF RowInv, Procs
<1>4. SignInInv
  BY DEF SignInInv, RequestType, Nowhere
<1>5. QED
  BY <1>1, <1>2, <1>3, <1>4 DEF IInv

\* Every step is one of the actions; the steps that leave the processes as they are are
\* the work's.
ProcsUnchanged == UNCHANGED <<launcher, phase, teardown>>

LEMMA ProcPreserved == ASSUME ProcInv, Next PROVE ProcInv'
<1> USE LifecycleAssumption DEF ProcInv, Phases
<1>1. CASE ProcsUnchanged
  BY <1>1 DEF ProcsUnchanged
<1>2. ASSUME NEW p \in Procs, Restart(p) PROVE ProcInv'
  BY <1>2 DEF Restart, Procs
<1>3. ASSUME NEW p \in Procs, Start(p) PROVE ProcInv'
  BY <1>3 DEF Start, Procs
<1>4. ASSUME NEW p \in Procs, Signal(p) PROVE ProcInv'
  BY <1>4 DEF Signal, Procs
<1>5. ASSUME NEW p \in Procs, CloseNext(p) PROVE ProcInv'
  BY <1>5, TeardownSteps DEF CloseNext
<1>6. ASSUME NEW gone, Die(gone), launcher' = launcher PROVE ProcInv'
  BY <1>6 DEF Die
<1>7. CASE LauncherStops
  BY <1>7 DEF LauncherStops, Signalled
<1>8. ASSUME NEW p \in Procs, NEW r \in Rows, Examine(p, r) PROVE ProcsUnchanged
  BY <1>8 DEF Examine, ProcsUnchanged
<1>9. ASSUME NEW p \in Procs, Sweep(p) \/ SweepThrows(p) PROVE ProcsUnchanged
  BY <1>9 DEF Sweep, SweepThrows, ProcsUnchanged
<1>10. ASSUME NEW s \in Slots, RunStep(s) PROVE ProcsUnchanged
  BY <1>10 DEF RunStep, Take, GetTransport, Sends, SendFails, Finish, ProcsUnchanged, procVars
<1>11. ASSUME NEW w \in Ways, RequestStep(w) PROVE ProcsUnchanged
  BY <1>11 DEF RequestStep, Accept, Lookup, WriteUser, DemoUpsert, Disconnect, Reply, At,
               ProcsUnchanged, procVars
<1>12. CASE RedisLoss \/ Rotate
  BY <1>12, <1>1 DEF RedisLoss, Rotate, ProcsUnchanged, procVars
<1>13. ASSUME NEW p \in Procs, Crash(p) \/ Exit(p) \/ Backstop(p) \/ LauncherKills(p) PROVE ProcInv'
  BY <1>13, <1>6 DEF Crash, Exit, Backstop, LauncherKills
<1>14. QED
  BY <1>1, <1>2, <1>3, <1>4, <1>5, <1>7, <1>8, <1>9, <1>10, <1>11, <1>12, <1>13
     DEF Next, ProcStep

\* A step of the processes, as the work sees it: of the processes that had booted those
\* that still have are as before, but for the next step of their shutdown.
LEMMA RunPreserved == ASSUME ProcInv, RunInv, Next PROVE RunInv'
<1> USE LifecycleAssumption
<1> DEFINE Held == UNCHANGED <<run, cached, live, credentials>>
           Calm == \A p \in Procs : phase[p] \in {"up", "down"} =>
                      /\ phase'[p] \in {"up", "down"}
                      /\ teardown'[p] = teardown[p]
<1>1. ASSUME Held, Calm PROVE RunInv'
  <2>1. \A s \in Slots : ProcOf[s] \in Procs
    BY DEF Procs
  <2>2. QED
    BY <1>1, <2>1 DEF RunInv, NoStrayTransport, Cached
<1>2. ASSUME NEW p \in Procs, Restart(p) \/ Start(p) \/ Signal(p) PROVE RunInv'
  <2>1. Held
    BY <1>2 DEF Restart, Start, Signal, workVars
  <2>2. Calm
    BY <1>2 DEF Restart, Start, Signal, ProcInv
  <2>3. QED
    BY <1>1, <2>1, <2>2
<1>3. ASSUME NEW p \in Procs, NEW r \in Rows, Examine(p, r) PROVE RunInv'
  BY <1>1, <1>3 DEF Examine
<1>4. ASSUME NEW p \in Procs, Sweep(p) \/ SweepThrows(p) PROVE RunInv'
  BY <1>1, <1>4 DEF Sweep, SweepThrows, workVars
<1>5. ASSUME NEW p \in Procs, CloseNext(p) PROVE RunInv'
  <2>1. \A s \in Slots : ProcOf[s] = p /\ run[s] # None => teardown'[p] <= 1
    <3> SUFFICES ASSUME NEW s \in Slots, ProcOf[s] = p, run[s] # None PROVE teardown[p] = 0
      BY <1>5 DEF CloseNext, ProcInv
    <3>1. RunsOf(p) # {}
      BY DEF RunsOf
    <3>2. teardown[p] # 1
      BY <1>5, <3>1, TeardownSteps DEF CloseNext, MayClose
    <3>3. QED
      BY <3>2 DEF RunInv, ProcInv
  <2>2. /\ UNCHANGED <<run, phase, credentials>>
        /\ \A q \in Procs : q # p => teardown'[q] = teardown[q]
    BY <1>5 DEF CloseNext, ProcInv
  <2>3. \/ UNCHANGED <<cached, live>>
        \/ /\ cached' = [cached EXCEPT ![p] = None]
           /\ live' = [live EXCEPT ![p] = @ \ Cached(p)]
    BY <1>5 DEF CloseNext
  <2>4. /\ cached' \in [Procs -> CacheEntry \cup {None}] /\ live' \in [Procs -> SUBSET Transports]
        /\ \A q \in Procs : cached'[q] # None => cached[q] # None
    BY <2>3 DEF RunInv
  <2>5. \A q \in Procs : \/ cached'[q] = cached[q] /\ live'[q] = live[q]
                         \/ live'[q] = {}
    BY <2>3 DEF RunInv, NoStrayTransport
  <2>6. \A s \in Slots : ProcOf[s] \in Procs
    BY DEF Procs
  <2>7. NoStrayTransport'
    BY <2>2, <2>5, <2>6 DEF RunInv, NoStrayTransport, Cached
  <2>8. QED
    BY <2>1, <2>2, <2>4, <2>6, <2>7 DEF RunInv
<1>6. ASSUME NEW gone, Die(gone) PROVE RunInv'
  <2>1. \A s \in Slots : run'[s] # None =>
           run'[s] = run[s] /\ run[s] # None /\ ProcOf[s] \in Procs /\ ProcOf[s] \notin gone
    BY <1>6 DEF Die, Procs
  <2>2. \A p \in Procs : p \notin gone => phase'[p] = phase[p] /\ teardown'[p] = teardown[p]
    BY <1>6 DEF Die, ProcInv
  <2>3. \A p \in Procs : IF p \in gone THEN cached'[p] = None /\ live'[p] = {}
                        ELSE cached'[p] = cached[p] /\ live'[p] = live[p]
    BY <1>6 DEF Die
  <2>4. /\ run' \in [Slots -> RunType \cup {None}]
        /\ cached' \in [Procs -> CacheEntry \cup {None}] /\ live' \in [Procs -> SUBSET Transports]
    BY <1>6 DEF Die, RunInv
  <2>5. credentials' \in Nat
    BY <1>6 DEF Die, RunInv
  <2>6. NoStrayTransport'
    BY <2>1, <2>3 DEF RunInv, NoStrayTransport, Cached
  <2>7. QED
    BY <2>1, <2>2, <2>3, <2>4, <2>5, <2>6 DEF RunInv
<1>7. CASE LauncherStops
  <2>1. Held
    BY <1>7 DEF LauncherStops, workVars
  <2>2. Calm
    BY <1>7 DEF LauncherStops, ProcInv, Signalled
  <2>3. QED
    BY <1>1, <2>1, <2>2
<1>8. CASE RedisLoss
  BY <1>1, <1>8 DEF RedisLoss
<1>9. ASSUME NEW p \in Procs, Crash(p) \/ Exit(p) \/ Backstop(p) \/ LauncherKills(p)
       PROVE  RunInv'
  BY <1>6, <1>9 DEF Crash, Exit, Backstop, LauncherKills
<1>10. ASSUME NEW s \in Slots, NEW r \in Rows, Take(s, r) PROVE RunInv'
  <2>1. run' = [run EXCEPT ![s] = [row |-> r, stage |-> "claimed", with |-> credentials,
                                   over |-> None]]
    BY <1>10 DEF Take
  <2>2. phase[ProcOf[s]] \in {"up", "down"} /\ teardown[ProcOf[s]] = 0
    BY <1>10 DEF Take, Taking, ProcInv, Procs
  <2>3. UNCHANGED <<phase, teardown, cached, live, credentials>>
    BY <1>10 DEF Take, procVars
  <2>4. \A t \in Slots : IF t = s THEN run'[t].over = None ELSE run'[t] = run[t]
    BY <2>1 DEF RunInv
  <2>5. \A t \in Slots : ProcOf[t] \in Procs
    BY DEF Procs
  <2>6. \A p \in Procs : None \notin live[p]
    BY DEF RunInv
  <2>7. NoStrayTransport'
    BY <2>3, <2>4, <2>5, <2>6 DEF RunInv, NoStrayTransport, Cached
  <2>8. run' \in [Slots -> RunType \cup {None}]
    BY <2>1 DEF RunInv, RunType
  <2>9. QED
    BY <2>1, <2>2, <2>3, <2>7, <2>8 DEF RunInv
<1>11. ASSUME NEW s \in Slots, GetTransport(s) PROVE RunInv'
  <2> DEFINE p == ProcOf[s]
  <2>1. /\ run[s] \in RunType /\ run[s] # None /\ run[s].with \in Nat
        /\ UNCHANGED <<phase, teardown, credentials>>
    BY <1>11 DEF GetTransport, RunInv, RunType, procVars
  <2>2. \A t \in Slots : ProcOf[t] \in Procs
    BY DEF Procs
  <2>3. phase[p] \in {"up", "down"} /\ teardown[p] <= 1
    BY <2>1 DEF RunInv
  <2>4. PICK id \in Transports :
          /\ run' = [run EXCEPT ![s].stage = "queued", ![s].over = id]
          /\ \/ /\ cached[p] # None /\ cached[p].fingerprint = run[s].with /\ id = cached[p].id
                /\ UNCHANGED <<cached, live>>
             \/ /\ \A t \in RunsOf(p) : run[t].over # id
                /\ cached' = [cached EXCEPT ![p] = [id |-> id, fingerprint |-> run[s].with]]
                /\ live' = [live EXCEPT ![p] = (@ \ Cached(p)) \cup {id}]
    <3>1. CASE Reuse(s)
      <4>1. cached[p].id \in Transports
        BY <2>2, <3>1 DEF Reuse, RunInv, CacheEntry
      <4>2. QED
        BY <3>1, <4>1 DEF Reuse
    <3>2. CASE Rebuild(s, Cached(p))
      <4> DEFINE free == Transports \ (live[p] \cup {run[t].over : t \in RunsOf(p)})
                 id   == CHOOSE x \in free : TRUE
      <4>1. free # {}
        BY <3>2 DEF Rebuild
      <4>2. id \in free
        BY <4>1
      <4>3. /\ run' = [run EXCEPT ![s].stage = "queued", ![s].over = id]
            /\ cached' = [cached EXCEPT ![p] = [id |-> id, fingerprint |-> run[s].with]]
            /\ live' = [live EXCEPT ![p] = (@ \ Cached(p)) \cup {id}]
        BY <3>2 DEF Rebuild
      <4> HIDE DEF id
      <4>4. QED
        BY <4>2, <4>3
    <3>3. QED
      BY <1>11, <3>1, <3>2 DEF GetTransport
  <2>5. /\ run'[s] = [run[s] EXCEPT !.stage = "queued", !.over = id]
        /\ \A t \in Slots : t # s => run'[t] = run[t]
    BY <2>1, <2>4 DEF RunInv
  <2>6. run'[s] \in RunType /\ run'[s].over = id /\ run'[s].with = run[s].with
    BY <2>1, <2>5 DEF RunType
  <2>7. run' \in [Slots -> RunType \cup {None}]
    BY <2>4, <2>5, <2>6 DEF RunInv
  <2>8. /\ cached' \in [Procs -> CacheEntry \cup {None}] /\ live' \in [Procs -> SUBSET Transports]
        /\ \A q \in Procs : q # p => cached'[q] = cached[q] /\ live'[q] = live[q]
    <3>1. [id |-> id, fingerprint |-> run[s].with] \in CacheEntry
      BY <2>1 DEF CacheEntry
    <3>2. QED
      BY <2>2, <2>4, <3>1 DEF RunInv
  <2>9. /\ live'[p] \subseteq {id} /\ cached'[p] # None /\ cached'[p].id = id
        /\ cached'[p].fingerprint = run[s].with
    <3>1. live[p] \subseteq Cached(p)
      BY <2>2 DEF RunInv, NoStrayTransport
    <3>2. CASE cached[p] # None /\ UNCHANGED <<cached, live>> /\ id = cached[p].id
               /\ cached[p].fingerprint = run[s].with
      BY <3>1, <3>2 DEF Cached
    <3>3. CASE /\ cached' = [cached EXCEPT ![p] = [id |-> id, fingerprint |-> run[s].with]]
               /\ live' = [live EXCEPT ![p] = (@ \ Cached(p)) \cup {id}]
      <4>1. cached'[p] = [id |-> id, fingerprint |-> run[s].with]
        BY <2>2, <3>3 DEF RunInv
      <4>2. live'[p] = (live[p] \ Cached(p)) \cup {id}
        BY <2>2, <3>3 DEF RunInv
      <4>3. [id |-> id, fingerprint |-> run[s].with] \in CacheEntry
        BY <2>1 DEF CacheEntry
      <4>4. cached'[p] # None
        BY <4>1, <4>3
      <4>5. QED
        BY <3>1, <4>1, <4>2, <4>4
    <3>4. QED
      BY <2>4, <3>2, <3>3
  <2>10. ASSUME NEW t \in Slots, run'[t] # None, run'[t].over \in live'[ProcOf[t]]
         PROVE  cached'[ProcOf[t]].fingerprint = run'[t].with
    <3>1. CASE t = s
      BY <2>6, <2>9, <3>1
    <3>2. CASE t # s /\ ProcOf[t] # p
      BY <2>2, <2>5, <2>8, <2>10, <3>2 DEF RunInv, NoStrayTransport
    <3>3. CASE t # s /\ ProcOf[t] = p
      <4>1. run'[t] = run[t] /\ run[t].over = id /\ t \in RunsOf(p)
        BY <2>5, <2>9, <2>10, <3>3 DEF RunsOf
      <4>2. /\ UNCHANGED <<cached, live>> /\ cached[p].fingerprint = run[s].with
        BY <2>4, <4>1
      <4>3. QED
        BY <2>10, <3>3, <4>1, <4>2 DEF RunInv, NoStrayTransport
    <3>4. QED
      BY <3>1, <3>2, <3>3
  <2>11. \A q \in Procs : live'[q] \subseteq Cached(q)'
    BY <2>8, <2>9 DEF RunInv, NoStrayTransport, Cached
  <2>12. NoStrayTransport'
    BY <2>10, <2>11 DEF NoStrayTransport
  <2>13. QED
    BY <2>1, <2>2, <2>3, <2>5, <2>7, <2>8, <2>12 DEF RunInv
<1>12. ASSUME NEW s \in Slots, Sends(s) \/ SendFails(s) PROVE RunInv'
  <2>1. run' = [run EXCEPT ![s] = None]
        /\ UNCHANGED <<phase, teardown, cached, live, credentials>>
    BY <1>12 DEF Sends, SendFails, Finish, procVars
  <2>2. \A t \in Slots : run'[t] # None => run'[t] = run[t]
    BY <2>1 DEF RunInv
  <2>3. NoStrayTransport'
    BY <2>1, <2>2 DEF RunInv, NoStrayTransport, Cached
  <2>4. QED
    BY <2>1, <2>3 DEF RunInv
<1>13. CASE Rotate
  BY <1>13 DEF Rotate, procVars, RunInv, NoStrayTransport, Cached
<1>14. ASSUME NEW w \in Ways, RequestStep(w) PROVE RunInv'
  BY <1>1, <1>14 DEF RequestStep, Accept, Lookup, WriteUser, DemoUpsert, Disconnect, Reply, At,
                     procVars, workVars
<1>15. QED
  BY <1>2, <1>3, <1>4, <1>5, <1>7, <1>8, <1>9, <1>10, <1>11, <1>12, <1>13, <1>14
     DEF Next, ProcStep, RunStep

LEMMA RowPreserved == ASSUME IInv, Next PROVE RowInv'
<1> USE LifecycleAssumption DEF IInv
<1> DEFINE RowsKept == /\ UNCHANGED <<row, owner, job>>
                       /\ \A s \in Slots : run'[s] # None =>
                             run[s] # None /\ run'[s].row = run[s].row
           TodoKept == /\ todo' \in [Procs -> SUBSET Rows] /\ owed' \in [Procs -> SUBSET Rows]
                       /\ \A p \in Procs :
                             /\ phase'[p] = "off" => todo'[p] = {}
                             /\ phase'[p] = "booting" =>
                                   phase[p] = "booting" /\ todo'[p] = todo[p] /\ owed'[p] = owed[p]
\* Most steps settle no row: runs end or go on, and no process begins to boot.
<1>1. ASSUME RowsKept, TodoKept PROVE RowInv'
  BY <1>1 DEF RowInv
<1>2. ASSUME UNCHANGED <<phase, todo, owed>> PROVE TodoKept
  BY <1>2 DEF RowInv
<1>3. ASSUME NEW p \in Procs, Restart(p) PROVE RowInv'
  <2>1. /\ todo' = [todo EXCEPT ![p] = Rows]
        /\ owed' = [owed EXCEPT ![p] = {r \in Rows : row[r] = "pending"}]
        /\ phase' = [phase EXCEPT ![p] = "booting"]
        /\ UNCHANGED <<row, owner, job, run>>
    BY <1>3 DEF Restart, workVars
  <2>2. /\ todo' \in [Procs -> SUBSET Rows] /\ owed' \in [Procs -> SUBSET Rows]
        /\ \A q \in Procs : phase'[q] = "off" => todo'[q] = {}
    BY <2>1 DEF RowInv, ProcInv
  <2>3. \A q \in Procs : phase'[q] = "booting" =>
           \A r \in owed'[q] : row'[r] # "pending" \/ r \notin todo'[q] => r \in job'
    BY <2>1 DEF RowInv, ProcInv
  <2>4. QED
    BY <2>1, <2>2, <2>3 DEF RowInv
<1>4. ASSUME NEW p \in Procs, NEW r \in Rows, Examine(p, r) PROVE RowInv'
  <2>1. UNCHANGED <<phase, run>>
    BY <1>4 DEF Examine
  <2>2. CASE LeftBehind(p, r)
    <3>1. PICK status \in {"pending", "failed"} :
            /\ row' = [row EXCEPT ![r] = status] /\ owner' = [owner EXCEPT ![r] = None]
            /\ todo' = IF status = "pending" THEN todo ELSE [todo EXCEPT ![p] = @ \ {r}]
      BY <2>2 DEF LeftBehind
    <3>2. row[r] = "processing" /\ ~InHand(r) /\ UNCHANGED <<job, owed>>
      BY <2>2 DEF LeftBehind
    <3>3. \A s \in Slots : run[s] # None => run[s].row # r
      BY <3>2 DEF InHand
    <3>4. None \notin Working
      BY DEF Procs
    <3>5. /\ todo' \in [Procs -> SUBSET Rows]
          /\ \A q \in Procs : todo'[q] = todo[q] \/ (q = p /\ todo'[q] = todo[q] \ {r})
      BY <3>1 DEF RowInv
    <3>6. \A q \in Procs : phase'[q] = "off" => todo'[q] = {}
      BY <2>1, <3>5 DEF RowInv
    <3>7. \A q \in Procs : phase'[q] = "booting" =>
             \A x \in owed'[q] : row'[x] # "pending" \/ x \notin todo'[q] => x \in job'
      BY <2>1, <3>1, <3>2, <3>5 DEF RowInv
    <3>8. /\ row' \in [Rows -> {"pending", "processing", "sent", "failed"}]
          /\ owner' \in [Rows -> Working \cup {None}] /\ job' \subseteq Rows
          /\ owed' \in [Procs -> SUBSET Rows]
          /\ \A x \in Rows : row'[x] = "processing" <=> owner'[x] \in Working
      BY <3>1, <3>2, <3>4 DEF RowInv
    <3>9. /\ \A s \in Slots : run'[s] # None => row'[run'[s].row] = "processing"
          /\ \A s, t \in Slots :
                run'[s] # None /\ run'[t] # None /\ run'[s].row = run'[t].row => s = t
      BY <2>1, <3>1, <3>3 DEF RowInv
    <3>10. QED
      BY <3>5, <3>6, <3>7, <3>8, <3>9 DEF RowInv
  <2>3. ASSUME /\ todo' = [todo EXCEPT ![p] = @ \ {r}] /\ UNCHANGED <<row, owner>>
               /\ \/ row[r] = "pending" /\ job' = job \cup {r} /\ UNCHANGED owed
                  \/ owed' = [owed EXCEPT ![p] = @ \ {r}] /\ UNCHANGED job
                  \/ row[r] # "pending" /\ UNCHANGED <<job, owed>>
        PROVE  RowInv'
    <3>1. /\ todo' \in [Procs -> SUBSET Rows] /\ owed' \in [Procs -> SUBSET Rows]
          /\ \A q \in Procs : phase'[q] = "off" => todo'[q] = {}
          /\ job' \subseteq Rows
      BY <2>1, <2>3 DEF RowInv
    <3>2. \A q \in Procs : phase'[q] = "booting" =>
             \A x \in owed'[q] : row'[x] # "pending" \/ x \notin todo'[q] => x \in job'
      BY <2>1, <2>3 DEF RowInv
    <3>3. QED
      BY <2>1, <2>3, <3>1, <3>2 DEF RowInv
  <2>4. QED
    BY <1>4, <2>2, <2>3 DEF Examine
<1>5. ASSUME NEW p \in Procs, Start(p) \/ Signal(p) \/ CloseNext(p) PROVE RowInv'
  <2>1. RowsKept
    BY <1>5 DEF Start, Signal, CloseNext, workVars
  <2>2. TodoKept
    BY <1>5 DEF Start, Signal, CloseNext, ProcInv, RowInv
  <2>3. QED
    BY <1>1, <2>1, <2>2
<1>6. ASSUME NEW p \in Procs, Sweep(p) \/ SweepThrows(p) PROVE RowInv'
  <2>1. RowsKept
    BY <1>6 DEF Sweep, SweepThrows, workVars
  <2>2. phase[p] # "booting"
    BY <1>6, ClosedSoFar DEF Sweep, SweepThrows, ProcInv
  <2>3. phase[p] # "off" \/ todo[p] = {}
    BY DEF RowInv
  <2>4. TodoKept
    BY <1>6, <2>2, <2>3 DEF Sweep, SweepThrows, RowInv
  <2>5. QED
    BY <1>1, <2>1, <2>4
<1>7. ASSUME NEW gone, Die(gone) PROVE RowInv'
  <2>1. RowsKept
    BY <1>7 DEF Die
  <2>2. TodoKept
    BY <1>7 DEF Die, ProcInv, RowInv
  <2>3. QED
    BY <1>1, <2>1, <2>2
<1>8. CASE LauncherStops
  <2>1. RowsKept
    BY <1>8 DEF LauncherStops, workVars
  <2>2. \A p \in Procs : /\ phase'[p] # "booting"
                         /\ phase'[p] = "off" => todo'[p] = {}
    BY <1>8 DEF LauncherStops, Signalled, ProcInv, RowInv
  <2>3. todo' \in [Procs -> SUBSET Rows] /\ owed' \in [Procs -> SUBSET Rows]
    BY <1>8 DEF LauncherStops, RowInv
  <2>4. QED
    BY <1>1, <2>1, <2>2, <2>3
<1>9. CASE RedisLoss
  BY <1>9 DEF RedisLoss, RowInv
<1>10. ASSUME NEW s \in Slots, NEW r \in Rows, Take(s, r) PROVE RowInv'
  <2>1. /\ row' = [row EXCEPT ![r] = "processing"]
        /\ owner' = [owner EXCEPT ![r] = ProcOf[s]]
        /\ run' = [run EXCEPT ![s] = [row |-> r, stage |-> "claimed", with |-> credentials,
                                      over |-> None]]
        /\ row[r] = "pending" /\ r \in job
        /\ UNCHANGED <<phase, todo, owed, job>>
    BY <1>10 DEF Take, procVars
  <2>2. run'[s].row = r /\ \A t \in Slots \ {s} : run'[t] = run[t]
    BY <2>1 DEF RunInv
  <2>3. \A t \in Slots : run[t] # None => run[t].row # r
    BY <2>1 DEF RowInv
  <2>4. \A t \in Slots : run'[t] # None => row'[run'[t].row] = "processing"
    <3> SUFFICES ASSUME NEW t \in Slots, run'[t] # None PROVE row'[run'[t].row] = "processing"
      OBVIOUS
    <3>1. CASE t = s
      BY <2>1, <2>2, <3>1 DEF RowInv
    <3>2. CASE t # s
      BY <2>1, <2>2, <2>3, <3>2 DEF RowInv
    <3>3. QED
      BY <3>1, <3>2
  <2>5. \A t, u \in Slots : run'[t] # None /\ run'[u] # None /\ run'[t].row = run'[u].row => t = u
    BY <2>2, <2>3 DEF RowInv
  <2>6. \A q \in Procs : phase'[q] = "booting" =>
           \A x \in owed'[q] : row'[x] # "pending" \/ x \notin todo'[q] => x \in job'
    BY <2>1 DEF RowInv
  <2>7. QED
    BY <2>1, <2>4, <2>5, <2>6 DEF RowInv
<1>11. ASSUME NEW s \in Slots, GetTransport(s) PROVE RowInv'
  <2>1. PICK id : run' = [run EXCEPT ![s].stage = "queued", ![s].over = id]
    BY <1>11 DEF GetTransport, Reuse, Rebuild
  <2>2. \A t \in Slots : run'[t] # None => run[t] # None /\ run'[t].row = run[t].row
    <3> SUFFICES ASSUME NEW t \in Slots, run'[t] # None
                 PROVE  run[t] # None /\ run'[t].row = run[t].row
      OBVIOUS
    <3>1. CASE t = s
      <4>1. run[s] # None /\ run[s] \in RunType
        BY <1>11 DEF GetTransport, RunInv
      <4>2. run'[s] = [run[s] EXCEPT !.stage = "queued", !.over = id]
        BY <2>1 DEF RunInv
      <4>3. QED
        BY <3>1, <4>1, <4>2 DEF RunType
    <3>2. CASE t # s
      BY <2>1, <3>2 DEF RunInv
    <3>3. QED
      BY <3>1, <3>2
  <2>3. QED
    BY <1>1, <1>2, <1>11, <2>2 DEF GetTransport, procVars
<1>12. ASSUME NEW s \in Slots, NEW status \in {"sent", "pending"},
              run[s] # None, Finish(s, status)
       PROVE  RowInv'
  <2>1. /\ row' = [row EXCEPT ![run[s].row] = status]
        /\ owner' = [owner EXCEPT ![run[s].row] = None]
        /\ run' = [run EXCEPT ![s] = None]
        /\ UNCHANGED <<phase, todo, owed, job>>
    BY <1>12 DEF Finish, procVars
  <2>2. run[s].row \in Rows /\ row[run[s].row] = "processing"
    BY <1>12 DEF RunInv, RowInv, RunType
  <2>3. None \notin Working
    BY DEF Procs
  <2>4. \A t \in Slots : run'[t] # None =>
           run'[t] = run[t] /\ run[t] # None /\ run[t].row # run[s].row
    BY <1>12, <2>1 DEF RunInv, RowInv
  <2>5. \A r \in Rows : row'[r] = "processing" <=> owner'[r] \in Working
    BY <2>1, <2>2, <2>3 DEF RowInv
  <2>6. \A t \in Slots : run'[t] # None => row'[run'[t].row] = "processing"
    BY <2>1, <2>4 DEF RowInv
  <2>7. \A t, u \in Slots : run'[t] # None /\ run'[u] # None /\ run'[t].row = run'[u].row => t = u
    BY <2>4 DEF RowInv
  <2>8. \A q \in Procs : phase'[q] = "booting" =>
           \A x \in owed'[q] : row'[x] # "pending" \/ x \notin todo'[q] => x \in job'
    BY <2>1, <2>2 DEF RowInv
  <2>9. QED
    BY <2>1, <2>5, <2>6, <2>7, <2>8 DEF RowInv
<1>13. CASE Rotate
  BY <1>1, <1>2, <1>13 DEF Rotate, procVars
<1>14. ASSUME NEW w \in Ways, RequestStep(w) PROVE RowInv'
  BY <1>1, <1>2, <1>14 DEF RequestStep, Accept, Lookup, WriteUser, DemoUpsert, Disconnect,
                           Reply, At, procVars, workVars
<1>15. QED
  BY <1>3, <1>4, <1>5, <1>6, <1>7, <1>8, <1>9, <1>10, <1>11, <1>12, <1>13, <1>14
     DEF Next, ProcStep, RunStep, Crash, Exit, Backstop, LauncherKills, Sends, SendFails

LEMMA SignInPreserved == ASSUME ProcInv, SignInInv, Next PROVE SignInInv'
<1> USE LifecycleAssumption
<1> DEFINE Calm == \A p \in Serving : phase[p] \in {"up", "down"} =>
                      phase'[p] \in {"up", "down"} /\ teardown'[p] = teardown[p]
<1>0. Serving \subseteq Procs /\ None \notin Serving
  BY DEF Procs
<1>1. ASSUME UNCHANGED <<account, request>>, Calm PROVE SignInInv'
  BY <1>1 DEF SignInInv, RequestType
<1>2. ASSUME NEW p \in Procs, Restart(p) \/ Start(p) \/ Signal(p) PROVE SignInInv'
  <2>1. Calm
    BY <1>0, <1>2 DEF Restart, Start, Signal, ProcInv
  <2>2. QED
    BY <1>1, <1>2, <2>1 DEF Restart, Start, Signal, httpVars
<1>3. ASSUME NEW p \in Procs, \/ Sweep(p) \/ SweepThrows(p)
                              \/ \E r \in Rows : Examine(p, r)
      PROVE  SignInInv'
  BY <1>1, <1>3 DEF Sweep, SweepThrows, Examine, httpVars
<1>4. ASSUME NEW p \in Procs, CloseNext(p) PROVE SignInInv'
  <2>1. \A w \in Ways : request[w].at = p => ~request[w].connected \/ teardown[p] # 0
    BY <1>4, TeardownSteps DEF CloseNext, MayClose, Connected, RequestsOf
  <2>2. /\ UNCHANGED <<account, request, phase>>
        /\ \A q \in Procs : q # p => teardown'[q] = teardown[q]
    BY <1>4 DEF CloseNext, ProcInv, httpVars
  <2>3. \A w \in Ways : request[w].at # None /\ request[w].connected =>
           teardown'[request[w].at] = 0
    <3> SUFFICES ASSUME NEW w \in Ways, request[w].at # None, request[w].connected
                 PROVE  teardown'[request[w].at] = 0
      OBVIOUS
    <3>1. teardown[request[w].at] = 0 /\ request[w].at \in Procs
      BY <1>0 DEF SignInInv, RequestType
    <3>2. request[w].at # p
      BY <2>1, <3>1
    <3>3. QED
      BY <2>2, <3>1, <3>2
  <2>4. QED
    BY <2>2, <2>3 DEF SignInInv
<1>5. ASSUME NEW gone, Die(gone) PROVE SignInInv'
  <2>1. /\ UNCHANGED account
        /\ request' = [w \in Ways |-> IF request[w].at \in gone THEN Nowhere ELSE request[w]]
    BY <1>5 DEF Die
  <2>2. \A p \in Procs : p \notin gone => phase'[p] = phase[p] /\ teardown'[p] = teardown[p]
    BY <1>5 DEF Die, ProcInv
  <2>3. /\ Nowhere \in RequestType /\ Nowhere.known = FALSE /\ Nowhere.at = None
        /\ Nowhere.stage = "idle" /\ ~Nowhere.connected
    BY DEF Nowhere, RequestType
  <2>4. QED
    BY <1>0, <2>1, <2>2, <2>3 DEF SignInInv, RequestType
<1>6. CASE LauncherStops
  <2>1. Calm
    BY <1>0, <1>6 DEF LauncherStops, Signalled, ProcInv
  <2>2. QED
    BY <1>1, <1>6, <2>1 DEF LauncherStops, httpVars
<1>7. CASE RedisLoss \/ Rotate
  BY <1>1, <1>7 DEF RedisLoss, Rotate, procVars, httpVars
<1>8. ASSUME NEW s \in Slots, RunStep(s) PROVE SignInInv'
  BY <1>1, <1>8 DEF RunStep, Take, GetTransport, Sends, SendFails, Finish, procVars, httpVars
<1>9. ASSUME NEW w \in Ways, NEW p \in Serving, Accept(w, p) PROVE SignInInv'
  <2>1. /\ request' = [request EXCEPT ![w] = [at |-> p, stage |-> "asked", known |-> account,
                                              connected |-> TRUE]]
        /\ phase[p] = "up" /\ UNCHANGED <<account, phase, teardown>>
    BY <1>9 DEF Accept, procVars
  <2>2. teardown[p] = 0
    BY <1>0, <2>1 DEF ProcInv
  <2>3. QED
    BY <2>1, <2>2 DEF SignInInv, RequestType
<1>10. ASSUME NEW w \in Ways, Lookup(w) \/ WriteUser(w) \/ DemoUpsert(w) PROVE SignInInv'
  <2>1. PICK stage \in {"found", "new", "refused", "done"} :
           /\ request' = [request EXCEPT ![w].stage = stage]
           /\ stage \in {"new", "refused"} => ~request[w].known
    BY <1>10 DEF Lookup, WriteUser, DemoUpsert, At, SignInInv
  <2>2. account' \in BOOLEAN /\ (account => account') /\ UNCHANGED <<phase, teardown>>
    BY <1>10 DEF Lookup, WriteUser, DemoUpsert, At, procVars, SignInInv
  <2>3. QED
    BY <2>1, <2>2 DEF SignInInv, RequestType
<1>11. ASSUME NEW w \in Ways, Reply(w) PROVE SignInInv'
  <2>1. request' = [request EXCEPT ![w] = Nowhere] /\ UNCHANGED <<account, phase, teardown>>
    BY <1>11 DEF Reply, procVars
  <2>2. QED
    BY <2>1 DEF SignInInv, RequestType, Nowhere
<1>12. ASSUME NEW w \in Ways, Disconnect(w) PROVE SignInInv'
  <2>1. request' = [request EXCEPT ![w].connected = FALSE]
        /\ UNCHANGED <<account, phase, teardown>>
    BY <1>12 DEF Disconnect, procVars
  <2>2. request' \in [Ways -> RequestType]
    BY <2>1 DEF SignInInv, RequestType
  <2>3. \A v \in Ways : /\ request'[v].at = request[v].at
                       /\ request'[v].stage = request[v].stage
                       /\ request'[v].known = request[v].known
                       /\ request'[v].connected => request[v].connected
    BY <2>1 DEF SignInInv, RequestType
  <2>4. QED
    BY <2>1, <2>2, <2>3 DEF SignInInv
<1>13. ASSUME NEW p \in Procs, Crash(p) \/ Exit(p) \/ Backstop(p) \/ LauncherKills(p)
       PROVE  SignInInv'
  BY <1>5, <1>13 DEF Crash, Exit, Backstop, LauncherKills
<1>14. QED
  BY <1>2, <1>3, <1>4, <1>6, <1>7, <1>8, <1>9, <1>10, <1>11, <1>12, <1>13
     DEF Next, ProcStep, RequestStep

LEMMA Invariance == Spec => []IInv
<1>1. ASSUME IInv, UNCHANGED vars PROVE IInv'
  BY <1>1 DEF IInv, ProcInv, RunInv, RowInv, SignInInv, NoStrayTransport, Cached, vars, procVars,
              workVars, httpVars
<1>2. IInv /\ Next => IInv'
  <2> SUFFICES ASSUME IInv, Next PROVE IInv'
    OBVIOUS
  <2>1. QED
    BY ProcPreserved, RunPreserved, RowPreserved, SignInPreserved DEF IInv
<1>3. IInv /\ [Next]_vars => IInv'
  BY <1>1, <1>2
<1>4. QED
  BY InitInv, <1>3, PTL DEF Spec

------------------------------------------------------------------------------
\* The type invariant: a process that is off holds nothing, and a row is PROCESSING
\* exactly while it has an owner (emailWorker.ts:216).
THEOREM Typing == Spec => []TypeOK
<1>1. IInv => TypeOK
  <2> SUFFICES ASSUME IInv PROVE TypeOK
    OBVIOUS
  <2> USE LifecycleAssumption DEF IInv
  <2>1. ASSUME NEW p \in Procs, phase[p] = "off"
        PROVE  /\ RunsOf(p) = {} /\ RequestsOf(p) = {} /\ todo[p] = {}
               /\ cached[p] = None /\ live[p] = {}
    BY <2>1 DEF RunsOf, RequestsOf, RunInv, NoStrayTransport, Cached, RowInv, SignInInv
  <2>2. QED
    BY <2>1, TeardownSteps DEF TypeOK, ProcInv, Phases, RowInv, SignInInv
<1>2. QED
  BY <1>1, Invariance, PTL

\* The order of the shutdown (shutdown.ts:19): no connection is closed under a run that
\* needs it or a request whose client waits, whatever is signalled, crashes or restarts.
THEOREM ShutdownIsOrdered == Spec => []NothingUnplugged
<1>1. IInv => NothingUnplugged
  <2> SUFFICES ASSUME IInv, NEW p \in Procs
               PROVE  /\ RunsOf(p) # {} => Closed(p) \subseteq {"server"}
                      /\ Connected(p) # {} => Closed(p) = {}
    BY DEF NothingUnplugged
  <2> USE LifecycleAssumption DEF IInv
  <2>1. RunsOf(p) # {} => teardown[p] <= 1
    BY DEF RunsOf, RunInv
  <2>2. Connected(p) # {} => teardown[p] = 0
    BY DEF Connected, RequestsOf, SignInInv
  <2>3. QED
    BY <2>1, <2>2, ClosedSoFar DEF ProcInv
<1>2. QED
  BY <1>1, Invariance, PTL

\* No transport stays open outside the cache, and a run that holds an open one holds one
\* of its own credentials, however many rotations and runs of its process interfere
\* (transport.ts:36).
THEOREM TransportsAreCached == Spec => []NoStrayTransport
<1>1. IInv => NoStrayTransport
  BY DEF IInv, RunInv
<1>2. QED
  BY <1>1, Invariance, PTL

\* The unique index refuses a sign-in only if the person had no row when it came
\* (auth.service.ts:82).
THEOREM RefusalNeedsARace == Spec => []RefusedOnlyInARace
<1>1. IInv => RefusedOnlyInARace
  BY DEF IInv, SignInInv, RefusedOnlyInARace
<1>2. QED
  BY <1>1, Invariance, PTL

\* A process starts its worker only when every row that was pending when it booted, and
\* still is, has a job, or the log says that enqueueing it failed (index.ts:19,
\* reconciler.ts:145), whatever other processes do with the rows meanwhile.
THEOREM BacklogBeforeWork == Spec => BacklogFirst
<1> DEFINE Rebuilt == \A p \in Procs : phase[p] = "booting" /\ phase'[p] = "up" =>
                         \A r \in owed[p] : row[r] = "pending" => r \in job
<1>1. ASSUME IInv, Next PROVE Rebuilt
  <2> SUFFICES ASSUME NEW p \in Procs, phase[p] = "booting", phase'[p] = "up"
               PROVE  todo[p] = {}
    BY <1>1 DEF IInv, RowInv
  <2> USE <1>1, LifecycleAssumption DEF IInv, ProcInv
  <2>1. ASSUME NEW q \in Procs, Start(q) PROVE todo[p] = {}
    BY <2>1 DEF Start
  <2>2. ASSUME NEW q \in Procs, Restart(q) \/ Signal(q) PROVE FALSE
    BY <2>2 DEF Restart, Signal
  <2>3. ASSUME NEW gone, Die(gone) PROVE FALSE
    BY <2>3 DEF Die
  <2>4. CASE LauncherStops
    BY <2>4 DEF LauncherStops, Signalled
  <2>5. CASE UNCHANGED phase
    BY <2>5
  <2>6. ASSUME NEW q \in Procs, \/ CloseNext(q) \/ Sweep(q) \/ SweepThrows(q)
                                \/ \E r \in Rows : Examine(q, r)
        PROVE  UNCHANGED phase
    BY <2>6 DEF CloseNext, Sweep, SweepThrows, Examine
  <2>7. ASSUME NEW s \in Slots, RunStep(s) PROVE UNCHANGED phase
    BY <2>7 DEF RunStep, Take, GetTransport, Sends, SendFails, Finish, procVars
  <2>8. ASSUME NEW w \in Ways, RequestStep(w) PROVE UNCHANGED phase
    BY <2>8 DEF RequestStep, Accept, Lookup, WriteUser, DemoUpsert, Disconnect, Reply, At,
               procVars
  <2>9. QED
    BY <2>1, <2>2, <2>3, <2>4, <2>5, <2>6, <2>7, <2>8
       DEF Next, ProcStep, Crash, Exit, Backstop, LauncherKills, RedisLoss, Rotate, procVars
<1>2. IInv /\ [Next]_vars => [Rebuilt]_vars
  BY <1>1
<1>3. QED
  BY <1>2, Invariance, PTL DEF Spec, BacklogFirst
=============================================================================
