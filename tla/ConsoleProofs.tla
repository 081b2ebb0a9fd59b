----------------------------- MODULE ConsoleProofs -----------------------------
(* Proofs about the session, the query cache and the mutations of one browser. *)
EXTENDS Console, TLAPS

\* Contents are functions from some emails to rows.
LEMMA ContentsFacts ==
  ASSUME NEW data
  PROVE  data \in Contents <=>
           \E S \in SUBSET Emails : data \in [S -> Row]
BY DEF Contents

\* What the API answers are rows of the user.
LEMMA AnswerFacts ==
  ASSUME TypeOK, NEW k \in Keys
  PROVE  /\ Answer(k) \in Contents \cup {None}
         /\ Answer(k) # None =>
              /\ cookie # None /\ \A e \in DOMAIN Answer(k) : Owner[e] = cookie
              /\ \A e \in DOMAIN Answer(k) :
                   Answer(k)[e].starred = starred[e] /\ Answer(k)[e].status = status[e]
<1>1. starred \in [Emails -> BOOLEAN] /\ status \in [Emails -> {"pending", "cancelled"}]
  BY DEF TypeOK
<1> DEFINE S == {x \in Emails : /\ Owner[x] = cookie
                                /\ IF k = "list" THEN status[x] = "pending" ELSE x = k}
<1>2. View(k, cookie) = [e \in S |-> [starred |-> starred[e], status |-> status[e]]]
  BY DEF View
<1>3. S \subseteq Emails /\ \A e \in S : Owner[e] = cookie
  OBVIOUS
<1> HIDE DEF S
<1>4. /\ DOMAIN View(k, cookie) = S /\ View(k, cookie) \in [S -> Row]
      /\ \A e \in S : /\ View(k, cookie)[e].starred = starred[e]
                      /\ View(k, cookie)[e].status = status[e]
  BY <1>1, <1>2, <1>3 DEF Row
<1>5. View(k, cookie) \in Contents
  BY <1>3, <1>4 DEF Contents
<1>6. CASE cookie = None \/ (k # "list" /\ Owner[k] # cookie)
  BY <1>6 DEF Answer
<1>7. CASE ~(cookie = None \/ (k # "list" /\ Owner[k] # cookie))
  <2>1. Answer(k) = View(k, cookie) /\ cookie # None
    BY <1>7 DEF Answer
  <2>2. QED
    BY <1>3, <1>4, <1>5, <2>1
<1>8. QED
  BY <1>6, <1>7

\* A click on a star turns one star in every entry that shows the email.
LEMMA StarredFacts ==
  ASSUME NEW data \in Contents, NEW e \in DOMAIN data, NEW value \in BOOLEAN
  PROVE  /\ [data EXCEPT ![e].starred = value] \in Contents
         /\ DOMAIN [data EXCEPT ![e].starred = value] = DOMAIN data
<1>1. PICK S \in SUBSET Emails : data \in [S -> Row]
  BY ContentsFacts
<1>2. data[e] \in Row /\ e \in S /\ DOMAIN data = S
  BY <1>1
<1>3. [data[e] EXCEPT !.starred = value] \in Row
  BY <1>2 DEF Row
<1>4. [data EXCEPT ![e].starred = value] = [data EXCEPT ![e] = [data[e] EXCEPT !.starred = value]]
  BY <1>1, <1>2
<1>5. [data EXCEPT ![e] = [data[e] EXCEPT !.starred = value]] \in [S -> Row]
  BY <1>1, <1>2, <1>3
<1>6. QED
  BY <1>1, <1>2, <1>4, <1>5, ContentsFacts

\* Nothing is cached, on its way or asked for yet.
LEMMA TypedInit == Init => TypeOK
<1>1. 0 \in 0..MaxSignIns /\ 0 \in 0..MaxFetches
  BY ConsoleAssumption
<1>2. QED
  BY <1>1 DEF Init, TypeOK, Data

\* The steps of the session: they leave the mail as it is.
LEMMA SessionFacts ==
  ASSUME TypeOK, SessionStep
  PROVE  /\ UNCHANGED <<mail, fetches>>
         /\ cookie' \in Accounts \cup {None} /\ me' \in Accounts \cup {None}
         /\ page' \in Keys \cup {"login"} /\ (page' = "login" <=> me' = None)
         /\ unclean' \in BOOLEAN /\ signIns' \in 0..MaxSignIns
         /\ \/ UNCHANGED <<queries, mutation>>
            \/ Clear /\ \E ok \in BOOLEAN : Leave(ok)
<1>0. "login" \notin Keys /\ "list" \in Keys /\ None \notin Accounts
  BY ConsoleAssumption DEF Keys
<1>1. ASSUME NEW user \in Accounts, SignedIn(user)
      PROVE  /\ UNCHANGED <<mail, fetches>>
             /\ cookie' \in Accounts \cup {None} /\ me' \in Accounts \cup {None}
             /\ page' \in Keys \cup {"login"} /\ (page' = "login" <=> me' = None)
             /\ unclean' \in BOOLEAN /\ signIns' \in 0..MaxSignIns
             /\ UNCHANGED <<queries, mutation>>
  <2>1. signIns' \in 0..MaxSignIns
    BY <1>1, ConsoleAssumption DEF SignedIn, TypeOK
  <2>2. "list" # "login"
    OBVIOUS
  <2>3. QED
    BY <1>0, <1>1, <2>1, <2>2 DEF SignedIn, TypeOK, queries
<1>2. CASE Resume
  BY <1>0, <1>2 DEF Resume, TypeOK, queries
<1>3. CASE Expire
  BY <1>3 DEF Expire, TypeOK, queries
<1>4. CASE NoticeExpiry
  BY <1>4 DEF NoticeExpiry, TypeOK, queries
<1>5. ASSUME NEW ok \in BOOLEAN, Logout(ok)
      PROVE  /\ UNCHANGED <<mail, fetches>>
             /\ cookie' \in Accounts \cup {None} /\ me' \in Accounts \cup {None}
             /\ page' \in Keys \cup {"login"} /\ (page' = "login" <=> me' = None)
             /\ unclean' \in BOOLEAN /\ signIns' \in 0..MaxSignIns
             /\ Clear /\ Leave(ok)
  BY <1>5 DEF Logout, Leave, Clear, TypeOK
<1>6. QED
  BY <1>1, <1>2, <1>3, <1>4, <1>5 DEF SessionStep

\* A cached query takes one answer at a time; what it asks for are rows as they are.
LEMMA QueryFacts ==
  ASSUME TypeOK, NEW k \in Keys, QueryStep(k)
  PROVE  /\ UNCHANGED <<mail, cookie, me, unclean, signIns, mutation>>
         /\ page' \in Keys \cup {"login"} /\ (page' = "login" <=> me' = None)
         /\ fetches' \in 0..MaxFetches
         /\ \/ /\ UNCHANGED <<cache, invalid, overtaken, behind>>
               /\ fetch[k] = None /\ fetch' = [fetch EXCEPT ![k] = Answer(k)] /\ me # None
            \/ UNCHANGED <<cache, invalid, overtaken, behind, fetch>>
            \/ Deliver(k) \/ FetchFails(k)
<1>0. "login" \notin Keys
  BY ConsoleAssumption DEF Keys
<1>1. CASE Ask(k)
  <2>1. fetches' \in 0..MaxFetches
    BY <1>1, ConsoleAssumption DEF Ask, TypeOK
  <2>2. me # None
    BY <1>0, <1>1 DEF Ask, TypeOK
  <2>3. QED
    BY <1>1, <2>1, <2>2 DEF Ask, TypeOK, session
<1>2. CASE Open(k)
  <2>1. fetches' \in 0..MaxFetches
    BY <1>2, ConsoleAssumption DEF Open, TypeOK
  <2>2. me # None /\ page' = k
    BY <1>2 DEF Open, TypeOK
  <2>3. QED
    BY <1>0, <1>2, <2>1, <2>2 DEF Open
<1>3. CASE Deliver(k) \/ FetchFails(k)
  BY <1>3 DEF Deliver, FetchFails, TypeOK, session
<1>4. QED
  BY <1>1, <1>2, <1>3 DEF QueryStep

\* A settled mutation keeps all but its stage and its snapshot.
LEMMA SettledFacts ==
  ASSUME TypeOK, NEW m \in Mutations, mutation[m] # None, NEW stage \in Stages,
         Settled(m, stage)
  PROVE  /\ mutation' \in [Mutations -> Mutation \cup {None}] /\ mutation'[m] \in Mutation
         /\ mutation'[m].kind = mutation[m].kind /\ mutation'[m].stage = stage
         /\ mutation'[m].previous = None /\ mutation'[m].cleared = mutation[m].cleared
         /\ \A n \in Mutations : n # m => mutation'[n] = mutation[n]
<1>1. /\ mutation \in [Mutations -> Mutation \cup {None}] /\ mutation[m] \in Mutation
  BY DEF TypeOK
<1> DEFINE new == [mutation[m] EXCEPT !.stage = stage, !.previous = None]
<1>2. /\ new \in Mutation /\ new.kind = mutation[m].kind /\ new.stage = stage
      /\ new.previous = None /\ new.cleared = mutation[m].cleared
  BY <1>1 DEF Mutation
<1>3. mutation' = [mutation EXCEPT ![m] = new]
  BY <1>1 DEF Settled
<1> HIDE DEF new
<1>4. QED
  BY <1>1, <1>2, <1>3

\* A click on a star: the star is turned in every entry that shows the email, every fetch
\* is called off, and the snapshot is the cache as it was.
LEMMA StarFacts ==
  ASSUME TypeOK, NEW m \in Mutations, NEW e \in Emails, ClickStar(m, e)
  PROVE  /\ UNCHANGED <<session, mail, behind, fetches>>
         /\ mutation[m] = None /\ mutation' \in [Mutations -> Mutation \cup {None}]
         /\ mutation'[m].kind = "star" /\ mutation'[m].stage = "sent"
         /\ mutation'[m].previous = cache /\ mutation'[m] # None /\ cache # None
         /\ \A n \in Mutations : n # m => mutation'[n] = mutation[n]
         /\ cache' \in Data
         /\ \A k \in Keys : /\ cache'[k] = None <=> cache[k] = None
                            /\ cache[k] # None => DOMAIN cache'[k] = DOMAIN cache[k]
         /\ invalid' \in [Keys -> BOOLEAN]
         /\ fetch' = [k \in Keys |-> None] /\ overtaken' = {}
<1>1. /\ cache \in Data /\ page \in Keys
      /\ mutation \in [Mutations -> Mutation \cup {None}]
      /\ cookie \in Accounts \cup {None} /\ Owner \in [Emails -> Accounts]
      /\ None \notin Contents /\ cache # None /\ invalid \in [Keys -> BOOLEAN]
  <2>1. page \in Keys \cup {"login"} /\ page # "login"
    BY DEF ClickStar, Shows, TypeOK
  <2>2. QED
    BY <2>1, ConsoleAssumption DEF TypeOK
<1> DEFINE value == ~cache[page][e].starred
           request == Request("star", e, value, cache)
           turned(k) == IF cache[k] = None \/ e \notin DOMAIN cache[k] THEN cache[k]
                        ELSE [cache[k] EXCEPT ![e].starred = value]
<1>2. /\ mutation[m] = None
      /\ mutation' = [mutation EXCEPT ![m] = request]
      /\ cache' = [k \in Keys |-> turned(k)]
      /\ invalid' = [k \in Keys |-> invalid[k] /\ cache'[k] = cache[k]]
      /\ fetch' = [k \in Keys |-> None] /\ overtaken' = {}
      /\ UNCHANGED <<session, mail, behind, fetches>>
  BY DEF ClickStar
<1>3. value \in BOOLEAN
  OBVIOUS
<1>4. ASSUME NEW k \in Keys
      PROVE  /\ turned(k) \in Contents \cup {None}
             /\ turned(k) = None <=> cache[k] = None
             /\ cache[k] # None => DOMAIN turned(k) = DOMAIN cache[k]
  <2>1. CASE cache[k] = None \/ e \notin DOMAIN cache[k]
    BY <1>1, <2>1 DEF Data
  <2>2. CASE ~(cache[k] = None \/ e \notin DOMAIN cache[k])
    <3>1. cache[k] \in Contents /\ turned(k) = [cache[k] EXCEPT ![e].starred = value]
      BY <1>1, <2>2 DEF Data
    <3> HIDE DEF value
    <3>2. /\ [cache[k] EXCEPT ![e].starred = value] \in Contents
          /\ DOMAIN [cache[k] EXCEPT ![e].starred = value] = DOMAIN cache[k]
      BY <1>3, <2>2, <3>1, StarredFacts
    <3> HIDE DEF turned
    <3>3. QED
      BY <1>1, <2>2, <3>1, <3>2
  <2>3. QED
    BY <2>1, <2>2
<1> HIDE DEF turned
<1>5. /\ cache' \in Data
      /\ \A k \in Keys : /\ cache'[k] = None <=> cache[k] = None
                         /\ cache[k] # None => DOMAIN cache'[k] = DOMAIN cache[k]
  BY <1>2, <1>4 DEF Data
<1>6. invalid' \in [Keys -> BOOLEAN]
  BY <1>1, <1>2
<1>7. /\ request \in Mutation /\ request.kind = "star" /\ request.stage = "sent"
      /\ request.previous = cache
  <2> HIDE DEF value
  <2>1. QED
    BY <1>1, <1>3 DEF Request, Mutation, Stages
<1> HIDE DEF request
<1>8. /\ mutation' \in [Mutations -> Mutation \cup {None}] /\ mutation'[m] = request
      /\ \A n \in Mutations : n # m => mutation'[n] = mutation[n]
  BY <1>1, <1>2, <1>7
<1>9. \A r \in Mutation : r # None
  BY ConsoleAssumption
<1>10. QED
  BY <1>1, <1>2, <1>5, <1>6, <1>7, <1>8, <1>9

\* An invalidation marks every entry, overtakes every answer on its way off screen, and
\* asks for the entry on screen anew.
LEMMA InvalidateFacts ==
  ASSUME TypeOK, NEW data \in Data, InvalidateAll(data)
  PROVE  /\ cache' = data /\ UNCHANGED <<behind, fetches>>
         /\ invalid' \in [Keys -> BOOLEAN] /\ fetch' \in Data
         /\ overtaken' \subseteq {k \in Keys : fetch'[k] # None}
         /\ \A k \in Keys : data[k] # None => invalid'[k]
         /\ \A k \in Keys : fetch'[k] = IF k = page THEN Answer(k) ELSE fetch[k]
         /\ \A k \in Keys : k # page /\ fetch[k] # None => k \in overtaken'
<1>1. \A k \in Keys : Answer(k) \in Contents \cup {None}
  BY AnswerFacts
<1>2. fetch \in Data
  BY DEF TypeOK
<1>3. /\ cache' = data /\ UNCHANGED <<behind, fetches>>
      /\ invalid' = [k \in Keys |-> data[k] # None]
      /\ fetch' = [k \in Keys |-> IF k = page THEN Answer(k) ELSE fetch[k]]
      /\ overtaken' = {k \in Keys \ {page} : fetch[k] # None}
  BY DEF InvalidateAll
<1>4. fetch' \in Data
  BY <1>1, <1>2, <1>3 DEF Data
<1>5. QED
  BY <1>3, <1>4

\* What is cached after a rollback is the snapshot, and else what was cached.
LEMMA RestoredFacts ==
  ASSUME TypeOK, NEW m \in Mutations, mutation[m] # None, mutation[m].previous # None
  PROVE  /\ mutation[m].previous \in Data /\ Restored(m) \in Data
         /\ \A k \in Keys : Restored(m)[k] \in {mutation[m].previous[k], cache[k]}
<1>1. mutation[m].previous \in Data /\ cache \in Data
  BY DEF TypeOK, Mutation
<1>2. QED
  BY <1>1 DEF Restored, Data

\* The steps of a mutation after the click: it is applied, late perhaps, or settled.
LEMMA MutationFacts ==
  ASSUME TypeOK, NEW m \in Mutations, Apply(m) \/ Succeeds(m) \/ StarFails(m) \/ CancelFails(m)
  PROVE  /\ UNCHANGED <<cookie, me, page, signIns, fetches>> /\ unclean' \in BOOLEAN
         /\ mutation[m] # None /\ mutation[m] \in Mutation
         /\ mutation' \in [Mutations -> Mutation \cup {None}] /\ mutation'[m] \in Mutation
         /\ \A n \in Mutations : n # m => mutation'[n] = mutation[n]
         /\ mutation'[m].kind = mutation[m].kind
         /\ mutation'[m].cleared = mutation[m].cleared
         /\ \/ /\ Apply(m) /\ UNCHANGED unclean
               /\ starred' \in [Emails -> BOOLEAN]
               /\ status' \in [Emails -> {"pending", "cancelled"}]
               /\ UNCHANGED <<cache, invalid, fetch>>
               /\ mutation'[m].previous = mutation[m].previous
               /\ \/ /\ mutation[m].stage = "late" /\ mutation'[m].stage = "done" /\ Outrun
                  \/ /\ mutation[m].stage = "sent" /\ mutation'[m].stage = "applied"
                     /\ UNCHANGED <<behind, overtaken>>
            \/ /\ UNCHANGED mail /\ mutation'[m].previous = None
               /\ \/ /\ Succeeds(m) /\ InvalidateAll(cache) /\ UNCHANGED unclean
                     /\ mutation'[m].stage = "done"
                  \/ /\ StarFails(m) /\ mutation[m].previous # None /\ InvalidateAll(Restored(m))
                     /\ unclean' = (unclean \/ mutation[m].cleared)
                     /\ mutation'[m].stage \in {"late", "done"}
                  \/ /\ CancelFails(m) /\ mutation[m].kind = "cancel"
                     /\ UNCHANGED <<cache, invalid, fetch, unclean>>
                     /\ \/ /\ mutation[m].stage = "applied" /\ mutation'[m].stage = "done"
                           /\ Outrun
                        \/ /\ mutation[m].stage = "sent" /\ mutation'[m].stage = "late"
                           /\ UNCHANGED <<behind, overtaken>>
<1>1. /\ starred \in [Emails -> BOOLEAN] /\ status \in [Emails -> {"pending", "cancelled"}]
      /\ mutation \in [Mutations -> Mutation \cup {None}] /\ unclean \in BOOLEAN
      /\ mutation[m] # None /\ mutation[m] \in Mutation
  BY DEF TypeOK, Apply, Succeeds, StarFails, RollsBack, CancelFails, Fails
<1>2. /\ mutation[m].email \in Emails /\ mutation[m].value \in BOOLEAN
      /\ mutation[m].cleared \in BOOLEAN
  BY <1>1 DEF Mutation
<1>3. CASE Apply(m)
  <2>1. PICK stage \in {"applied", "done"} :
          /\ mutation' = [mutation EXCEPT ![m].stage = stage]
          /\ \/ /\ mutation[m].stage = "late" /\ stage = "done" /\ Outrun
             \/ /\ mutation[m].stage = "sent" /\ stage = "applied"
                /\ UNCHANGED <<behind, overtaken>>
    BY <1>3 DEF Apply
  <2> DEFINE new == [mutation[m] EXCEPT !.stage = stage]
  <2>2. /\ new \in Mutation /\ new.stage = stage /\ new.kind = mutation[m].kind
        /\ new.previous = mutation[m].previous /\ new.cleared = mutation[m].cleared
    BY <1>1 DEF Mutation, Stages
  <2>3. mutation' = [mutation EXCEPT ![m] = new]
    BY <1>1, <2>1
  <2> HIDE DEF new
  <2>4. /\ mutation' \in [Mutations -> Mutation \cup {None}] /\ mutation'[m] = new
        /\ \A n \in Mutations : n # m => mutation'[n] = mutation[n]
    BY <1>1, <2>2, <2>3
  <2>5. /\ starred' \in [Emails -> BOOLEAN] /\ status' \in [Emails -> {"pending", "cancelled"}]
        /\ UNCHANGED <<session, cache, invalid, fetch, fetches>>
    <3>1. /\ \/ starred' = [starred EXCEPT ![mutation[m].email] = mutation[m].value]
             \/ UNCHANGED starred
          /\ \/ status' = [status EXCEPT ![mutation[m].email] = "cancelled"]
             \/ UNCHANGED status
          /\ UNCHANGED <<session, cache, invalid, fetch, fetches>>
      BY <1>3 DEF Apply
    <3>2. QED
      BY <1>1, <1>2, <3>1
  <2>6. QED
    BY <1>1, <1>3, <2>1, <2>2, <2>4, <2>5 DEF session
<1>4. CASE Succeeds(m)
  <2>1. /\ Settled(m, "done") /\ "done" \in Stages /\ InvalidateAll(cache)
        /\ UNCHANGED <<session, mail, fetches>>
    BY <1>4 DEF Succeeds, Stages, InvalidateAll
  <2>2. QED
    BY <1>1, <1>4, <2>1, SettledFacts DEF session
<1>5. CASE StarFails(m)
  <2>1. PICK stage \in {"late", "done"} : Settled(m, stage)
    BY <1>5 DEF StarFails, RollsBack, Fails
  <2>2. /\ stage \in Stages /\ InvalidateAll(Restored(m))
        /\ unclean' = (unclean \/ mutation[m].cleared)
        /\ UNCHANGED <<cookie, me, page, signIns, mail, fetches>>
    BY <1>5, <2>1 DEF StarFails, RollsBack, Stages, InvalidateAll
  <2>3. mutation[m].previous # None
    BY <1>1, <1>5 DEF StarFails, RollsBack, Fails, TypeOK
  <2>4. unclean' \in BOOLEAN
    BY <1>1, <1>2, <2>2
  <2>5. QED
    BY <1>1, <1>5, <2>1, <2>2, <2>3, <2>4, SettledFacts
<1>6. CASE CancelFails(m)
  <2>1. PICK stage \in {"late", "done"} :
          /\ Settled(m, stage)
          /\ \/ /\ mutation[m].stage = "applied" /\ stage = "done" /\ Outrun
             \/ /\ mutation[m].stage = "sent" /\ stage = "late"
                /\ UNCHANGED <<behind, overtaken>>
    BY <1>6 DEF CancelFails, Fails
  <2>2. /\ stage \in Stages /\ mutation[m].kind = "cancel"
        /\ UNCHANGED <<session, mail, cache, invalid, fetch, fetches>>
    BY <1>6, <2>1 DEF CancelFails, Fails, Stages
  <2>3. QED
    BY <1>1, <1>6, <2>1, <2>2, SettledFacts DEF session
<1>7. QED
  BY <1>3, <1>4, <1>5, <1>6

\* A click on Cancel asks for it and touches nothing.
LEMMA CancelFacts ==
  ASSUME TypeOK, NEW m \in Mutations, NEW e \in Emails, ClickCancel(m, e)
  PROVE  /\ UNCHANGED <<session, mail, queries>>
         /\ mutation[m] = None /\ mutation' \in [Mutations -> Mutation \cup {None}]
         /\ mutation'[m].kind = "cancel" /\ mutation'[m].stage = "sent"
         /\ mutation'[m].previous = None
         /\ \A n \in Mutations : n # m => mutation'[n] = mutation[n]
<1> DEFINE request == Request("cancel", e, TRUE, None)
<1>1. /\ mutation[m] = None /\ mutation' = [mutation EXCEPT ![m] = request]
      /\ UNCHANGED <<session, mail, queries>>
  BY DEF ClickCancel
<1>2. /\ request \in Mutation /\ request.kind = "cancel" /\ request.stage = "sent"
      /\ request.previous = None
  BY DEF Request, Mutation, Stages
<1>3. mutation \in [Mutations -> Mutation \cup {None}]
  BY DEF TypeOK
<1> HIDE DEF request
<1>4. QED
  BY <1>1, <1>2, <1>3

\* A logout empties the cache and marks the mutations under way.
LEMMA LogoutFacts ==
  ASSUME TypeOK, NEW ok \in BOOLEAN, Clear, Leave(ok)
  PROVE  /\ ~unclean' /\ me' = None /\ UNCHANGED mail
         /\ cache' = [k \in Keys |-> None] /\ invalid' = [k \in Keys |-> FALSE]
         /\ fetch' = [k \in Keys |-> None] /\ overtaken' = {} /\ behind' = {}
         /\ mutation' \in [Mutations -> Mutation \cup {None}]
         /\ \A m \in Mutations : mutation'[m] # None =>
              /\ mutation[m] # None /\ mutation'[m].cleared
              /\ mutation'[m].kind = mutation[m].kind /\ mutation'[m].stage = mutation[m].stage
              /\ mutation'[m].previous = mutation[m].previous
<1>1. mutation \in [Mutations -> Mutation \cup {None}]
  BY DEF TypeOK
<1>2. mutation' = [m \in Mutations |-> IF mutation[m] = None THEN None
                                       ELSE [mutation[m] EXCEPT !.cleared = TRUE]]
  BY DEF Leave
<1>3. ASSUME NEW m \in Mutations, mutation[m] # None
      PROVE  /\ mutation'[m] \in Mutation /\ mutation'[m].cleared
             /\ mutation'[m].kind = mutation[m].kind /\ mutation'[m].stage = mutation[m].stage
             /\ mutation'[m].previous = mutation[m].previous
  <2>1. mutation[m] \in Mutation
    BY <1>1, <1>3
  <2> DEFINE new == [mutation[m] EXCEPT !.cleared = TRUE]
  <2>2. mutation'[m] = new
    BY <1>2, <1>3
  <2>3. /\ new \in Mutation /\ new.cleared
        /\ new.kind = mutation[m].kind /\ new.stage = mutation[m].stage
        /\ new.previous = mutation[m].previous
    BY <2>1 DEF Mutation
  <2>4. QED
    BY <2>2, <2>3
<1>4. mutation' \in [Mutations -> Mutation \cup {None}]
  <2>1. \A m \in Mutations : mutation'[m] \in Mutation \cup {None}
    BY <1>2, <1>3
  <2>2. mutation' = [m \in Mutations |-> mutation'[m]]
    BY <1>2
  <2>3. QED
    BY <2>1, <2>2
<1>5. \A m \in Mutations : mutation[m] = None => mutation'[m] = None
  BY <1>2
<1>6. QED
  BY <1>3, <1>4, <1>5 DEF Clear, Leave

\* Every step keeps the types.
LEMMA TypedStep == TypeOK /\ [Next]_vars => TypeOK'
<1> SUFFICES ASSUME TypeOK, [Next]_vars PROVE TypeOK'
  OBVIOUS
<1>1. CASE UNCHANGED vars
  BY <1>1 DEF TypeOK, vars, mail, session, queries
<1>2. CASE SessionStep
  <2>1. /\ UNCHANGED <<mail, fetches>>
        /\ cookie' \in Accounts \cup {None} /\ me' \in Accounts \cup {None}
        /\ page' \in Keys \cup {"login"} /\ (page' = "login" <=> me' = None)
        /\ unclean' \in BOOLEAN /\ signIns' \in 0..MaxSignIns
        /\ \/ UNCHANGED <<queries, mutation>>
           \/ Clear /\ \E ok \in BOOLEAN : Leave(ok)
    BY <1>2, SessionFacts
  <2>2. CASE UNCHANGED <<queries, mutation>>
    BY <2>1, <2>2 DEF TypeOK, mail, queries
  <2>3. ASSUME NEW ok \in BOOLEAN, Clear, Leave(ok) PROVE TypeOK'
    <3>1. /\ cache' = [k \in Keys |-> None] /\ invalid' = [k \in Keys |-> FALSE]
          /\ fetch' = [k \in Keys |-> None] /\ overtaken' = {} /\ behind' = {}
          /\ mutation' \in [Mutations -> Mutation \cup {None}]
          /\ \A m \in Mutations : mutation'[m] # None =>
               /\ mutation[m] # None
               /\ mutation'[m].kind = mutation[m].kind
               /\ mutation'[m].stage = mutation[m].stage
               /\ mutation'[m].previous = mutation[m].previous
      BY <2>3, LogoutFacts
    <3>2. cache' \in Data /\ fetch' \in Data /\ invalid' \in [Keys -> BOOLEAN]
      BY <3>1 DEF Data
    <3>3. QED
      BY <2>1, <3>1, <3>2 DEF TypeOK, mail
  <2>4. QED
    BY <2>1, <2>2, <2>3
<1>3. ASSUME NEW k \in Keys, QueryStep(k) PROVE TypeOK'
  <2>1. /\ UNCHANGED <<mail, cookie, me, unclean, signIns, mutation>>
        /\ page' \in Keys \cup {"login"} /\ (page' = "login" <=> me' = None)
        /\ fetches' \in 0..MaxFetches
    BY <1>3, QueryFacts
  <2>2. /\ cache' \in Data /\ fetch' \in Data /\ invalid' \in [Keys -> BOOLEAN]
        /\ behind' \subseteq Keys /\ overtaken' \subseteq {j \in Keys : fetch'[j] # None}
    <3>1. /\ cache \in Data /\ fetch \in Data /\ invalid \in [Keys -> BOOLEAN]
          /\ behind \subseteq Keys /\ overtaken \subseteq {j \in Keys : fetch[j] # None}
      BY DEF TypeOK
    <3>2. CASE /\ UNCHANGED <<cache, invalid, overtaken, behind>>
               /\ fetch[k] = None /\ fetch' = [fetch EXCEPT ![k] = Answer(k)]
      BY <3>1, <3>2, AnswerFacts DEF Data
    <3>3. CASE UNCHANGED <<cache, invalid, overtaken, behind, fetch>>
      BY <3>1, <3>3
    <3>4. CASE Deliver(k)
      BY <3>1, <3>4 DEF Deliver, Data
    <3>5. CASE FetchFails(k)
      BY <3>1, <3>5 DEF FetchFails, Data
    <3>6. QED
      BY <1>3, <3>2, <3>3, <3>4, <3>5, QueryFacts
  <2>3. QED
    BY <2>1, <2>2 DEF TypeOK, mail
<1>4. ASSUME NEW m \in Mutations, NEW e \in Emails, ClickStar(m, e) PROVE TypeOK'
  <2>1. /\ UNCHANGED <<session, mail, behind, fetches>>
        /\ mutation' \in [Mutations -> Mutation \cup {None}]
        /\ mutation'[m].kind = "star" /\ mutation'[m].stage = "sent"
        /\ mutation'[m].previous # None
        /\ \A n \in Mutations : n # m => mutation'[n] = mutation[n]
        /\ cache' \in Data /\ invalid' \in [Keys -> BOOLEAN]
        /\ fetch' = [k \in Keys |-> None] /\ overtaken' = {}
    BY <1>4, StarFacts
  <2>2. fetch' \in Data
    BY <2>1 DEF Data
  <2>3. QED
    BY <2>1, <2>2 DEF TypeOK, mail, session
<1>5. ASSUME NEW m \in Mutations, NEW e \in Emails, ClickCancel(m, e) PROVE TypeOK'
  <2>1. /\ UNCHANGED <<session, mail, queries>>
        /\ mutation' \in [Mutations -> Mutation \cup {None}]
        /\ mutation'[m].kind = "cancel" /\ mutation'[m].previous = None
        /\ \A n \in Mutations : n # m => mutation'[n] = mutation[n]
    BY <1>5, CancelFacts
  <2>2. QED
    BY <2>1 DEF TypeOK, mail, session, queries
<1>6. ASSUME NEW m \in Mutations, Apply(m) \/ Succeeds(m) \/ StarFails(m) \/ CancelFails(m)
      PROVE  TypeOK'
  <2>1. /\ UNCHANGED <<cookie, me, page, signIns, fetches>> /\ unclean' \in BOOLEAN
        /\ mutation' \in [Mutations -> Mutation \cup {None}] /\ mutation[m] # None
        /\ \A n \in Mutations : n # m => mutation'[n] = mutation[n]
        /\ mutation'[m].kind = mutation[m].kind
        /\ starred' \in [Emails -> BOOLEAN] /\ status' \in [Emails -> {"pending", "cancelled"}]
    BY <1>6, MutationFacts DEF TypeOK, mail
  <2>2. mutation'[m] # None =>
          (mutation'[m].previous # None <=> mutation'[m].kind = "star"
                                            /\ mutation'[m].stage \in {"sent", "applied"})
    BY <1>6, <2>1, MutationFacts DEF TypeOK
  <2>3. /\ cache' \in Data /\ fetch' \in Data /\ invalid' \in [Keys -> BOOLEAN]
        /\ behind' \subseteq Keys /\ overtaken' \subseteq {k \in Keys : fetch'[k] # None}
    <3>1. /\ cache \in Data /\ fetch \in Data /\ invalid \in [Keys -> BOOLEAN]
          /\ behind \subseteq Keys /\ overtaken \subseteq {k \in Keys : fetch[k] # None}
      BY DEF TypeOK
    <3>2. ASSUME NEW data \in Data, InvalidateAll(data)
          PROVE  /\ cache' \in Data /\ fetch' \in Data /\ invalid' \in [Keys -> BOOLEAN]
                 /\ behind' \subseteq Keys
                 /\ overtaken' \subseteq {k \in Keys : fetch'[k] # None}
      BY <3>1, <3>2, InvalidateFacts
    <3>3. CASE /\ UNCHANGED <<cache, invalid, fetch>>
               /\ Outrun \/ UNCHANGED <<behind, overtaken>>
      BY <3>1, <3>3 DEF Outrun
    <3>4. mutation[m].previous # None => Restored(m) \in Data
      BY <2>1, RestoredFacts
    <3>5. \/ /\ UNCHANGED <<cache, invalid, fetch>>
             /\ Outrun \/ UNCHANGED <<behind, overtaken>>
          \/ InvalidateAll(cache)
          \/ mutation[m].previous # None /\ InvalidateAll(Restored(m))
      BY <1>6, MutationFacts
    <3>6. QED
      BY <3>1, <3>2, <3>3, <3>4, <3>5
  <2>4. QED
    BY <2>1, <2>2, <2>3 DEF TypeOK
<1>7. QED
  BY <1>1, <1>2, <1>3, <1>4, <1>5, <1>6 DEF Next, MutationStep

\* Every reachable state is well typed: there is a user exactly on the pages behind the
\* layout's guard, a snapshot is kept exactly until its star is settled, and answers that
\* were overtaken are on their way (layout.tsx:23, useEmails.ts:88).
THEOREM ConsoleTyping == Spec => []TypeOK
BY TypedInit, TypedStep, PTL DEF Spec

------------------------------------------------------------------------------
(* Whose mail is in the cache. *)

\* Data that is there is of the account on screen.
Mine(data) == data # None => me # None /\ \A e \in DOMAIN data : Owner[e] = me
\* Unless a session began over the cache of another, whatever is cached, on its way or
\* kept for a rollback since the last logout is of the account on screen, and so is
\* whatever the browser's cookie still brings.
OwnInv ==
    ~unclean =>
        /\ me # None => cookie \in {None, me}
        /\ \A k \in Keys : Mine(cache[k]) /\ Mine(fetch[k])
        /\ \A m \in Mutations :
              mutation[m] # None /\ ~mutation[m].cleared /\ mutation[m].previous # None =>
                  \A k \in Keys : Mine(mutation[m].previous[k])

\* Every step keeps the accounts apart.
LEMMA OwnStep == ASSUME TypeOK, OwnInv, [Next]_vars PROVE OwnInv'
<1>1. CASE UNCHANGED <<session, cache, fetch, mutation>>
  BY <1>1 DEF OwnInv, Mine, session
<1> DEFINE sameSession == me' = me /\ cookie' = cookie /\ (~unclean' => ~unclean)
<1>2. CASE SessionStep
  <2>1. ASSUME NEW ok \in BOOLEAN, Logout(ok) PROVE OwnInv'
    <3>1. Clear /\ Leave(ok)
      BY <2>1 DEF Logout
    <3>2. /\ me' = None
          /\ cache' = [k \in Keys |-> None] /\ fetch' = [k \in Keys |-> None]
          /\ \A m \in Mutations : mutation'[m] # None => mutation'[m].cleared
      BY <3>1, LogoutFacts
    <3>3. QED
      BY <3>2 DEF OwnInv, Mine
  <2>2. CASE NoticeExpiry
    BY <2>2 DEF NoticeExpiry, OwnInv
  <2>3. CASE Expire
    BY <2>3 DEF Expire, OwnInv, Mine, queries
  <2>4. CASE Resume
    <3>1. me = None /\ me' = cookie /\ cookie' = cookie /\ UNCHANGED <<unclean, queries, mutation>>
      BY <2>4 DEF Resume, TypeOK
    <3>2. QED
      BY <3>1 DEF OwnInv, Mine, queries
  <2>5. ASSUME NEW user \in Accounts, SignedIn(user) PROVE OwnInv'
    <3>1. /\ cookie' = user /\ me' = user /\ unclean' = (unclean \/ me \notin {None, user})
          /\ UNCHANGED <<queries, mutation>> /\ user # None
      BY <2>5, ConsoleAssumption DEF SignedIn
    <3>2. QED
      BY <3>1 DEF OwnInv, Mine, queries
  <2>6. QED
    BY <1>2, <2>1, <2>2, <2>3, <2>4, <2>5 DEF SessionStep
<1>3. ASSUME OwnInv, ~unclean, me # None, NEW k \in Keys PROVE Mine(Answer(k))
  BY <1>3, AnswerFacts DEF OwnInv, Mine
<1>4. ASSUME NEW k \in Keys, QueryStep(k) PROVE OwnInv'
  <2>1. UNCHANGED <<cookie, me, unclean, mutation>>
    BY <1>4, QueryFacts
  <2>2. cache \in Data /\ fetch \in Data
    BY DEF TypeOK
  <2>3. ASSUME ~unclean, NEW j \in Keys PROVE Mine(cache'[j]) /\ Mine(fetch'[j])
    <3>1. Mine(cache[j]) /\ Mine(fetch[j]) /\ Mine(cache[k]) /\ Mine(fetch[k]) /\ Mine(None)
      BY <2>3 DEF OwnInv, Mine
    <3>2. CASE UNCHANGED cache /\ fetch' = [fetch EXCEPT ![k] = Answer(k)] /\ me # None
      <4>1. Mine(Answer(k))
        BY <1>3, <2>3, <3>2
      <4>2. QED
        BY <2>2, <3>1, <3>2, <4>1 DEF Data
    <3>3. CASE UNCHANGED <<cache, fetch>>
      BY <3>1, <3>3
    <3>4. CASE Deliver(k) \/ FetchFails(k)
      BY <2>2, <3>1, <3>4 DEF Deliver, FetchFails, Data
    <3>5. QED
      BY <1>4, <3>2, <3>3, <3>4, QueryFacts
  <2>4. QED
    BY <2>1, <2>3 DEF OwnInv, Mine
<1>5. ASSUME NEW m \in Mutations, NEW e \in Emails, ClickStar(m, e) PROVE OwnInv'
  <2>1. /\ UNCHANGED session /\ mutation'[m].previous = cache
        /\ \A n \in Mutations : n # m => mutation'[n] = mutation[n]
        /\ \A k \in Keys : /\ cache'[k] = None <=> cache[k] = None
                           /\ cache[k] # None => DOMAIN cache'[k] = DOMAIN cache[k]
        /\ fetch' = [k \in Keys |-> None]
    BY <1>5, StarFacts
  <2>2. QED
    BY <2>1 DEF OwnInv, Mine, session
<1>6. ASSUME NEW m \in Mutations, NEW e \in Emails, ClickCancel(m, e) PROVE OwnInv'
  <2>1. /\ UNCHANGED <<session, queries>> /\ mutation'[m].previous = None
        /\ \A n \in Mutations : n # m => mutation'[n] = mutation[n]
    BY <1>6, CancelFacts
  <2>2. QED
    BY <2>1 DEF OwnInv, Mine, session, queries
<1>7. ASSUME NEW m \in Mutations, Apply(m) \/ Succeeds(m) \/ StarFails(m) \/ CancelFails(m)
      PROVE  OwnInv'
  <2>1. /\ UNCHANGED <<cookie, me, page>> /\ mutation[m] # None
        /\ \A n \in Mutations : n # m => mutation'[n] = mutation[n]
        /\ mutation'[m].cleared = mutation[m].cleared
        /\ mutation'[m].previous \in {mutation[m].previous, None}
        /\ ~unclean' => ~unclean
    BY <1>7, MutationFacts
  <2>2. ASSUME NEW data \in Data, InvalidateAll(data), ~unclean, \A k \in Keys : Mine(data[k])
        PROVE  \A k \in Keys : Mine(cache'[k]) /\ Mine(fetch'[k])
    <3>1. page \in Keys => me # None
      BY ConsoleAssumption DEF TypeOK, Keys
    <3>2. \A k \in Keys : fetch'[k] = IF k = page THEN Answer(k) ELSE fetch[k]
      BY <2>2, InvalidateFacts
    <3>3. \A k \in Keys : Mine(fetch[k])
      BY <2>2 DEF OwnInv
    <3>4. \A k \in Keys : k = page => Mine(Answer(k))
      BY <1>3, <2>2, <3>1
    <3>5. cache' = data
      BY <2>2, InvalidateFacts
    <3>6. QED
      BY <2>2, <3>2, <3>3, <3>4, <3>5
  <2>3. ASSUME ~unclean' PROVE \A k \in Keys : Mine(cache'[k]) /\ Mine(fetch'[k])
    <3>1. ~unclean /\ \A k \in Keys : Mine(cache[k]) /\ Mine(fetch[k])
      BY <2>1, <2>3 DEF OwnInv
    <3>2. CASE UNCHANGED <<cache, fetch>>
      BY <3>1, <3>2
    <3>3. CASE InvalidateAll(cache)
      BY <2>2, <3>1, <3>3 DEF TypeOK
    <3>4. CASE /\ mutation[m].previous # None /\ InvalidateAll(Restored(m))
               /\ unclean' = (unclean \/ mutation[m].cleared)
      <4>1. ~mutation[m].cleared
        BY <2>3, <3>4
      <4>2. \A k \in Keys : Mine(mutation[m].previous[k])
        BY <2>1, <3>1, <3>4, <4>1 DEF OwnInv
      <4>3. \A k \in Keys : Mine(Restored(m)[k])
        BY <2>1, <3>1, <3>4, <4>2, RestoredFacts
      <4>4. QED
        BY <2>1, <2>2, <3>1, <3>4, <4>3, RestoredFacts
    <3>5. QED
      BY <1>7, <3>2, <3>3, <3>4, MutationFacts
  <2>4. QED
    BY <2>1, <2>3 DEF OwnInv, Mine
<1>8. QED
  BY <1>1, <1>2, <1>4, <1>5, <1>6, <1>7 DEF Next, MutationStep, vars, queries

\* The mail in the cache is that of the account on screen, unless the last session ended
\* without a logout, another began on top of it, or the rollback of a star came after
\* the cache was cleared (useAuth.ts:72).
THEOREM MailIsOwn == Spec => []NoForeignMail
<1>1. Init => OwnInv
  BY DEF Init, OwnInv, Mine
<1>2. OwnInv => NoForeignMail
  BY DEF OwnInv, NoForeignMail, Mine
<1>3. QED
  BY TypedInit, TypedStep, OwnStep, <1>1, <1>2, PTL DEF Spec

------------------------------------------------------------------------------
(* Whether the cache shows what is stored. *)

\* No star is waited for, nor a cancellation the API has carried out.
Quiet ==
    \A m \in Mutations : mutation[m] # None =>
        \/ mutation[m].stage \in {"done", "late"}
        \/ mutation[m].kind = "cancel" /\ mutation[m].stage = "sent"
\* The stars are those of the database, and no cancelled email is shown as pending.
Accurate(data) ==
    \A e \in DOMAIN data :
        /\ data[e].starred = starred[e]
        /\ data[e].status = "pending" => status[e] = "pending"
\* Then what an entry shows and has not been told to doubt is accurate, and so is every
\* answer on its way that nothing has overtaken.
SyncInv ==
    Quiet => \A k \in Keys :
        /\ k \notin behind /\ cache[k] # None /\ ~invalid[k] => Accurate(cache[k])
        /\ k \notin overtaken /\ fetch[k] # None => Accurate(fetch[k])

\* Whatever the API answers is accurate.
LEMMA AnswersAreAccurate ==
  ASSUME TypeOK, NEW k \in Keys, Answer(k) # None PROVE Accurate(Answer(k))
BY AnswerFacts DEF Accurate

\* Every step keeps the entries that nothing has overtaken accurate.
LEMMA SyncStep == ASSUME TypeOK, SyncInv, [Next]_vars PROVE SyncInv'
<1>0. /\ cache \in Data /\ fetch \in Data /\ invalid \in [Keys -> BOOLEAN]
      /\ starred \in [Emails -> BOOLEAN]
  BY DEF TypeOK
<1>1. CASE UNCHANGED <<mail, queries, mutation>>
  BY <1>1 DEF SyncInv, Quiet, Accurate, mail, queries
<1>2. CASE SessionStep
  <2>1. ASSUME NEW ok \in BOOLEAN, Clear, Leave(ok) PROVE SyncInv'
    <3>1. cache' = [k \in Keys |-> None] /\ fetch' = [k \in Keys |-> None]
      BY <2>1, LogoutFacts
    <3>2. QED
      BY <3>1 DEF SyncInv
  <2>2. QED
    BY <1>1, <1>2, <2>1, SessionFacts
<1>3. ASSUME NEW k \in Keys, QueryStep(k) PROVE SyncInv'
  <2>1. UNCHANGED <<starred, status, mutation>>
    BY <1>3, QueryFacts DEF mail
  <2>2. ASSUME Quiet, NEW j \in Keys
        PROVE  /\ j \notin behind' /\ cache'[j] # None /\ ~invalid'[j] => Accurate(cache'[j])
               /\ j \notin overtaken' /\ fetch'[j] # None => Accurate(fetch'[j])
    <3>1. /\ j \notin behind /\ cache[j] # None /\ ~invalid[j] => Accurate(cache[j])
          /\ j \notin overtaken /\ fetch[j] # None => Accurate(fetch[j])
      BY <2>2 DEF SyncInv
    <3>2. CASE /\ UNCHANGED <<cache, invalid, overtaken, behind>>
               /\ fetch' = [fetch EXCEPT ![k] = Answer(k)]
      BY <1>0, <3>1, <3>2, AnswersAreAccurate DEF Data
    <3>3. CASE UNCHANGED <<cache, invalid, overtaken, behind, fetch>>
      BY <3>1, <3>3
    <3>4. CASE Deliver(k)
      <4>1. CASE j = k
        BY <1>0, <3>1, <3>4, <4>1 DEF Deliver, Data
      <4>2. CASE j # k
        BY <1>0, <3>1, <3>4, <4>2 DEF Deliver, Data
      <4>3. QED
        BY <4>1, <4>2
    <3>5. CASE FetchFails(k)
      BY <1>0, <3>1, <3>5 DEF FetchFails, Data
    <3>6. QED
      BY <1>3, <3>2, <3>3, <3>4, <3>5, QueryFacts
  <2>3. QED
    BY <2>1, <2>2 DEF SyncInv, Quiet, Accurate
<1>4. ASSUME NEW m \in Mutations, NEW e \in Emails, ClickStar(m, e) PROVE SyncInv'
  <2>1. mutation'[m] # None /\ mutation'[m].kind = "star" /\ mutation'[m].stage = "sent"
    BY <1>4, StarFacts
  <2>2. ~Quiet'
    BY <2>1 DEF Quiet
  <2>3. QED
    BY <2>2 DEF SyncInv
<1>5. ASSUME NEW m \in Mutations, NEW e \in Emails, ClickCancel(m, e) PROVE SyncInv'
  <2>1. /\ UNCHANGED <<mail, queries>> /\ mutation[m] = None
        /\ \A n \in Mutations : n # m => mutation'[n] = mutation[n]
    BY <1>5, CancelFacts
  <2>2. Quiet' => Quiet
    BY <2>1 DEF Quiet
  <2>3. QED
    BY <2>1, <2>2 DEF SyncInv, Accurate, mail, queries
<1>6. ASSUME NEW m \in Mutations, Apply(m) \/ Succeeds(m) \/ StarFails(m) \/ CancelFails(m)
      PROVE  SyncInv'
  <2>1. /\ mutation[m] # None /\ mutation[m] \in Mutation /\ mutation'[m].kind = mutation[m].kind
        /\ mutation' \in [Mutations -> Mutation \cup {None}]
        /\ \A n \in Mutations : n # m => mutation'[n] = mutation[n]
    BY <1>6, MutationFacts
  <2>2. CASE Outrun /\ UNCHANGED <<cache, invalid, fetch>>
    BY <2>2 DEF Outrun, SyncInv
  <2>3. ASSUME NEW data \in Data, InvalidateAll(data), UNCHANGED mail PROVE SyncInv'
    <3>1. /\ \A k \in Keys : cache'[k] # None => invalid'[k]
          /\ \A k \in Keys : fetch'[k] = IF k = page THEN Answer(k) ELSE fetch[k]
          /\ \A k \in Keys : k # page /\ fetch[k] # None => k \in overtaken'
      BY <2>3, InvalidateFacts
    <3>2. \A k \in Keys : k \notin overtaken' /\ fetch'[k] # None => Accurate(fetch'[k])
      BY <3>1, AnswersAreAccurate
    <3>3. QED
      BY <2>3, <3>1, <3>2 DEF SyncInv, Accurate, mail
  <2>4. CASE /\ Apply(m) /\ mutation[m].stage = "sent" /\ mutation'[m].stage = "applied"
    <3>1. mutation'[m] # None
      BY <1>6, MutationFacts, ConsoleAssumption
    <3>2. ~Quiet'
      BY <2>4, <3>1 DEF Quiet
    <3>3. QED
      BY <3>2 DEF SyncInv
  <2>5. CASE /\ CancelFails(m) /\ mutation[m].kind = "cancel" /\ mutation[m].stage = "sent"
             /\ UNCHANGED <<mail, cache, invalid, fetch, behind, overtaken>>
    <3>1. Quiet' => Quiet
      BY <2>1, <2>5 DEF Quiet
    <3>2. QED
      BY <2>5, <3>1 DEF SyncInv, Accurate, mail
  <2>6. mutation[m].previous # None => Restored(m) \in Data
    BY <2>1, RestoredFacts
  <2>7. QED
    BY <1>0, <1>6, <2>2, <2>3, <2>4, <2>5, <2>6, MutationFacts
<1>7. QED
  BY <1>1, <1>2, <1>3, <1>4, <1>5, <1>6 DEF Next, MutationStep, vars

\* When no mutation is waited for, an entry that is neither invalidated nor being fetched
\* has the stars of the database and shows no cancelled email as pending, except where
\* the API got ahead of it (useEmails.ts:87).
THEOREM CacheIsAccurate == Spec => []ShownIsStored
<1>1. Init => SyncInv
  BY DEF Init, SyncInv
<1>2. SyncInv => ShownIsStored
  BY DEF SyncInv, Quiet, Accurate, ShownIsStored, Idle
<1>3. QED
  BY TypedInit, TypedStep, SyncStep, <1>1, <1>2, PTL DEF Spec

=============================================================================
