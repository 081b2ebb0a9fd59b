------------------------------- MODULE Console -------------------------------
(***************************************************************************)
(* The dashboard of one browser: the session, the query cache with its     *)
(* polls, invalidations and optimistic stars (apps/web/src/hooks,          *)
(* lib/queryClient.ts, features/emails, features/auth), and the routes     *)
(* behind it (modules/emails, middleware/auth.ts).  Requests and their     *)
(* answers are steps apart; any answer may be lost.                        *)
(***************************************************************************)
EXTENDS Naturals, FiniteSets

CONSTANTS
    Accounts,   \* users that may sign in
    Emails,
    Owner,      \* the user of each email
    Mutations,  \* stars and cancellations
    None,
    MaxSignIns, MaxFetches \* bounds: sessions begun, polls and visits that fetch

Keys == {"list"} \cup Emails \* of the cached queries: the mailbox and the details

Row == [starred : BOOLEAN, status : {"pending", "cancelled"}]
Contents == UNION {[S -> Row] : S \in SUBSET Emails}
Stages == {"sent", "applied", "late", "done"}
Data == [Keys -> Contents \cup {None}] \* what the queries hold, or bring
Mutation == [kind : {"star", "cancel"}, email : Emails, value : BOOLEAN, allowed : BOOLEAN,
             previous : Data \cup {None}, stage : Stages, cleared : BOOLEAN]

ASSUME ConsoleAssumption ==
    /\ Owner \in [Emails -> Accounts]
    /\ {"list", "login"} \cap Emails = {}
    /\ None \notin Accounts \cup Contents /\ None \notin Data /\ None \notin Mutation
    /\ {MaxSignIns, MaxFetches} \subseteq Nat

VARIABLES
    starred, status, \* email_jobs
    cookie,          \* whose session the browser presents
    me, page,        \* the cached ['auth','me']; the key on screen, or "login"
    cache, invalid,  \* data and isInvalidated of the cached queries
    fetch,           \* the answers on their way
    mutation,        \* useStarEmail and useCancelEmail
    signIns, fetches,
    overtaken,       \* history: answers read before something the browser has not heard of
    behind,          \* history: entries such an answer or write has left out of date
    unclean          \* history: a session began over the cache of another

mail    == <<starred, status>>
session == <<cookie, me, page, unclean, signIns>>
queries == <<cache, invalid, fetch, overtaken, behind, fetches>>
vars    == <<mail, session, queries, mutation>>

\* Types; there is a user exactly on the pages behind the layout's guard, and a
\* snapshot is kept exactly until its star is settled.
TypeOK ==
    /\ starred \in [Emails -> BOOLEAN] /\ status \in [Emails -> {"pending", "cancelled"}]
    /\ cookie \in Accounts \cup {None} /\ me \in Accounts \cup {None}
    /\ page \in Keys \cup {"login"} /\ (page = "login" <=> me = None)
    /\ cache \in Data /\ fetch \in Data
    /\ invalid \in [Keys -> BOOLEAN] /\ unclean \in BOOLEAN
    /\ behind \subseteq Keys /\ overtaken \subseteq {k \in Keys : fetch[k] # None}
    /\ mutation \in [Mutations -> Mutation \cup {None}]
    /\ \A m \in Mutations : mutation[m] # None =>
          (mutation[m].previous # None <=> mutation[m].kind = "star"
                                           /\ mutation[m].stage \in {"sent", "applied"})
    /\ signIns \in 0..MaxSignIns /\ fetches \in 0..MaxFetches

Init ==
    /\ starred = [e \in Emails |-> FALSE] /\ status = [e \in Emails |-> "pending"]
    /\ cookie = None /\ me = None /\ page = "login" /\ unclean = FALSE
    /\ cache = [k \in Keys |-> None] /\ invalid = [k \in Keys |-> FALSE]
    /\ fetch = [k \in Keys |-> None] /\ overtaken = {} /\ behind = {}
    /\ mutation = [m \in Mutations |-> None]
    /\ signIns = 0 /\ fetches = 0

------------------------------------------------------------------------------
(* The session *)

\* useGoogleLogin, usePasswordLogin: the response sets the cookie; onSuccess puts the
\* user into the cache beside whatever else is there and opens the mailbox.  The
\* Google button stays live while the form is submitted, so one sign-in may end on
\* top of another.
SignedIn(user) ==
    /\ signIns < MaxSignIns /\ signIns' = signIns + 1
    /\ cookie' = user /\ me' = user /\ page' = "list"
    /\ unclean' = (unclean \/ me \notin {None, user})
    /\ UNCHANGED <<mail, queries, mutation>>

\* Someone with a live cookie who is at /login is taken in.
Resume ==
    /\ page = "login" /\ cookie # None
    /\ me' = cookie /\ page' = "list"
    /\ UNCHANGED <<cookie, unclean, signIns, mail, queries, mutation>>

Expire ==
    /\ cookie # None /\ cookie' = None
    /\ UNCHANGED <<me, page, unclean, signIns, mail, queries, mutation>>

\* me is refetched, the 401 makes it null, and the layout redirects; the cache keeps
\* the mail.  The buggy variant does not redirect.
NoticeExpiryStay ==
    /\ me # None /\ cookie = None
    /\ me' = None /\ unclean' = TRUE
    /\ UNCHANGED <<cookie, page, signIns, mail, queries, mutation>>
NoticeExpiry ==
    /\ me # None /\ cookie = None
    /\ me' = None /\ page' = "login" /\ unclean' = TRUE
    /\ UNCHANGED <<cookie, signIns, mail, queries, mutation>>

\* useLogout clears the cache whether or not the request succeeded; mutations in
\* flight go on, with the snapshots they took.  The buggy variant clears on success.
Leave(ok) ==
    /\ page # "login" /\ page' = "login" /\ me' = None
    /\ cookie' = IF ok THEN None ELSE cookie
    /\ mutation' = [m \in Mutations |-> IF mutation[m] = None THEN None
                                        ELSE [mutation[m] EXCEPT !.cleared = TRUE]]
    /\ UNCHANGED <<signIns, mail, fetches>>
Clear ==
    /\ cache' = [k \in Keys |-> None] /\ invalid' = [k \in Keys |-> FALSE]
    /\ fetch' = [k \in Keys |-> None] /\ overtaken' = {} /\ behind' = {}
    /\ unclean' = FALSE
LogoutClearsIfOk(ok) ==
    /\ Leave(ok)
    /\ IF ok THEN Clear ELSE UNCHANGED <<cache, invalid, fetch, overtaken, behind, unclean>>
Logout(ok) == Leave(ok) /\ Clear

------------------------------------------------------------------------------
(* The cached queries *)

\* listEmails and getEmail, for the user requireAuth has found.
View(k, user) ==
    [e \in {x \in Emails : /\ Owner[x] = user
                           /\ IF k = "list" THEN status[x] = "pending" ELSE x = k}
        |-> [starred |-> starred[e], status |-> status[e]]]

\* What a request for k sent now brings back: nothing (a 401, a 404) or the rows as they
\* are.  The API is taken to read them at once: an answer read later is one asked for
\* later.
Answer(k) == IF cookie = None \/ (k # "list" /\ Owner[k] # cookie) THEN None
             ELSE View(k, cookie)

\* refetchInterval, the refresh button, focus: the key on screen is asked for.
Ask(k) ==
    /\ page = k /\ fetch[k] = None
    /\ fetches < MaxFetches /\ fetches' = fetches + 1
    /\ fetch' = [fetch EXCEPT ![k] = Answer(k)]
    /\ UNCHANGED <<session, mail, cache, invalid, overtaken, behind, mutation>>

\* Another page: its query is asked for when it has no data, was invalidated, or is
\* ten seconds old.
Open(k) ==
    /\ page \notin {"login", k} /\ page' = k
    /\ \/ /\ fetch[k] = None /\ fetch' = [fetch EXCEPT ![k] = Answer(k)]
          /\ fetches < MaxFetches /\ fetches' = fetches + 1
       \/ /\ fetch[k] # None \/ (cache[k] # None /\ ~invalid[k])
          /\ UNCHANGED <<fetch, fetches>>
    /\ UNCHANGED <<cookie, me, unclean, signIns, mail, cache, invalid, overtaken, behind,
                   mutation>>

\* The answer arrives, even at a key that has left the screen or was invalidated since:
\* the entry counts as fresh.
Deliver(k) ==
    /\ fetch[k] # None /\ fetch' = [fetch EXCEPT ![k] = None]
    /\ cache' = [cache EXCEPT ![k] = fetch[k]]
    /\ invalid' = [invalid EXCEPT ![k] = FALSE]
    /\ behind' = IF k \in overtaken THEN behind \cup {k} ELSE behind \ {k}
    /\ overtaken' = overtaken \ {k}
    /\ UNCHANGED <<session, mail, fetches, mutation>>

\* The retries are used up.
FetchFails(k) ==
    /\ fetch[k] # None /\ fetch' = [fetch EXCEPT ![k] = None]
    /\ overtaken' = overtaken \ {k}
    /\ UNCHANGED <<session, mail, cache, invalid, behind, fetches, mutation>>

\* invalidateQueries(emails.all): every entry is stale; the one on screen is fetched
\* anew, but the answer on its way to any other key will still be taken.
InvalidateAll(data) ==
    /\ cache' = data
    /\ invalid' = [k \in Keys |-> data[k] # None]
    /\ fetch' = [k \in Keys |-> IF k = page THEN Answer(k) ELSE fetch[k]]
    /\ overtaken' = {k \in Keys \ {page} : fetch[k] # None}
    /\ UNCHANGED <<behind, fetches>>

\* The API writes something the browser will not hear of.
Outrun ==
    /\ behind' = behind \cup {k \in Keys : cache[k] # None}
    /\ overtaken' = {k \in Keys : fetch[k] # None}

------------------------------------------------------------------------------
(* Mutations *)

\* The request carries the session of the click.
Request(kind, e, value, previous) ==
    [kind |-> kind, email |-> e, value |-> value, allowed |-> cookie = Owner[e],
     previous |-> previous, stage |-> "sent", cleared |-> FALSE]

Shows(e) == page # "login" /\ cache[page] # None /\ e \in DOMAIN cache[page]

\* A click on a star, in a row or the detail: onMutate cancels every fetch, keeps a
\* snapshot, and writes the star into every entry, which makes those fresh.
ClickStar(m, e) ==
    /\ mutation[m] = None
    /\ Shows(e)
    /\ LET value == ~cache[page][e].starred IN
          /\ mutation' = [mutation EXCEPT ![m] = Request("star", e, value, cache)]
          /\ cache' = [k \in Keys |->
                IF cache[k] = None \/ e \notin DOMAIN cache[k] THEN cache[k]
                ELSE [cache[k] EXCEPT ![e].starred = value]]
    /\ invalid' = [k \in Keys |-> invalid[k] /\ cache'[k] = cache[k]]
    /\ fetch' = [k \in Keys |-> None] /\ overtaken' = {}
    /\ UNCHANGED <<session, mail, behind, fetches>>

\* The detail offers it for a pending email, one cancellation at a time.
ClickCancel(m, e) ==
    /\ mutation[m] = None
    /\ page = e /\ Shows(e)
    /\ cache[e][e].status = "pending"
    /\ \A n \in Mutations : mutation[n] # None /\ mutation[n].kind = "cancel" =>
          mutation[n].stage \in {"late", "done"}
    /\ mutation' = [mutation EXCEPT ![m] = Request("cancel", e, TRUE, None)]
    /\ UNCHANGED <<session, mail, queries>>

\* setStarred and cancelEmail, on a row of the user; a request may take effect when
\* the browser has already given it up.
Apply(m) ==
    /\ mutation[m] # None
    /\ mutation[m].stage \in {"sent", "late"} /\ mutation[m].allowed
    /\ LET e == mutation[m].email IN
          IF mutation[m].kind = "star"
          THEN starred' = [starred EXCEPT ![e] = mutation[m].value] /\ UNCHANGED status
          ELSE status' = [status EXCEPT ![e] = "cancelled"] /\ UNCHANGED starred
    /\ IF mutation[m].stage = "late"
       THEN mutation' = [mutation EXCEPT ![m].stage = "done"] /\ Outrun
       ELSE mutation' = [mutation EXCEPT ![m].stage = "applied"] /\ UNCHANGED <<behind, overtaken>>
    /\ UNCHANGED <<session, cache, invalid, fetch, fetches>>

Settled(m, stage) ==
    mutation' = [mutation EXCEPT ![m].stage = stage, ![m].previous = None]

\* Both kinds invalidate on success.
Succeeds(m) ==
    /\ mutation[m] # None
    /\ mutation[m].stage = "applied" /\ Settled(m, "done")
    /\ InvalidateAll(cache)
    /\ UNCHANGED <<session, mail>>

\* The request was refused, or its answer is lost: it may have taken effect, or may yet.
Fails(m, kind) ==
    /\ mutation[m] # None
    /\ mutation[m].kind = kind
    /\ mutation[m].stage \in {"sent", "applied"}
    /\ Settled(m, IF mutation[m].stage = "sent" THEN "late" ELSE "done")

\* onError restores every entry of the snapshot, though the cache may have been
\* cleared since; then onSettled.  The buggy variant has no onSettled.
Restored(m) == [k \in Keys |-> IF mutation[m].previous[k] = None THEN cache[k]
                              ELSE mutation[m].previous[k]]
RollsBack(m) ==
    /\ Fails(m, "star")
    /\ unclean' = (unclean \/ mutation[m].cleared)
    /\ UNCHANGED <<cookie, me, page, signIns, mail>>
StarFailsUnsettled(m) ==
    /\ RollsBack(m)
    /\ cache' = Restored(m)
    /\ invalid' = [k \in Keys |-> invalid[k] /\ cache'[k] = cache[k]]
    /\ UNCHANGED <<fetch, overtaken, behind, fetches>>
StarFails(m) == RollsBack(m) /\ InvalidateAll(Restored(m))

\* useCancelEmail has no onError: what was cancelled unheard of stays on screen.
CancelFails(m) ==
    /\ Fails(m, "cancel")
    /\ IF mutation[m].stage = "applied" THEN Outrun ELSE UNCHANGED <<behind, overtaken>>
    /\ UNCHANGED <<session, mail, cache, invalid, fetch, fetches>>

------------------------------------------------------------------------------
SessionStep ==
    \/ \E user \in Accounts : SignedIn(user)
    \/ Resume \/ Expire \/ NoticeExpiry
    \/ \E ok \in BOOLEAN : Logout(ok)
QueryStep(k) == Ask(k) \/ Open(k) \/ Deliver(k) \/ FetchFails(k)
MutationStep(m) ==
    \/ \E e \in Emails : ClickStar(m, e) \/ ClickCancel(m, e)
    \/ Apply(m) \/ Succeeds(m) \/ StarFails(m) \/ CancelFails(m)

Next == SessionStep \/ (\E k \in Keys : QueryStep(k)) \/ (\E m \in Mutations : MutationStep(m))

Spec == Init /\ [][Next]_vars

------------------------------------------------------------------------------
(* Properties *)

Idle == \A m \in Mutations : mutation[m] = None \/ mutation[m].stage \in {"done", "late"}

\* When no mutation is waited for, an entry that is neither invalidated nor being
\* fetched has the stars of the database and shows no cancelled email as pending,
\* however clicks, polls, failures and rollbacks overlapped (useEmails.ts:87) --
\* except where the API got ahead of the entry: a request took effect after it had
\* failed, or the answer was on its way off screen when the entry was invalidated.
ShownIsStored ==
    Idle => \A k \in Keys \ behind : cache[k] # None /\ ~invalid[k] /\ fetch[k] = None =>
        \A e \in DOMAIN cache[k] :
            /\ cache[k][e].starred = starred[e]
            /\ cache[k][e].status = "pending" => status[e] = "pending"

\* "The cached mailbox of a previous session must not be left" (useAuth.ts:72): the
\* mail in the cache is that of the account on screen, unless the last session ended
\* without a logout, another began on top of it, or the rollback of a star came after
\* the cache was cleared.
NoForeignMail ==
    me # None /\ ~unclean =>
        \A k \in Keys : cache[k] # None => \A e \in DOMAIN cache[k] : Owner[e] = me
=============================================================================
