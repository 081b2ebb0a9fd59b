------------------------------ MODULE Submission ------------------------------
(***************************************************************************)
(* From the compose form to rows and jobs: what the author types, uploads, *)
(* attaches and schedules in the browser (apps/web/src/features/compose);  *)
(* the multipart request; the route that reads the list, validates and     *)
(* commits (campaigns.routes.ts, scheduleCampaign.ts); and the answer,     *)
(* which may be lost.  A submission that fails may be repeated by hand;    *)
(* the sweep that queues what a dead or failed one left is EmailDelivery's. *)
(***************************************************************************)
EXTENDS Recipients, FiniteSetsExt

CONSTANTS
    Requests,      \* POST /api/campaigns, one per press of Send
    Texts,         \* what may be typed or pasted into the To field
    Lists,         \* the contents of the lead files at hand
    Files,         \* the attachments at hand
    Large,         \* ... of which the size limit admits these not
    Times,         \* what the popover offers as a start
    WellFormed,    \* the addresses zod accepts; the pattern finds others as well
    MaxRecipients, \* MAX_RECIPIENTS_PER_CAMPAIGN
    MaxFiles,      \* attachments per email
    None,
    MaxEdits,      \* bound: the author's edits
    MaxCrashes     \* bound: deaths of the API process

\* The form of a request, as multipart fields and files.
Form == [recipients : Seq(DOMAIN Lower), leads : Lists \cup {None},
         attachments : Seq(Files), startAt : Times \cup {None}]

\* What the transaction stores of it.
Stored == [rows : Seq(DOMAIN Lower), totalRecipients : Nat, attachments : Seq(Files),
           startAt : Times \cup {None}]

\* What parseRecipients makes of each text, in the browser and in the API alike.
Parsed == [t \in Texts \cup Lists |-> parseRecipients(t)]

ASSUME SubmissionAssumption ==
    /\ \A t \in Texts \cup Lists : Readable(t) /\ Parsed[t] # None
    /\ None \notin Lists \cup Files \cup Times \cup Requests /\ None \notin Form \cup Stored
    /\ None \notin {"created", "error"}
    /\ "leads" \notin Files /\ Large \subseteq Files
    /\ {MaxRecipients, MaxFiles, MaxEdits, MaxCrashes} \subseteq Nat

VARIABLES
    typed, attachments, startAt,      \* ComposeForm
    reading, leadFile, leadParsed,    \* UploadList
    popover, draft,                   \* SendLaterPopover
    phase, inFlight,                  \* useCreateCampaign: the mutation
    edits,
    payload, shown,                   \* per request: the form; what the screen said
    stage,                            \* of the request in the API
    answer, told,                     \* the response; what the author learnt
    eager,                            \* presses of Send after a success
    disk, campaign, jobs, crashes,    \* upload directory, Postgres, Redis, faults
    warned                            \* requests whose list could not be removed: a log line

formVars   == <<typed, attachments, startAt>>
listVars   == <<reading, leadFile, leadParsed>>
popVars    == <<popover, draft>>
clientVars == <<formVars, listVars, popVars, phase, inFlight, edits, payload, shown,
                told, eager>>
apiVars    == <<stage, answer, disk, campaign, jobs, crashes, warned>>
vars       == <<clientVars, apiVars>>

Active == {"sent", "received", "parsed", "valid", "committed", "queued"}

\* Every variable has its type; the list on screen is the parse of the file that
\* will be sent, and the form waits exactly for the request in flight
\* (onFile and onParsed are called together, UploadList.tsx:58).
TypeOK ==
    /\ attachments \in Seq(Files) /\ startAt \in Times \cup {None}
    /\ {reading, leadFile} \subseteq Lists \cup {None}
    /\ IF leadFile = None THEN leadParsed = None
       ELSE leadParsed = Parsed[leadFile]
    /\ popover \in BOOLEAN /\ draft \in Times \cup {None}
    /\ phase \in {"editing", "pending", "scheduled", "left"}
    /\ inFlight \in Requests \cup {None}
    /\ phase = "pending" <=> inFlight # None
    /\ edits \in 0..MaxEdits /\ crashes \in 0..MaxCrashes /\ eager \in Nat
    /\ \A q \in Requests : payload[q] = None <=> stage[q] = "unsent"
    /\ stage \in [Requests -> Active \cup {"unsent", "answered", "dead"}]
    /\ told \in [Requests -> {None, "created", "error"}]
    /\ disk \subseteq Requests \X (Files \cup {"leads"}) /\ warned \subseteq Requests

Init ==
    /\ typed = <<>> /\ attachments = <<>> /\ startAt = None
    /\ reading = None /\ leadFile = None /\ leadParsed = None
    /\ popover = FALSE /\ draft = None
    /\ phase = "editing" /\ inFlight = None /\ edits = 0
    /\ payload = [q \in Requests |-> None] /\ shown = [q \in Requests |-> None]
    /\ stage = [q \in Requests |-> "unsent"]
    /\ answer = [q \in Requests |-> None] /\ told = [q \in Requests |-> None]
    /\ eager = 0
    /\ disk = {} /\ campaign = [q \in Requests |-> None] /\ jobs = {} /\ crashes = 0
    /\ warned = {}

------------------------------------------------------------------------------
(* The form.  It stays editable while a request is in flight. *)

Edit ==
    /\ phase # "left" /\ edits < MaxEdits
    /\ edits' = edits + 1
    /\ UNCHANGED <<phase, inFlight, payload, shown, told, eager, apiVars>>

\* RecipientChips.commit, from a key, a paste or a blur.
AddChips(text) ==
    LET emails == Parsed[text].emails
        added  == Kept(emails, {i \in DOMAIN emails : emails[i] \notin ToSet(typed)})
    IN
    /\ Edit
    /\ added # <<>>
    /\ typed' = typed \o added
    /\ UNCHANGED <<attachments, startAt, listVars, popVars>>

\* Backspace in the empty field, or the cross of a chip.
RemoveChip(i) ==
    /\ Edit
    /\ typed' = RemoveAt(typed, i)
    /\ UNCHANGED <<attachments, startAt, listVars, popVars>>

\* UploadList.accept: the dropzone is there while no list is chosen, and disabled
\* while one is read; closing it does not stop the read.
PickList(list) ==
    /\ Edit
    /\ leadFile = None /\ reading = None
    /\ reading' = list
    /\ UNCHANGED <<formVars, leadFile, leadParsed, popVars>>

NoEdit == UNCHANGED <<formVars, popVars, phase, inFlight, edits, payload, shown, told,
                      eager, apiVars>>

\* file.text() resolves: a list without addresses is refused, any other one is
\* adopted with its parse.  The buggy variant keeps the file it refuses.
ListReadKeepsFile ==
    /\ reading # None
    /\ leadFile' = reading /\ reading' = None
    /\ leadParsed' = IF Parsed[reading].emails = <<>> THEN None
                     ELSE Parsed[reading]
    /\ NoEdit
ListRead ==
    /\ reading # None /\ reading' = None
    /\ IF Parsed[reading].emails = <<>>
       THEN leadFile' = None /\ leadParsed' = None
       ELSE leadFile' = reading /\ leadParsed' = Parsed[reading]
    /\ NoEdit

ListUnreadable ==
    /\ reading # None /\ reading' = None
    /\ UNCHANGED <<leadFile, leadParsed>>
    /\ NoEdit

RemoveList ==
    /\ Edit
    /\ leadFile # None
    /\ leadFile' = None /\ leadParsed' = None
    /\ UNCHANGED <<formVars, reading, popVars>>

\* AttachmentBar.add: nothing when there is no room or one file is too large, else
\* as many as there is room for.
Attach(picked) ==
    LET room == MaxFiles - Len(attachments) IN
    /\ Edit
    /\ room > 0 /\ ToSet(picked) \cap Large = {}
    /\ attachments' = attachments \o SubSeq(picked, 1, IF Len(picked) < room THEN Len(picked) ELSE room)
    /\ UNCHANGED <<typed, startAt, listVars, popVars>>

Detach(i) ==
    /\ Edit
    /\ attachments' = RemoveAt(attachments, i)
    /\ UNCHANGED <<typed, startAt, listVars, popVars>>

\* SendLaterPopover: opening copies the value, only Done and Send immediately
\* write it back; Cancel, Escape and a click outside close.
OpenPopover ==
    /\ Edit
    /\ ~popover /\ popover' = TRUE
    /\ draft' = startAt
    /\ UNCHANGED <<formVars, listVars>>

InPopover ==
    /\ phase # "left" /\ popover
    /\ UNCHANGED <<typed, attachments, listVars, phase, inFlight, edits, payload, shown, told,
                   eager, apiVars>>
PickTime(t) == InPopover /\ draft' = t /\ UNCHANGED <<popover, startAt>>
ClosePopover(written) ==
    /\ InPopover
    /\ popover' = FALSE /\ draft' = None /\ startAt' = written
Dismiss == ClosePopover(startAt)
Done == draft # None /\ ClosePopover(draft)
SendImmediately == startAt # None /\ ClosePopover(None)

\* The number on screen is the size of this set (totalRecipients).
Detected ==
    ToSet(typed) \cup IF leadParsed = None THEN {} ELSE ToSet(leadParsed.emails)

\* onSubmit: refused while nobody is addressed, and while the button is disabled.
\* After a success it is enabled again until the router has left the page.  The
\* buggy variant does not look at isPending.
CanSendAlways == Detected # {} /\ phase # "left"
CanSend == Detected # {} /\ phase \in {"editing", "scheduled"}
Submit(q) ==
    /\ CanSend /\ payload[q] = None
    /\ payload' = [payload EXCEPT ![q] = [recipients |-> typed, leads |-> leadFile,
                       attachments |-> attachments, startAt |-> startAt]]
    /\ shown' = [shown EXCEPT ![q] = [recipients |-> Detected, startAt |-> startAt]]
    /\ stage' = [stage EXCEPT ![q] = "sent"]
    /\ phase' = "pending" /\ inFlight' = q
    /\ eager' = IF phase = "scheduled" THEN eager + 1 ELSE eager
    /\ UNCHANGED <<formVars, listVars, popVars, edits, told, answer, disk, campaign, jobs,
                   crashes, warned>>

\* The response arrives: mutateAsync resolves or throws an ApiRequestError.
Settle(q, outcome) ==
    /\ inFlight = q /\ inFlight' = None
    /\ told' = [told EXCEPT ![q] = outcome]
    /\ phase' = IF outcome = "created" THEN "scheduled" ELSE "editing"
    /\ UNCHANGED <<formVars, listVars, popVars, edits, payload, shown, eager, apiVars>>

\* The buggy variant does not reject on an error status.
AnsweredIfCreated(q) ==
    /\ stage[q] = "answered" /\ answer[q] # None
    /\ Settle(q, "created")
Answered(q) ==
    /\ stage[q] = "answered"
    /\ Settle(q, IF answer[q] = None THEN "error" ELSE "created")

\* NETWORK_ERROR: the connection breaks at any time, whatever the API still does.
NetworkError(q) == Settle(q, "error")

\* router.push('/scheduled') has loaded the other page.
Navigate ==
    /\ phase = "scheduled" /\ phase' = "left"
    /\ UNCHANGED <<formVars, listVars, popVars, inFlight, edits, payload, shown, told, eager,
                   apiVars>>

------------------------------------------------------------------------------
(* POST /api/campaigns *)

Advance(q, from, to) == stage[q] = from /\ stage' = [stage EXCEPT ![q] = to]

\* Whatever throws reaches errorHandler, which answers, without a report.
Fail(q, from) == Advance(q, from, "answered")

\* composeUpload stores the lead list and the attachments on disk.
Upload(q) ==
    /\ Advance(q, "sent", "received")
    /\ disk' = disk \cup {<<q, f>> : f \in ToSet(payload[q].attachments) \cup
                                    IF payload[q].leads = None THEN {} ELSE {"leads"}}
    /\ UNCHANGED <<clientVars, answer, campaign, jobs, crashes, warned>>

\* campaignLimiter, requireAuth or multer refuse; multer removes what it stored.
Refuse(q) ==
    /\ Fail(q, "sent")
    /\ UNCHANGED <<clientVars, answer, disk, campaign, jobs, crashes, warned>>

\* readFile, parseRecipients, and unlink in the finally block, whether or not the
\* list could be read; an unlink that fails leaves it, with a warning in the log.
\* The buggy variant unlinks after a successful parse only.
Unlink(q) ==
    \/ disk' = disk \ {<<q, "leads">>} /\ UNCHANGED warned
    \/ payload[q].leads # None /\ warned' = warned \cup {q} /\ UNCHANGED disk
ReadLeadsOrKeep(q) ==
    /\ \/ Advance(q, "received", "parsed") /\ Unlink(q)
       \/ Fail(q, "received") /\ payload[q].leads # None /\ UNCHANGED <<disk, warned>>
    /\ UNCHANGED <<clientVars, answer, campaign, jobs, crashes>>
ReadLeads(q) ==
    /\ \/ Advance(q, "received", "parsed")
       \/ Fail(q, "received") /\ payload[q].leads # None
    /\ Unlink(q)
    /\ UNCHANGED <<clientVars, answer, campaign, jobs, crashes>>

\* The lists the route builds from its two sources.
FromFile(q) == IF payload[q].leads = None
               THEN [emails |-> <<>>, totalFound |-> 0, duplicatesRemoved |-> 0, invalidLines |-> 0]
               ELSE Parsed[payload[q].leads]
Merged(q) == mergeRecipients(payload[q].recipients, FromFile(q).emails)

\* createCampaignSchema and the checks of scheduleCampaign; one address zod does
\* not accept fails the whole request.  Either may also refuse another field, a
\* disabled sender or an empty body.
Acceptable(q) ==
    /\ ToSet(Merged(q).emails) \subseteq WellFormed
    /\ Len(Merged(q).emails) \in 1..MaxRecipients
Validate(q) ==
    /\ \/ Advance(q, "parsed", "valid") /\ Acceptable(q)
       \/ Fail(q, "parsed")
    /\ UNCHANGED <<clientVars, answer, disk, campaign, jobs, crashes, warned>>

\* The transaction: the campaign, its attachments and one row per recipient, by
\* seq; skipDuplicates drops what @@unique([campaignId, toEmail]) has already.  A
\* start in the past means now.
Commit(q) ==
    \/ /\ Advance(q, "valid", "committed")
       /\ \E overdue \in BOOLEAN :
             campaign' = [campaign EXCEPT ![q] =
                 [rows |-> Distinct(Merged(q).emails),
                  totalRecipients |-> Len(Merged(q).emails),
                  attachments |-> payload[q].attachments,
                  startAt |-> IF overdue THEN None ELSE payload[q].startAt]]
       /\ UNCHANGED <<clientVars, answer, disk, jobs, crashes, warned>>
    \/ /\ Fail(q, "valid")
       /\ UNCHANGED <<clientVars, answer, disk, campaign, jobs, crashes, warned>>

JobsOf(q) == IF campaign[q] = None THEN {} ELSE {<<q, e>> : e \in ToSet(campaign[q].rows)}

\* findMany and enqueueEmailJobs: chunk after chunk, in the order of seq; what throws
\* on the way fails the request although its rows are committed, and some, or all, of
\* its jobs are there.  The buggy variant goes on after a chunk that failed.
Queued(q, n) == jobs' = jobs \cup {<<q, campaign[q].rows[i]>> : i \in 1..n}
EnqueueSwallows(q) ==
    /\ Advance(q, "committed", "queued")
    /\ \E n \in 0..Len(campaign[q].rows) : Queued(q, n)
    /\ UNCHANGED <<clientVars, answer, disk, campaign, crashes, warned>>
Enqueue(q) ==
    /\ stage[q] = "committed"
    /\ \E n \in 0..Len(campaign[q].rows) :
          /\ Queued(q, n)
          /\ \/ UNCHANGED stage
             \/ Fail(q, "committed")
             \/ n = Len(campaign[q].rows) /\ Advance(q, "committed", "queued")
    /\ UNCHANGED <<clientVars, answer, disk, campaign, crashes, warned>>

\* The 201, or a failure of the lookup of the sender it shows.  The buggy variant
\* reports the duplicates of the merge only.
RespondMergedOnly(q) ==
    /\ \/ /\ Advance(q, "queued", "answered")
          /\ answer' = [answer EXCEPT ![q] =
                [recipientsAccepted |-> Len(Merged(q).emails),
                 duplicatesRemoved  |-> Merged(q).duplicatesRemoved]]
       \/ Fail(q, "queued") /\ UNCHANGED answer
    /\ UNCHANGED <<clientVars, disk, campaign, jobs, crashes, warned>>
Respond(q) ==
    /\ \/ /\ Advance(q, "queued", "answered")
          /\ answer' = [answer EXCEPT ![q] =
                [recipientsAccepted |-> Len(Merged(q).emails),
                 duplicatesRemoved  |-> FromFile(q).duplicatesRemoved + Merged(q).duplicatesRemoved]]
       \/ Fail(q, "queued") /\ UNCHANGED answer
    /\ UNCHANGED <<clientVars, disk, campaign, jobs, crashes, warned>>

\* The API process dies with its requests, and is restarted.
ApiCrash ==
    /\ crashes < MaxCrashes /\ crashes' = crashes + 1
    /\ stage' = [q \in Requests |-> IF stage[q] \in Active THEN "dead" ELSE stage[q]]
    /\ UNCHANGED <<clientVars, answer, disk, campaign, jobs, warned>>

------------------------------------------------------------------------------
EditStep ==
    \/ \E t \in Texts : AddChips(t)
    \/ \E i \in DOMAIN typed : RemoveChip(i)
    \/ \E l \in Lists : PickList(l)
    \/ RemoveList
    \/ \E f \in Files : Attach(<<f>>)
    \/ Attach(SetToSeq(Files))
    \/ \E i \in DOMAIN attachments : Detach(i)
    \/ OpenPopover \/ Dismiss \/ Done \/ SendImmediately
    \/ \E t \in Times : PickTime(t)

RequestStep(q) ==
    Upload(q) \/ Refuse(q) \/ ReadLeads(q) \/ Validate(q) \/ Commit(q) \/ Enqueue(q) \/ Respond(q)

Next ==
    \/ EditStep \/ ListRead \/ ListUnreadable
    \/ \E q \in Requests : Submit(q) \/ Answered(q) \/ NetworkError(q) \/ RequestStep(q)
    \/ Navigate \/ ApiCrash

Spec == Init /\ [][Next]_vars

\* A request the API has accepted runs on; an answer, or the breakdown of its
\* connection, reaches the browser.
FairSpec ==
    /\ Spec
    /\ \A q \in Requests : WF_vars(RequestStep(q)) /\ WF_vars(Answered(q) \/ (stage[q] = "dead" /\ NetworkError(q)))

------------------------------------------------------------------------------
(* Properties *)

\* "the number the user was shown is the number that actually gets scheduled"
\* (parse-recipients.ts:6): a campaign's rows are the addresses that were on screen
\* when Send was pressed, each once, and its start the one on the chip, or now.
\* totalRecipients counts the rows, although skipDuplicates could drop some.
CampaignAsShown ==
    \A q \in Requests : campaign[q] # None =>
        /\ ToSet(campaign[q].rows) = shown[q].recipients
        /\ campaign[q].totalRecipients = Len(campaign[q].rows)
        /\ campaign[q].startAt \in {shown[q].startAt, None}

\* Nothing typed or uploaded goes missing from the report: what was accepted and
\* what was dropped as duplicate add up to all that was found
\* (campaigns.routes.ts:57, "or the UI under-reports what it dropped").
CountsAddUp ==
    \A q \in Requests : answer[q] # None =>
        answer[q].recipientsAccepted + answer[q].duplicatesRemoved
            = Len(payload[q].recipients) + FromFile(q).totalFound

\* One press of Send, one campaign: a second one needs an author who was told of a
\* failure after the first was committed, or who pressed again before the page was
\* left (Button.tsx:60, scheduleCampaign.ts:103).
DuplicatesExplained ==
    LET campaigns == {q \in Requests : campaign[q] # None} IN
    Cardinality(campaigns) <=
        1 + eager + Cardinality({q \in campaigns : told[q] = "error"})

\* No copy of a lead list outlives its parse, unless the process dies in between or
\* the log says that it could not be removed (upload.ts:14, campaigns.routes.ts:71),
\* and every attachment a campaign refers to is there whenever a worker comes for it
\* (upload.ts:11).
FilesWhileNeeded ==
    /\ \A q \in Requests : <<q, "leads">> \in disk =>
          stage[q] \in {"received", "dead"} \/ q \in warned
    /\ \A q \in Requests : campaign[q] # None =>
          \A f \in ToSet(campaign[q].attachments) : <<q, f>> \in disk

\* "The database is written first, and only then is Redis told" (scheduleCampaign.ts:43),
\* whatever fails or dies on the way: every job has its row, and a 201 says that
\* every row of the campaign has its job.
DatabaseFirst ==
    /\ \A j \in jobs : campaign[j[1]] # None /\ j[2] \in ToSet(campaign[j[1]].rows)
    /\ \A q \in Requests : answer[q] # None => campaign[q] # None /\ JobsOf(q) \subseteq jobs

\* The form never hangs: every press of Send ends in a success or an error
\* (errorHandler.ts:103, "hangs the request until it times out").
AlwaysAnswered == phase = "pending" ~> phase # "pending"
=============================================================================
