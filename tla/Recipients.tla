------------------------------ MODULE Recipients ------------------------------
(***************************************************************************)
(* Lead lists, as the browser and the API read them                        *)
(* (packages/shared/src/parse-recipients.ts).  A text is the sequence of   *)
(* its lines that are not blank; of a line only the addresses the pattern  *)
(* finds in it, as they are spelled, and whether it looks like a header    *)
(* matter.                                                                 *)
(***************************************************************************)
EXTENDS Naturals, FiniteSets, SequencesExt

CONSTANTS
    Lower,                  \* toLowerCase, on the spellings of an instance
    MaxReportedInvalidLines \* MAX_REPORTED_INVALID_LINES

ASSUME RecipientsAssumption ==
    /\ \A a \in DOMAIN Lower : Lower[a] \in DOMAIN Lower /\ Lower[Lower[a]] = Lower[a]
    /\ MaxReportedInvalidLines \in Nat

\* A text that may be typed or uploaded.
Readable(lines) == lines \in Seq([found : Seq(DOMAIN Lower), header : BOOLEAN])

\* The elements of s at the positions in I, in order: what filter keeps.
Kept(s, I) ==
    LET kept[n \in 0..Len(s)] ==
            IF n = 0 THEN <<>>
            ELSE IF n \in I THEN Append(kept[n - 1], s[n]) ELSE kept[n - 1]
    IN kept[Len(s)]

\* The members of s in first-seen order: the `seen` set of both functions.
Distinct(s) == Kept(s, {i \in DOMAIN s : \A j \in 1..i - 1 : s[j] # s[i]})
Normalised(s) == [i \in DOMAIN s |-> Lower[s[i]]]

\* Addresses count before de-duplication; the first line may be a header.
parseRecipients(lines) ==
    LET found  == FlattenSeq([i \in DOMAIN lines |-> lines[i].found])
        emails == Distinct(Normalised(found))
        unread == {i \in DOMAIN lines :
                      lines[i].found = <<>> /\ ~(i = 1 /\ lines[i].header)}
    IN [emails            |-> emails,
        totalFound        |-> Len(found),
        duplicatesRemoved |-> Len(found) - Len(emails),
        invalidLines      |-> IF Cardinality(unread) > MaxReportedInvalidLines
                              THEN MaxReportedInvalidLines ELSE Cardinality(unread)]

\* The buggy variant only removes the duplicates within each source.
MergeEachAlone(typed, listed) ==
    LET all == Normalised(typed \o listed)
        kept == Distinct(Normalised(typed)) \o Distinct(Normalised(listed))
    IN [emails |-> kept, duplicatesRemoved |-> Len(all) - Len(kept)]
mergeRecipients(typed, listed) ==
    LET all == Normalised(typed \o listed) IN
    [emails |-> Distinct(all), duplicatesRemoved |-> Len(all) - Len(Distinct(all))]
=============================================================================
