SPECIFICATION FairSpec
CONSTANTS
    q1 = q1  q2 = q2
    f1 = f1  big = big
    t1 = t1
    None = None
    Lower <- MCLower
    MaxReportedInvalidLines = 1
    Requests = {q1, q2}
    Texts <- MCTexts
    Lists <- MCLists
    Files = {f1, big}
    Large = {big}
    Times = {t1}
    WellFormed = {"ann", "bob"}
    MaxRecipients = 3
    MaxFiles = 1
    MaxEdits = 2
    MaxCrashes = 1
INVARIANTS
    TypeOK
    CampaignAsShown
    CountsAddUp
    DuplicatesExplained
    FilesWhileNeeded
    DatabaseFirst
PROPERTIES
    AlwaysAnswered
CHECK_DEADLOCK FALSE
