\* The bounds of each part are in MCRecords, beside its instance.  A behaviour
\* ends when its requests, runs or days are used up.
CONSTANTS
    Callers = {r, s}
    NoUser = NoUser
    NoName = NoName
SPECIFICATION RecordsSpec
INVARIANT RecordsTypeOK
PROPERTY CopiesStayApart
PROPERTY OnlyOvertakenJobsLose
PROPERTY LinksRespectWhatIsThere
PROPERTY ReviewsTouchTheirOwn
INVARIANT UsageIsNeverOverstated
INVARIANT UsersFollowTheirAccounts
INVARIANT LostRacesBecomeUpdates
PROPERTY EditsReplaceWhatWasSeen
PROPERTY WritesKeepTheList
PROPERTY FundingStaysInBounds
PROPERTY LotsAreKept
INVARIANT LivePricesSettle
INVARIANT NewestBackupsAreKept
PROPERTY AccountsAgree
PROPERTY FilesMeanWhatTheyShow
PROPERTY SuggestionsHoldTogether
PROPERTY EveryAmountHasARate
INVARIANT EveryDollarOnce
PROPERTY TaxesFollowTheTrades
SYMMETRY Swaps
CHECK_DEADLOCK FALSE
