---------------------------- MODULE Records_proofs ----------------------------
(***************************************************************************)
(* Proofs about MCRecords.  A behaviour of it that plays a part's scene is *)
(* a behaviour of the part with the scene's constants, so what the part's  *)
(* own module of proofs shows for every value of its constants holds in    *)
(* it.  One step per part: its parameters, its start, its steps.           *)
(***************************************************************************)
EXTENDS MCRecords, TLAPS

\* A scene starts as its part does, does what its part does, and stays.
LEMMA ScenesPlayTheirParts ==
  /\ RecordsInit => /\ scene = "users" => Users!Init
                    /\ scene = "keys" => Keys!Init
                    /\ scene = "usage" => Usage!Init
                    /\ scene = "versions" => Versions!Init
                    /\ scene = "dumps" => Dumps!Init
                    /\ scene = "market" => Market!Init
                    /\ scene = "automations" => Automations!Init
                    /\ scene = "reviews" => Reviews!Init
                    /\ scene = "accounts" => Ledgers!Init
                    /\ scene = "pairs" => Pairs!Init
                    /\ scene = "statements" => Statements!Init
                    /\ scene = "rates" => Rates!Init
                    /\ scene = "cash" => Idle!Init
                    /\ scene = "funding" => Funding!Init
  /\ [RecordsNext]_vars => /\ UNCHANGED scene
                           /\ scene = "users" => [Users!Next]_(Users!vars)
                           /\ scene = "keys" => [Keys!Next]_(Keys!vars)
                           /\ scene = "usage" => [Usage!Next]_(Usage!vars)
                           /\ scene = "versions" => [Versions!Next]_(Versions!vars)
                           /\ scene = "dumps" => [Dumps!Next]_(Dumps!vars)
                           /\ scene = "market" => [Market!Next]_(Market!vars)
                           /\ scene = "automations" => [Automations!Next]_(Automations!vars)
                           /\ scene = "reviews" => [Reviews!Next]_(Reviews!vars)
                           /\ scene = "accounts" => [Ledgers!Next]_(Ledgers!vars)
                           /\ scene = "pairs" => [Pairs!Next]_(Pairs!vars)
                           /\ scene = "statements" => [Statements!Next]_(Statements!vars)
                           /\ scene = "rates" => [Rates!Next]_(Rates!vars)
                           /\ scene = "cash" => [Idle!Next]_(Idle!vars)
                           /\ scene = "funding" => [Funding!Next]_(Funding!vars)
BY DEF RecordsInit, RecordsNext, Idles, vars, Users!vars, Keys!vars, Usage!vars, Versions!vars, Dumps!vars,
       Market!vars, Market!fileVars, Automations!vars, Reviews!vars, Reviews!rowVars,
       Ledgers!vars, Ledgers!rowVars,
       Pairs!vars,
       Statements!vars, Statements!ledgerVars,
       Rates!vars, Rates!fileVars,
       Idle!vars,
       Funding!vars

-----------------------------------------------------------------------------
(* The parts, each with the constants and the variables of its scene.      *)

Parts == INSTANCE Parts_proofs WITH
    Providers <- Models, Callers <- Callers, MaxCalls <- 2, MaxPeriod <- 2,
    secured <- v1, period <- v2, usage <- v3, caller <- v4, made <- v5,
    Clients <- Callers, Priorities <- TheFirstTwo, MaxVersion <- 3, Nobody <- "nobody",
    row <- v1, seen <- v2, patch <- v3, holder <- v4, reposted <- v5,
    Jobs <- Callers, MaxJobs <- 4, Retention <- 1, PageSize <- 2,
    stored <- v1, clock <- v2, scratch <- v3, job <- v4, jobs <- v5, uploads <- v6, remote <- v7,
    LastDay <- 3, Holidays <- TheFirst, Buffer <- 2, VersionsKept <- 1, Runs <- Callers, MaxRuns <- 3,
    today <- v1, closed <- v2, file <- v3, readable <- v4, backups <- v5, taken <- v6, run <- v7,
    started <- v8, clean <- v9, disturbed <- v10,
    Additions <- TwoNames, Withdrawals <- Draw, Requests <- Callers, MaxWrites <- 4,
    rules <- v1, minted <- v2, call <- v3, writes <- v4,
    Postings <- OnePosting, Categories <- TwoNames, NoCategory <- "none", MaxReviews <- 4,
    enforced <- v1, rule <- v2, override <- v3, suggestion <- v4, request <- v5, reviews <- v6, before <- v7,
    Ids <- ThreeNames, Initial <- TwoNames, Terms <- Currencies, Moves <- BothWays, Days <- TheFirstTwo,
    MaxRequests <- 3,
    account <- v1, opening <- v2, posted <- v3, transfer <- v4, asked <- v5, served <- v6, raced <- v7,
    LastTransaction <- 3, Account <- OnAccounts, Amount <- OnAccounts, Rules <- EachWay, KnownRules <- TheFirst,
    Importable <- TheFirstTwo, MaxEdits <- 2,
    ledger <- v1, ruleState <- v2, links <- v3, splits <- v4, merges <- v5, pairing <- v6, edits <- v7,
    Received <- Uploads, Prints <- Fingerprints, BankAccounts <- WithImporter, Manual <- TypedIn, MaxUploads <- 2,
    MaxLinks <- 1, archive <- v1, accounts <- v2, imported <- v3, transfers <- v4, importing <- v5, rebuilding <- v6,
    Money <- Foreign, Base <- "usd", LastRateDay <- 6, Fixings <- Fixed, Rate <- Rate, History <- 2, Window <- 2,
    MaxFetches <- 2, Inquirers <- OnePosting, Needs <- Needs,
    date <- v1, published <- v2, cache <- v3, legible <- v4, copied <- v5, fetching <- v6, fetches <- v7,
    inquiry <- v8,
    Accounts <- TheAccount, Threads <- Callers, Webhook <- "hook", NoUser <- NoUser, MaxAttempts <- 2,
    clerk <- v1, users <- v2, identity <- v3, worker <- v4, attempts <- v5, events <- v6, ended <- v7,
    Sessions <- Sessions, Batches <- Batches, Attempts <- 4, NoSession <- "nobody",
    table <- v1, merge <- v2, outcome <- v3

-----------------------------------------------------------------------------
(* Provisioning.                                                           *)

LEMMA UsersParameters == Parts!UserParameters
BY NoUserAssumption
DEF Parts!UserParameters, Parts!Users!Users, Parts!Users!Workers, Users!Users, Users!Workers

LEMMA UsersStart == Users!Init => Parts!Users!IInv
<1>1. Users!Init => Parts!Users!Init
  BY DEF Users!Init, Parts!Users!Init, Parts!Users!Users, Users!Users, Parts!Users!Workers, Users!Workers,
         Parts!Users!AtRest, Users!AtRest
<1> QED BY <1>1, UsersParameters, Parts!UserInitInv

LEMMA UsersSteps == Parts!Users!IInv /\ [Users!Next]_(Users!vars) => Parts!Users!IInv'
<1>1. Users!Next => Parts!Users!Next
  BY DEF Users!Next, Users!SignUp, Users!Remove, Users!Created, Users!Deleted, Users!Confirm, Users!ConfirmFails,
         Users!SignIn, Users!Provision, Users!Link, Users!Commit, Users!Break, Users!Deactivate, Users!Held, Users!Go,
         Users!Workers, Users!AtRest, Users!Answered, Users!Working,
         Parts!Users!Next, Parts!Users!SignUp, Parts!Users!Remove, Parts!Users!Created, Parts!Users!Deleted,
         Parts!Users!Confirm, Parts!Users!ConfirmFails, Parts!Users!SignIn, Parts!Users!Provision, Parts!Users!Link,
         Parts!Users!Commit, Parts!Users!Break, Parts!Users!Deactivate, Parts!Users!Held, Parts!Users!Go,
         Parts!Users!Workers, Parts!Users!AtRest, Parts!Users!Answered, Parts!Users!Working
<1> QED BY <1>1, UsersParameters, Parts!UserStepInv DEF Parts!Users!vars, Users!vars

LEMMA UsersEnd == Parts!Users!IInv => Users!OneUserPerAccount /\ Users!DeletionIsFinal
<1>1. Parts!Users!IInv => Parts!Users!OneUserPerAccount /\ Parts!Users!DeletionIsFinal
  BY UsersParameters, Parts!UserEndedAreFinal DEF Parts!Users!IInv
<1> QED BY <1>1 DEF Users!OneUserPerAccount, Users!DeletionIsFinal, Users!Users, Users!Workers,
                    Parts!Users!OneUserPerAccount, Parts!Users!DeletionIsFinal, Parts!Users!Users, Parts!Users!Workers

\* Sign-ins and webhooks, in whatever order: an account has one user, every user its
\* account, and the deletion of an account that has a user is final.
THEOREM UsersFollowTheirAccountsHolds == RecordsSpec => []UsersFollowTheirAccounts
<1> DEFINE Inv == scene = "users" => Parts!Users!IInv
<1>1. RecordsInit => Inv BY ScenesPlayTheirParts, UsersStart
<1>2. Inv /\ [RecordsNext]_vars => Inv' BY ScenesPlayTheirParts, UsersSteps
<1>3. Inv => UsersFollowTheirAccounts BY UsersEnd DEF UsersFollowTheirAccounts
<1> QED BY <1>1, <1>2, <1>3, PTL DEF RecordsSpec

-----------------------------------------------------------------------------
(* Natural keys.                                                           *)

LEMMA KeysParameters == Parts!KeyParameters
<1>1. Parts!IsFiniteSet(Sessions) /\ Parts!Cardinality(Sessions) <= 4
  <2>1. Parts!IsFiniteSet({"s1"}) /\ Parts!Cardinality({"s1"}) = 1 BY Parts!FS_Singleton
  <2>2. Parts!IsFiniteSet({"s1", "s2"}) /\ Parts!Cardinality({"s1", "s2"}) \in 1..2
    <3>1. {"s1", "s2"} = {"s1"} \cup {"s2"} OBVIOUS
    <3> QED BY <2>1, <3>1, Parts!FS_AddElement
  <2>3. Sessions = {"s1", "s2"} \cup {"s3"} BY DEF Sessions
  <2>4. /\ Parts!IsFiniteSet({"s1", "s2"} \cup {"s3"})
        /\ Parts!Cardinality({"s1", "s2"} \cup {"s3"}) \in 1..3
    BY <2>2, Parts!FS_AddElement
  <2> QED BY <2>3, <2>4
<1>2. \A b \in Batches : b \in Seq(Parts!Keys!Keys)
  <2>1. "k1" \in Parts!Keys!Keys /\ "k2" \in Parts!Keys!Keys
    <3> DEFINE first == <<"k1", "k2">>
    <3>1. first \in Batches /\ DOMAIN first = 1..2 /\ first[1] = "k1" /\ first[2] = "k2" BY DEF Batches
    <3> HIDE DEF first
    <3> QED BY <3>1 DEF Parts!Keys!Keys
  <2>2. <<"k1", "k2">> \in Seq(Parts!Keys!Keys) /\ <<"k2", "k1">> \in Seq(Parts!Keys!Keys)
        /\ <<"k2">> \in Seq(Parts!Keys!Keys)
    BY <2>1
  <2> QED BY <2>2 DEF Batches
<1>3. "nobody" \notin Sessions /\ Sessions # {} BY DEF Sessions
<1> QED BY <1>1, <1>2, <1>3 DEF Parts!KeyParameters

LEMMA KeysStart == Keys!Init => Parts!Keys!IInv
<1>1. Keys!Init => Parts!Keys!Init
  BY DEF Keys!Init, Parts!Keys!Init, Keys!Keys, Parts!Keys!Keys, Keys!NoMerge, Parts!Keys!NoMerge
<1> QED BY <1>1, KeysParameters, Parts!KeyInitInv

LEMMA KeysSteps == Parts!Keys!IInv /\ [Keys!Next]_(Keys!vars) => Parts!Keys!IInv'
<1>1. Keys!Next => Parts!Keys!Next
  BY DEF Keys!Next, Keys!Lookup, Keys!FlushRow, Keys!Conflict, Keys!Violation, Keys!Commit, Keys!Victim, Keys!End,
         Keys!Retry, Keys!Resolve, Keys!BatchKeys, Keys!Keys, Keys!Key, Keys!Waits, Keys!NoMerge,
         Parts!Keys!Next, Parts!Keys!Lookup, Parts!Keys!FlushRow, Parts!Keys!Conflict, Parts!Keys!Violation,
         Parts!Keys!Commit, Parts!Keys!Victim, Parts!Keys!End, Parts!Keys!Retry, Parts!Keys!Resolve,
         Parts!Keys!BatchKeys, Parts!Keys!Keys, Parts!Keys!Key, Parts!Keys!Waits, Parts!Keys!NoMerge
<1> QED BY <1>1, KeysParameters, Parts!KeyStepInv DEF Parts!Keys!vars, Keys!vars

\* Three transactions that merge overlapping batches: none is refused by a race, and
\* none commits part of what its caller did.
THEOREM LostRacesBecomeUpdatesHolds == RecordsSpec => []LostRacesBecomeUpdates
<1> DEFINE Inv == scene = "keys" => Parts!Keys!IInv
<1>1. RecordsInit => Inv BY ScenesPlayTheirParts, KeysStart
<1>2. Inv /\ [RecordsNext]_vars => Inv' BY ScenesPlayTheirParts, KeysSteps
<1>3. Inv => LostRacesBecomeUpdates
  BY DEF LostRacesBecomeUpdates, Keys!LostRacesBecomeUpdates, Parts!Keys!IInv, Parts!Keys!LostRacesBecomeUpdates
<1> QED BY <1>1, <1>2, <1>3, PTL DEF RecordsSpec

-----------------------------------------------------------------------------
(* The counters of the providers, the versions of a row, the backups, the  *)
(* cached prices, the automation rules of goals, what is said of postings, *)
(* the accounts.                                                           *)

LEMMA UsageStart == Usage!Init => Parts!Usage!IInv
<1>1. Usage!Init => Parts!Usage!Init
  BY DEF Usage!Init, Usage!Names, Usage!NotCalling, Parts!Usage!Init, Parts!Usage!Names, Parts!Usage!NotCalling
<1>2. Parts!ProvidersAreListed BY DEF Parts!ProvidersAreListed, Models
<1> QED BY <1>1, <1>2, Parts!UsageInitInv

LEMMA UsageSteps == Parts!Usage!IInv /\ [Usage!Next]_(Usage!vars) => Parts!Usage!IInv'
<1>1. Usage!Next => Parts!Usage!Next
  BY DEF Usage!Next, Usage!Begin, Usage!Called, Usage!Record, Usage!NewPeriod, Usage!Names, Usage!NotCalling,
         Usage!Calling, Usage!LoadUsage, Usage!Fresh, Usage!Recorded,
         Parts!Usage!Next, Parts!Usage!Begin, Parts!Usage!Called, Parts!Usage!Record, Parts!Usage!NewPeriod,
         Parts!Usage!Names, Parts!Usage!NotCalling, Parts!Usage!Calling, Parts!Usage!LoadUsage, Parts!Usage!Fresh,
         Parts!Usage!Recorded
<1>2. Parts!ProvidersAreListed BY DEF Parts!ProvidersAreListed, Models
<1> QED BY <1>1, <1>2, Parts!UsageStepInv DEF Parts!Usage!vars, Usage!vars

\* The usage a request for it shows is never more than was used.
THEOREM UsageIsNeverOverstatedHolds == RecordsSpec => []UsageIsNeverOverstated
<1> DEFINE Inv == scene = "usage" => Parts!Usage!IInv
<1>1. RecordsInit => Inv BY ScenesPlayTheirParts, UsageStart
<1>2. Inv /\ [RecordsNext]_vars => Inv' BY ScenesPlayTheirParts, UsageSteps
<1>3. Inv => UsageIsNeverOverstated
  BY Parts!UsageIsHonest
  DEF UsageIsNeverOverstated, Usage!UsageIsNeverOverstated, Usage!LoadUsage, Usage!Fresh, Usage!Names,
      Parts!Usage!UsageIsNeverOverstated, Parts!Usage!LoadUsage, Parts!Usage!Fresh, Parts!Usage!Names
<1> QED BY <1>1, <1>2, <1>3, PTL DEF RecordsSpec

LEMMA NobodyEdits == Parts!NobodyIsNoClient
BY NobodyAssumption DEF Parts!NobodyIsNoClient, TheFirstTwo

LEMMA VersionsStart == Versions!Init => Parts!Versions!IInv
<1>1. Versions!Init => Parts!Versions!Init
  BY DEF Versions!Init, Versions!Gone, Versions!NoPatch, Parts!Versions!Init, Parts!Versions!Gone,
         Parts!Versions!NoPatch
<1> QED BY <1>1, NobodyEdits, Parts!VersionsInitInv

LEMMA VersionsSteps == Parts!Versions!IInv /\ [Versions!Next]_(Versions!vars) => Parts!Versions!IInv'
<1>1. Versions!Next => Parts!Versions!Next
  BY DEF Versions!Next, Versions!Read, Versions!Send, Versions!CheckAndBump, Versions!CommitPatch, Versions!Rollback,
         Versions!Post, Versions!Upsert, Versions!Delete, Versions!Matches, Versions!Gone, Versions!NoPatch,
         Versions!Bodies,
         Parts!Versions!Next, Parts!Versions!Read, Parts!Versions!Send, Parts!Versions!CheckAndBump,
         Parts!Versions!CommitPatch, Parts!Versions!Rollback, Parts!Versions!Post, Parts!Versions!Upsert,
         Parts!Versions!Delete, Parts!Versions!Matches, Parts!Versions!Gone, Parts!Versions!NoPatch,
         Parts!Versions!Bodies
<1> QED BY <1>1, NobodyEdits, Parts!VersionsStepInv DEF Parts!Versions!vars, Versions!vars

\* An edit that names a version replaces the very row its client read, unless the rule was
\* posted again in between.
THEOREM EditsReplaceWhatWasSeenHolds == RecordsSpec => EditsReplaceWhatWasSeen
<1> DEFINE Inv == scene = "versions" => Parts!Versions!IInv
           Edits == scene = "versions" => Versions!EditsReplaceWhatWasSeen
<1>1. RecordsInit => Inv BY ScenesPlayTheirParts, VersionsStart
<1>2. Inv /\ [RecordsNext]_vars => Inv' BY ScenesPlayTheirParts, VersionsSteps
<1>3. Inv => Edits
  BY NobodyEdits, Parts!EditsFindWhatWasSeen
  DEF Versions!EditsReplaceWhatWasSeen, Versions!CommitPatch, Versions!NoPatch, Versions!Gone,
      Parts!Versions!EditsReplaceWhatWasSeen, Parts!Versions!CommitPatch, Parts!Versions!NoPatch, Parts!Versions!Gone
<1>4. Inv /\ [RecordsNext]_vars => [Edits]_vars BY <1>3
<1> HIDE DEF Inv, Edits
<1>5. RecordsSpec => [][Edits]_vars BY <1>1, <1>2, <1>4, PTL DEF RecordsSpec
<1> QED BY <1>5 DEF EditsReplaceWhatWasSeen, Edits

LEMMA DumpsStart == Dumps!Init => Parts!Dumps!IInv
<1>1. Dumps!Init => Parts!Dumps!Init BY DEF Dumps!Init, Dumps!NoJob, Parts!Dumps!Init, Parts!Dumps!NoJob
<1>2. Parts!RetentionIsCounted BY DEF Parts!RetentionIsCounted
<1> QED BY <1>1, <1>2, Parts!DumpsInitInv

LEMMA DumpsSteps == Parts!Dumps!IInv /\ [Dumps!Next]_(Dumps!vars) => Parts!Dumps!IInv'
<1>1. Dumps!Next => Parts!Dumps!Next
  <2>1. ASSUME NEW j \in Callers
        PROVE  /\ Dumps!PutObject(j) => Parts!Dumps!PutObject(j)
               /\ Dumps!BeginWrite(j) => Parts!Dumps!BeginWrite(j)
               /\ Dumps!EndWrite(j) => Parts!Dumps!EndWrite(j)
               /\ Dumps!Name(j) => Parts!Dumps!Name(j)
    BY DEF Dumps!PutObject, Dumps!BeginWrite, Dumps!EndWrite, Dumps!Name, Dumps!Put, Dumps!Content, Dumps!Step,
           Parts!Dumps!PutObject, Parts!Dumps!BeginWrite, Parts!Dumps!EndWrite, Parts!Dumps!Name, Parts!Dumps!Put,
           Parts!Dumps!Content, Parts!Dumps!Step
  <2>2. ASSUME NEW j \in Callers PROVE Dumps!List(j) => Parts!Dumps!List(j)
    <3>1. Dumps!Doomed = Parts!Dumps!Doomed
      BY DEF Dumps!Doomed, Dumps!Page, Dumps!Newest, Dumps!Cardinality, Parts!Dumps!Doomed, Parts!Dumps!Page,
             Parts!Dumps!Newest, Parts!Dumps!Cardinality
    <3> QED BY <3>1 DEF Dumps!List, Parts!Dumps!List
  <2> QED
    BY <2>1, <2>2
    DEF Dumps!Next, Dumps!Dump, Dumps!CreateScratch, Dumps!Restore, Dumps!DropScratch, Dumps!DeleteOne, Dumps!Finish,
        Dumps!Crash, Dumps!Step, Dumps!NoJob,
        Parts!Dumps!Next, Parts!Dumps!Dump, Parts!Dumps!CreateScratch, Parts!Dumps!Restore, Parts!Dumps!DropScratch,
        Parts!Dumps!DeleteOne, Parts!Dumps!Finish, Parts!Dumps!Crash, Parts!Dumps!Step, Parts!Dumps!NoJob
<1>2. Parts!RetentionIsCounted BY DEF Parts!RetentionIsCounted
<1> QED BY <1>1, <1>2, Parts!DumpsStepInv DEF Parts!Dumps!vars, Dumps!vars

\* Wherever jobs end, the newest backups are kept, no dump that failed to restore is stored,
\* and what is in the bucket is whole.
THEOREM NewestBackupsAreKeptHolds == RecordsSpec => []NewestBackupsAreKept
<1> DEFINE Inv == scene = "dumps" => Parts!Dumps!IInv
<1>1. RecordsInit => Inv BY ScenesPlayTheirParts, DumpsStart
<1>2. Inv /\ [RecordsNext]_vars => Inv' BY ScenesPlayTheirParts, DumpsSteps
<1>3. Inv => NewestBackupsAreKept
  BY DEF NewestBackupsAreKept, Dumps!NewestBackupsAreKept, Dumps!Newest, Dumps!Cardinality,
         Parts!Dumps!IInv, Parts!Dumps!NewestBackupsAreKept, Parts!Dumps!Newest, Parts!Dumps!Cardinality
<1> QED BY <1>1, <1>2, <1>3, PTL DEF RecordsSpec


LEMMA MarketStart == Market!Init => Parts!Market!IInv
<1>1. Market!Init => Parts!Market!Init
  BY DEF Market!Init, Market!Idle, Market!Empty, Market!Days, Parts!Market!Init, Parts!Market!Idle,
         Parts!Market!Empty, Parts!Market!Days
<1>2. Parts!DaysAreCounted BY DEF Parts!DaysAreCounted
<1> QED BY <1>1, <1>2, Parts!MarketInitInv

LEMMA MarketSteps == Parts!Market!IInv /\ [Market!Next]_(Market!vars) => Parts!Market!IInv'
<1>1. Market!Next => Parts!Market!Next
  BY DEF Market!Next, Market!Refresh, Market!Write, Market!Backup, Market!Abort, Market!Close, Market!NextDay,
         Market!Corrupt, Market!SettledIn, Market!Missing, Market!Merged, Market!Newest, Market!Offered,
         Market!Cached, Market!Days, Market!Idle, Market!Empty, Market!fileVars, Parts!Market!Next,
         Parts!Market!Refresh, Parts!Market!Write, Parts!Market!Backup, Parts!Market!Abort, Parts!Market!Close,
         Parts!Market!NextDay, Parts!Market!Corrupt, Parts!Market!SettledIn, Parts!Market!Missing,
         Parts!Market!Merged, Parts!Market!Newest, Parts!Market!Offered, Parts!Market!Cached, Parts!Market!Days,
         Parts!Market!Idle, Parts!Market!Empty, Parts!Market!fileVars
<1>2. Parts!DaysAreCounted BY DEF Parts!DaysAreCounted
<1> QED BY <1>1, <1>2, Parts!MarketStepInv DEF Parts!Market!vars, Parts!Market!fileVars, Market!vars, Market!fileVars

\* A price that was still moving when it was cached is settled by a later run.
THEOREM LivePricesSettleHolds == RecordsSpec => []LivePricesSettle
<1> DEFINE Inv == scene = "market" => Parts!Market!IInv
<1>1. RecordsInit => Inv BY ScenesPlayTheirParts, MarketStart
<1>2. Inv /\ [RecordsNext]_vars => Inv' BY ScenesPlayTheirParts, MarketSteps
<1>3. Inv => LivePricesSettle
  BY Parts!PricesHaveSettled
  DEF LivePricesSettle, Market!LivePricesSettle, Market!Days, Parts!Market!LivePricesSettle, Parts!Market!Days
<1> QED BY <1>1, <1>2, <1>3, PTL DEF RecordsSpec

LEMMA AutomationsStart == Automations!Init => Parts!Goal!IInv
<1>1. Automations!Init => Parts!Goal!Init
  BY DEF Automations!Init, Automations!Idle, Parts!Goal!Init, Parts!Goal!Idle
<1> QED BY <1>1, Parts!AutomationsInitInv

LEMMA DrawsAreNoContributions == Parts!DirectionsAreApart
BY DEF Parts!DirectionsAreApart, TwoNames, Draw

LEMMA AutomationsSteps ==
  Parts!Goal!IInv /\ [Automations!Next]_(Automations!vars) => Parts!Goal!IInv'
<1>1. Automations!Next => Parts!Goal!Next
  BY DEF Automations!Next, Automations!Post, Automations!PostWithdrawal, Automations!Patch, Automations!Reorder,
         Automations!Upsert, Automations!Replace, Automations!Refused, Automations!Remove, Automations!Load,
         Automations!Overtake, Automations!Append, Automations!Orders, Automations!Valid, Automations!Remainders,
         Automations!With, Automations!Of, Automations!Row, Automations!Ids, Automations!Positions,
         Automations!Idle, Automations!Cardinality, Parts!Goal!Next, Parts!Goal!Post, Parts!Goal!PostWithdrawal,
         Parts!Goal!Patch, Parts!Goal!Reorder, Parts!Goal!Upsert, Parts!Goal!Replace, Parts!Goal!Refused,
         Parts!Goal!Remove, Parts!Goal!Load, Parts!Goal!Overtake, Parts!Goal!Append, Parts!Goal!Orders,
         Parts!Goal!Valid, Parts!Goal!Remainders, Parts!Goal!With, Parts!Goal!Of, Parts!Goal!Row, Parts!Goal!Ids,
         Parts!Goal!Positions, Parts!Goal!Idle, Parts!Goal!Cardinality
<1> QED BY <1>1, DrawsAreNoContributions, Parts!AutomationsStepInv DEF Parts!Goal!vars, Automations!vars

\* A write leaves the rules it is not about as they are; one that nothing overtook leaves a
\* list the checks accept, and a reorder keeps every rule and what it says.
THEOREM WritesKeepTheListHolds == RecordsSpec => WritesKeepTheList
<1> DEFINE Inv == scene = "automations" => Parts!Goal!IInv
           Writes == scene = "automations" => Automations!WritesKeepTheList
<1>1. RecordsInit => Inv BY ScenesPlayTheirParts, AutomationsStart
<1>2. Inv /\ [RecordsNext]_vars => Inv' BY ScenesPlayTheirParts, AutomationsSteps
<1>3. Inv => Writes
  <2>1. Parts!Goal!IInv => Parts!Goal!WritesKeepTheList BY DrawsAreNoContributions, Parts!WritesAreNarrow
  <2> QED BY <2>1
    DEF Automations!WritesKeepTheList, Automations!Upsert, Automations!Replace, Automations!Written,
        Automations!Valid, Automations!Remainders, Automations!With, Automations!Of, Automations!Ids,
        Automations!Overtake, Automations!Cardinality, Automations!Idle, Parts!Goal!WritesKeepTheList,
        Parts!Goal!Upsert, Parts!Goal!Replace, Parts!Goal!Written, Parts!Goal!Valid, Parts!Goal!Remainders,
        Parts!Goal!With, Parts!Goal!Of, Parts!Goal!Ids, Parts!Goal!Overtake, Parts!Goal!Cardinality, Parts!Goal!Idle
<1>4. Inv /\ [RecordsNext]_vars => [Writes]_vars BY <1>3
<1> HIDE DEF Inv, Writes
<1>5. RecordsSpec => [][Writes]_vars BY <1>1, <1>2, <1>4, PTL DEF RecordsSpec
<1> QED BY <1>5 DEF WritesKeepTheList, Writes

LEMMA ReviewsStart == Reviews!Init => Parts!Say!IInv
<1>1. Reviews!Init => Parts!Say!Init
  BY DEF Reviews!Init, Reviews!Idle, Reviews!Request, Reviews!NoEntry, Reviews!NoOverride, Reviews!NoSuggestion,
         Reviews!Unknown, Reviews!MaybeCategory, Parts!Say!Init, Parts!Say!Idle, Parts!Say!Request,
         Parts!Say!NoEntry, Parts!Say!NoOverride, Parts!Say!NoSuggestion, Parts!Say!Unknown, Parts!Say!MaybeCategory
<1> QED BY <1>1, Parts!ReviewsInitInv

LEMMA ReviewsSteps == Parts!Say!IInv /\ [Reviews!Next]_(Reviews!vars) => Parts!Say!IInv'
<1>1. ASSUME NEW r \in Callers, NEW p \in OnePosting, NEW change \in Reviews!Changes
      PROVE  Reviews!Put(r, p, change) => Parts!Say!Put(r, p, change)
  BY DEF Reviews!rowVars, Parts!Say!rowVars, Reviews!Put, Reviews!Start, Reviews!Merged, Reviews!Loaded,
         Reviews!Request, Parts!Say!Put, Parts!Say!Start, Parts!Say!Merged, Parts!Say!Loaded, Parts!Say!Request
<1>2. ASSUME NEW r \in Callers, NEW ps \in SUBSET OnePosting
      PROVE  Reviews!Validate(r, ps) => Parts!Say!Validate(r, ps)
  BY DEF Reviews!rowVars, Parts!Say!rowVars, Reviews!Validate, Reviews!Start, Reviews!Resolved, Reviews!Loaded,
         Reviews!Request, Reviews!NoSuggestion, Parts!Say!Validate, Parts!Say!Start, Parts!Say!Resolved,
         Parts!Say!Loaded, Parts!Say!Request, Parts!Say!NoSuggestion
<1>3. ASSUME NEW r \in Callers, NEW p \in OnePosting PROVE Reviews!Ask(r, p) => Parts!Say!Ask(r, p)
  BY DEF Reviews!rowVars, Parts!Say!rowVars, Reviews!Ask, Reviews!Shown, Reviews!Request, Reviews!NoEntry,
         Reviews!NoOverride, Parts!Say!Ask, Parts!Say!Shown, Parts!Say!Request, Parts!Say!NoEntry,
         Parts!Say!NoOverride
<1>4. ASSUME NEW r \in Callers, NEW c \in TwoNames PROVE Reviews!Answer(r, c) => Parts!Say!Answer(r, c)
  BY DEF Reviews!rowVars, Parts!Say!rowVars, Reviews!Answer, Reviews!Staged, Reviews!Loaded, Reviews!Idle,
         Reviews!Request, Reviews!NoEntry, Reviews!NoOverride, Parts!Say!Answer, Parts!Say!Staged, Parts!Say!Loaded,
         Parts!Say!Idle, Parts!Say!Request, Parts!Say!NoEntry, Parts!Say!NoOverride
<1>5. ASSUME NEW r \in Callers, NEW ps \in SUBSET OnePosting, NEW c \in TwoNames
      PROVE  Reviews!Match(r, ps, c) => Parts!Say!Match(r, ps, c)
  BY DEF Reviews!rowVars, Parts!Say!rowVars, Reviews!Match, Reviews!Start, Reviews!Staged, Reviews!Shown,
         Reviews!Loaded, Reviews!Request, Parts!Say!Match, Parts!Say!Start, Parts!Say!Staged, Parts!Say!Shown,
         Parts!Say!Loaded, Parts!Say!Request
<1>6. ASSUME NEW r \in Callers PROVE Reviews!Save(r) => Parts!Say!Save(r)
  BY DEF Reviews!Save, Reviews!Shown, Reviews!Loaded, Reviews!Unknown, Reviews!Idle, Reviews!Request,
         Reviews!NoEntry, Reviews!NoOverride, Parts!Say!Save, Parts!Say!Shown, Parts!Say!Loaded, Parts!Say!Unknown,
         Parts!Say!Idle, Parts!Say!Request, Parts!Say!NoEntry, Parts!Say!NoOverride
<1>7. ASSUME NEW r \in Callers PROVE Reviews!Abandon(r) => Parts!Say!Abandon(r)
  BY DEF Reviews!rowVars, Parts!Say!rowVars, Reviews!Abandon, Reviews!Idle, Reviews!Request, Reviews!NoEntry,
         Reviews!NoOverride, Parts!Say!Abandon, Parts!Say!Idle, Parts!Say!Request, Parts!Say!NoEntry,
         Parts!Say!NoOverride
<1>8. Reviews!Changes = Parts!Say!Changes
  BY DEF Reviews!Changes, Reviews!MaybeCategory, Parts!Say!Changes, Parts!Say!MaybeCategory
<1>9. Reviews!Next => Parts!Say!Next
  BY <1>1, <1>2, <1>3, <1>4, <1>5, <1>6, <1>7, <1>8 DEF Reviews!Next, Parts!Say!Next
<1> QED BY <1>9, Parts!ReviewsStepInv DEF Parts!Say!vars, Parts!Say!rowVars, Reviews!vars, Reviews!rowVars

\* Rejecting a suggestion puts back what the posting showed, and a save changes only what
\* its request is about, unless another request saved in between.
THEOREM ReviewsTouchTheirOwnHolds == RecordsSpec => ReviewsTouchTheirOwn
<1> DEFINE Inv == scene = "reviews" => Parts!Say!IInv
           Saves == scene = "reviews" => Reviews!RejectionRestores /\ Reviews!SavesAreNarrow
<1>1. RecordsInit => Inv BY ScenesPlayTheirParts, ReviewsStart
<1>2. Inv /\ [RecordsNext]_vars => Inv' BY ScenesPlayTheirParts, ReviewsSteps
<1>3. Inv => Saves
  <2>1. Parts!Say!IInv => Parts!Say!RejectionRestores /\ Parts!Say!SavesAreNarrow BY Parts!SavesTouchTheirOwn
  <2> QED BY <2>1
    DEF Reviews!RejectionRestores, Reviews!SavesAreNarrow, Reviews!Save, Reviews!Shown, Reviews!Loaded,
        Reviews!Idle, Reviews!Request, Reviews!NoEntry, Reviews!NoOverride, Reviews!Unknown,
        Parts!Say!RejectionRestores, Parts!Say!SavesAreNarrow, Parts!Say!Save, Parts!Say!Shown, Parts!Say!Loaded,
        Parts!Say!Idle, Parts!Say!Request, Parts!Say!NoEntry, Parts!Say!NoOverride, Parts!Say!Unknown
<1>4. Inv /\ [RecordsNext]_vars => [Saves]_vars BY <1>3
<1> HIDE DEF Inv, Saves
<1>5. RecordsSpec => [][Saves]_vars BY <1>1, <1>2, <1>4, PTL DEF RecordsSpec
<1> QED BY <1>5 DEF ReviewsTouchTheirOwn, Saves

LEMMA FirstAccountsAreCounted == Parts!FirstAccounts /\ Parts!MovesAreCounted
<1>1. TwoNames = {"a"} \cup {"b"} BY DEF TwoNames
<1>2. Parts!FirstAccounts BY <1>1, Parts!FS_Singleton, Parts!FS_AddElement DEF Parts!FirstAccounts
<1>3. Parts!MovesAreCounted BY DEF Parts!MovesAreCounted, TheFirstTwo, BothWays, Move
<1> QED BY <1>2, <1>3

LEMMA LedgersStart == Ledgers!Init => Parts!Book!IInv
<1>1. Ledgers!Init => Parts!Book!Init BY DEF Ledgers!Init, Ledgers!Idle, Parts!Book!Init, Parts!Book!Idle
<1> QED BY <1>1, FirstAccountsAreCounted, Parts!AccountsInitInv

LEMMA LedgersPlay == Ledgers!Next => Parts!Book!Next
<1>1. ASSUME NEW q \in Callers, NEW a \in ThreeNames, NEW t \in Currencies
      PROVE  Ledgers!LookPut(q, a, t) => Parts!Book!LookPut(q, a, t)
  BY DEF Ledgers!rowVars, Ledgers!LookPut, Ledgers!Look, Ledgers!Locked, Ledgers!HasPostings, Ledgers!Postings,
         Parts!Book!rowVars, Parts!Book!LookPut, Parts!Book!Look, Parts!Book!Locked, Parts!Book!HasPostings,
         Parts!Book!Postings
<1>2. ASSUME NEW q \in Callers, NEW a \in ThreeNames
      PROVE  Ledgers!LookDelete(q, a) => Parts!Book!LookDelete(q, a)
  BY DEF Ledgers!rowVars, Ledgers!LookDelete, Ledgers!Look, Ledgers!HasPostings, Ledgers!Postings, Ledgers!Idle,
         Parts!Book!rowVars, Parts!Book!LookDelete, Parts!Book!Look, Parts!Book!HasPostings, Parts!Book!Postings,
         Parts!Book!Idle
<1>3. ASSUME NEW q \in Callers, NEW a \in ThreeNames
      PROVE  Ledgers!LookImport(q, a) => Parts!Book!LookImport(q, a)
  BY DEF Ledgers!rowVars, Ledgers!LookImport, Ledgers!Look, Parts!Book!rowVars, Parts!Book!LookImport, Parts!Book!Look
<1>4. ASSUME NEW q \in Callers, NEW a \in ThreeNames, NEW moves \in {{}} \cup {{mv} : mv \in BothWays}
      PROVE  Ledgers!LookClose(q, a, moves) => Parts!Book!LookClose(q, a, moves)
  BY DEF Ledgers!rowVars, Ledgers!LookClose, Ledgers!Look, Ledgers!Idle, Parts!Book!rowVars, Parts!Book!LookClose,
         Parts!Book!Look, Parts!Book!Idle
<1>5. ASSUME NEW q \in Callers
      PROVE  Ledgers!Put(q) => Parts!Book!Put(q)
  BY DEF Ledgers!rowVars, Ledgers!Put, Ledgers!Due, Ledgers!Wrote, Ledgers!Idle, Parts!Book!rowVars, Parts!Book!Put,
         Parts!Book!Due, Parts!Book!Wrote, Parts!Book!Idle
<1>6. ASSUME NEW q \in Callers
      PROVE  Ledgers!Delete(q) => Parts!Book!Delete(q)
  BY DEF Ledgers!rowVars, Ledgers!Delete, Ledgers!Due, Ledgers!Wrote, Ledgers!Idle, Ledgers!HasPostings,
         Ledgers!Postings, Parts!Book!rowVars, Parts!Book!Delete, Parts!Book!Due, Parts!Book!Wrote, Parts!Book!Idle,
         Parts!Book!HasPostings, Parts!Book!Postings
<1>7. ASSUME NEW q \in Callers
      PROVE  Ledgers!Close(q) => Parts!Book!Close(q)
  BY DEF Ledgers!rowVars, Ledgers!Close, Ledgers!Due, Ledgers!Wrote, Ledgers!Idle, Ledgers!Recorded, Ledgers!Changed,
         Ledgers!Of, Ledgers!Legs, Ledgers!Leg, Parts!Book!rowVars, Parts!Book!Close, Parts!Book!Due,
         Parts!Book!Wrote, Parts!Book!Idle, Parts!Book!Recorded, Parts!Book!Changed, Parts!Book!Of, Parts!Book!Legs,
         Parts!Book!Leg
<1>8. ASSUME NEW q \in Callers
      PROVE  Ledgers!Import(q) => Parts!Book!Import(q)
  BY DEF Ledgers!rowVars, Ledgers!Import, Ledgers!Due, Ledgers!Wrote, Ledgers!Idle, Parts!Book!rowVars,
         Parts!Book!Import, Parts!Book!Due, Parts!Book!Wrote, Parts!Book!Idle
<1>9. ASSUME NEW q \in Callers
      PROVE  Ledgers!Fail(q) => Parts!Book!Fail(q)
  BY DEF Ledgers!rowVars, Ledgers!Fail, Ledgers!Idle, Parts!Book!rowVars, Parts!Book!Fail, Parts!Book!Idle
<1>10. ASSUME NEW a \in ThreeNames, NEW t \in Currencies
      PROVE  Ledgers!Post(a, t) => Parts!Book!Post(a, t)
  BY DEF Ledgers!rowVars, Ledgers!Post, Parts!Book!rowVars, Parts!Book!Post
<1>11. ASSUME NEW a \in ThreeNames
      PROVE  Ledgers!Reopen(a) => Parts!Book!Reopen(a)
  BY DEF Ledgers!rowVars, Ledgers!Reopen, Ledgers!AtOnce, Parts!Book!rowVars, Parts!Book!Reopen, Parts!Book!AtOnce
<1>12. ASSUME NEW a \in ThreeNames
      PROVE  Ledgers!DeleteOpening(a) => Parts!Book!DeleteOpening(a)
  BY DEF Ledgers!rowVars, Ledgers!DeleteOpening, Ledgers!AtOnce, Parts!Book!rowVars, Parts!Book!DeleteOpening,
         Parts!Book!AtOnce
<1>13. ASSUME NEW a \in ThreeNames, NEW day \in TheFirstTwo
      PROVE  Ledgers!PutOpening(a, day) => Parts!Book!PutOpening(a, day)
  BY DEF Ledgers!rowVars, Ledgers!PutOpening, Ledgers!AtOnce, Parts!Book!rowVars, Parts!Book!PutOpening,
         Parts!Book!AtOnce
<1> QED
  BY <1>1, <1>2, <1>3, <1>4, <1>5, <1>6, <1>7, <1>8, <1>9, <1>10, <1>11, <1>12, <1>13 DEF Ledgers!Next,
     Parts!Book!Next

LEMMA LedgersSteps == Parts!Book!IInv /\ [Ledgers!Next]_(Ledgers!vars) => Parts!Book!IInv'
BY LedgersPlay, Parts!AccountsStepInv DEF Ledgers!vars, Ledgers!rowVars, Parts!Book!vars, Parts!Book!rowVars

NetWorthIsTheParts == \A currency, day : Ledgers!NetWorth(currency, day) = Parts!Book!NetWorth(currency, day)

LEMMA TheSameNetWorth == NetWorthIsTheParts
<1>1. \A a, day : Ledgers!Balance(a, day) = Parts!Book!Balance(a, day)
  BY DEF Ledgers!Balance, Ledgers!Postings, Ledgers!MapThenSumSet, Ledgers!MapThenFoldSet, Parts!Book!Balance,
         Parts!Book!Postings, Parts!Book!MapThenSumSet, Parts!Book!MapThenFoldSet
<1> QED BY <1>1
  DEF NetWorthIsTheParts, Ledgers!NetWorth, Ledgers!MapThenSumSet, Ledgers!MapThenFoldSet, Parts!Book!NetWorth,
      Parts!Book!MapThenSumSet, Parts!Book!MapThenFoldSet

\* What is on an account is in its currency, unless two requests about it overlapped; and
\* recording a transfer, for the first time or again, makes no money.
THEOREM AccountsAgreeHolds == RecordsSpec => AccountsAgree
<1> DEFINE Inv == scene = "accounts" => Parts!Book!IInv
           Agree == scene = "accounts" => Ledgers!CurrenciesAgree
           Moves == scene = "accounts" => Ledgers!TransfersMakeNoMoney
<1>1. RecordsInit => Inv BY ScenesPlayTheirParts, LedgersStart
<1>2. Inv /\ [RecordsNext]_vars => Inv' BY ScenesPlayTheirParts, LedgersSteps
<1>3. Inv => Agree
  BY Parts!AccountsHaveTheirCurrency
  DEF Ledgers!CurrenciesAgree, Ledgers!Postings, Parts!Book!CurrenciesAgree, Parts!Book!Postings
<1>4. Inv /\ Inv' /\ [RecordsNext]_vars => [Moves]_vars
  <2>1. [Ledgers!Next]_(Ledgers!vars) => [Parts!Book!Next]_(Parts!Book!vars)
    BY LedgersPlay DEF Ledgers!vars, Ledgers!rowVars, Parts!Book!vars, Parts!Book!rowVars
  <2>2. Parts!Book!IInv /\ Parts!Book!IInv' /\ [Ledgers!Next]_(Ledgers!vars) => Parts!Book!TransfersMakeNoMoney
    BY <2>1, FirstAccountsAreCounted, Parts!MoneyStays
  <2>3. NetWorthIsTheParts' BY TheSameNetWorth, PTL
  <2>4. Parts!Book!TransfersMakeNoMoney => Ledgers!TransfersMakeNoMoney
    BY <2>3, TheSameNetWorth
    DEF NetWorthIsTheParts, Ledgers!TransfersMakeNoMoney, Ledgers!PlainTransfers, Parts!Book!TransfersMakeNoMoney,
        Parts!Book!PlainTransfers
  <2> QED BY <2>2, <2>4, ScenesPlayTheirParts
<1> HIDE DEF Inv, Agree, Moves
<1>5. RecordsSpec => []Agree /\ [][Moves]_vars BY <1>1, <1>2, <1>3, <1>4, PTL DEF RecordsSpec
<1> QED BY <1>5 DEF AccountsAgree, Agree, Moves

LEMMA RulesAreListed == Parts!RulesAreNumbered
BY DEF Parts!RulesAreNumbered, Parts!Pairs!RuleIds, EachWay

LEMMA PairsStart == Pairs!Init => Parts!Pairs!IInv
<1>1. Pairs!Init => Parts!Pairs!Init
  BY DEF Pairs!Init, Pairs!RuleIds, Pairs!Fresh, Pairs!NoRule, Parts!Pairs!Init, Parts!Pairs!RuleIds,
         Parts!Pairs!Fresh, Parts!Pairs!NoRule
<1> QED BY <1>1, Parts!PairsInitInv

LEMMA SameReconciliation ==
  \A led, rs, spl, ls : Pairs!ReconcileRuleLinks(led, rs, spl, ls) = Parts!Pairs!ReconcileRuleLinks(led, rs, spl, ls)
BY DEF Pairs!ReconcileRuleLinks, Pairs!Candidates, Pairs!Unresolved, Pairs!Members, Pairs!Matching, Pairs!RuleMatch,
       Pairs!RuleIds, Pairs!Cardinality, Parts!Pairs!ReconcileRuleLinks, Parts!Pairs!Candidates,
       Parts!Pairs!Unresolved, Parts!Pairs!Members, Parts!Pairs!Matching, Parts!Pairs!RuleMatch, Parts!Pairs!RuleIds,
       Parts!Pairs!Cardinality

LEMMA PairsPlay == Pairs!Next => Parts!Pairs!Next
<1>1. ASSUME NEW q \in Callers PROVE Pairs!Import(q) => Parts!Pairs!Import(q)
  BY DEF Pairs!Import, Pairs!Fresh, Pairs!Transactions, Pairs!NoRule, Parts!Pairs!Import, Parts!Pairs!Fresh,
         Parts!Pairs!Transactions, Parts!Pairs!NoRule
<1>2. ASSUME NEW q \in Callers PROVE Pairs!PostRule(q) => Parts!Pairs!PostRule(q)
  BY DEF Pairs!PostRule, Pairs!WriteRule, Pairs!Unlocked, Pairs!Fresh, Pairs!NoRule, Pairs!RuleIds,
         Parts!Pairs!PostRule, Parts!Pairs!WriteRule, Parts!Pairs!Unlocked, Parts!Pairs!Fresh, Parts!Pairs!NoRule,
         Parts!Pairs!RuleIds
<1>3. ASSUME NEW q \in Callers PROVE Pairs!PatchRule(q) => Parts!Pairs!PatchRule(q)
  BY DEF Pairs!PatchRule, Pairs!WriteRule, Pairs!Unlocked, Pairs!Fresh, Pairs!NoRule, Pairs!RuleIds,
         Parts!Pairs!PatchRule, Parts!Pairs!WriteRule, Parts!Pairs!Unlocked, Parts!Pairs!Fresh, Parts!Pairs!NoRule,
         Parts!Pairs!RuleIds
<1>4. ASSUME NEW q \in Callers PROVE Pairs!DeleteRule(q) => Parts!Pairs!DeleteRule(q)
  BY DEF Pairs!DeleteRule, Pairs!WriteRule, Pairs!Unlocked, Pairs!Fresh, Pairs!NoRule, Pairs!RuleIds,
         Parts!Pairs!DeleteRule, Parts!Pairs!WriteRule, Parts!Pairs!Unlocked, Parts!Pairs!Fresh, Parts!Pairs!NoRule,
         Parts!Pairs!RuleIds
<1>5. ASSUME NEW q \in Callers PROVE Pairs!CheckManualLink(q) => Parts!Pairs!CheckManualLink(q)
  BY DEF Pairs!CheckManualLink, Pairs!Fresh, Pairs!NoRule, Pairs!Members, Parts!Pairs!CheckManualLink,
         Parts!Pairs!Fresh, Parts!Pairs!NoRule, Parts!Pairs!Members
<1>6. ASSUME NEW q \in Callers PROVE Pairs!Insert(q) => Parts!Pairs!Insert(q)
  BY DEF Pairs!Insert, Pairs!Collides, Pairs!Standing, Pairs!Inserted, Pairs!RuleGone, Pairs!NoRule,
         Parts!Pairs!Insert, Parts!Pairs!Collides, Parts!Pairs!Standing, Parts!Pairs!Inserted, Parts!Pairs!RuleGone,
         Parts!Pairs!NoRule
<1>7. ASSUME NEW q \in Callers PROVE Pairs!Collide(q) => Parts!Pairs!Collide(q)
  BY DEF Pairs!Collide, Pairs!Collides, Pairs!Standing, Pairs!Inserted, Pairs!NoRule, Parts!Pairs!Collide,
         Parts!Pairs!Collides, Parts!Pairs!Standing, Parts!Pairs!Inserted, Parts!Pairs!NoRule
<1>8. ASSUME NEW q \in Callers PROVE Pairs!Reconcile(q) => Parts!Pairs!Reconcile(q)
  BY SameReconciliation DEF Pairs!Reconcile, Pairs!RuleIds, Parts!Pairs!Reconcile, Parts!Pairs!RuleIds
<1>9. /\ Pairs!PutSplit => Parts!Pairs!PutSplit
      /\ Pairs!DeleteSplit => Parts!Pairs!DeleteSplit
      /\ Pairs!DeleteLink => Parts!Pairs!DeleteLink
      /\ Pairs!PostMerge => Parts!Pairs!PostMerge
      /\ Pairs!DeleteMerge => Parts!Pairs!DeleteMerge
  BY DEF Pairs!PutSplit, Pairs!DeleteSplit, Pairs!DeleteLink, Pairs!PostMerge, Pairs!DeleteMerge, Pairs!Edit,
         Pairs!Dropped, Parts!Pairs!PutSplit, Parts!Pairs!DeleteSplit, Parts!Pairs!DeleteLink, Parts!Pairs!PostMerge,
         Parts!Pairs!DeleteMerge, Parts!Pairs!Edit, Parts!Pairs!Dropped
<1> QED BY <1>1, <1>2, <1>3, <1>4, <1>5, <1>6, <1>7, <1>8, <1>9 DEF Pairs!Next, Parts!Pairs!Next

LEMMA PairsSteps == Parts!Pairs!IInv /\ [Pairs!Next]_(Pairs!vars) => Parts!Pairs!IInv'
BY PairsPlay, RulesAreListed, Parts!PairsStepInv DEF Pairs!vars, Parts!Pairs!vars

\* A request that is refused was overtaken by another; and a split transaction is linked
\* only by a request that had looked before the split was saved.
THEOREM LinksRespectWhatIsThereHolds == RecordsSpec => LinksRespectWhatIsThere
<1> DEFINE Inv == scene = "pairs" => Parts!Pairs!IInv
           Rivals == scene = "pairs" => Pairs!OnlyRivalsCollide
           Stay == scene = "pairs" => Pairs!SplitsStayCounted
<1>1. RecordsInit => Inv BY ScenesPlayTheirParts, PairsStart
<1>2. Inv /\ [RecordsNext]_vars => Inv' BY ScenesPlayTheirParts, PairsSteps
<1>3. Inv => Rivals
  BY Parts!RivalsCollide
  DEF Pairs!OnlyRivalsCollide, Pairs!Collides, Pairs!Standing, Pairs!Inserted, Pairs!NoRule,
      Parts!Pairs!OnlyRivalsCollide, Parts!Pairs!Collides, Parts!Pairs!Standing, Parts!Pairs!Inserted,
      Parts!Pairs!NoRule
<1>4. Inv /\ [RecordsNext]_vars => [Stay]_vars
  <2>1. [Pairs!Next]_(Pairs!vars) => [Parts!Pairs!Next]_(Parts!Pairs!vars)
    BY PairsPlay DEF Pairs!vars, Parts!Pairs!vars
  <2>2. Parts!Pairs!IInv /\ [Pairs!Next]_(Pairs!vars) => Parts!Pairs!SplitsStayCounted BY <2>1, Parts!SplitsCount
  <2>3. Parts!Pairs!SplitsStayCounted => Pairs!SplitsStayCounted
    BY DEF Pairs!SplitsStayCounted, Pairs!Counted, Pairs!Dropped, Pairs!Members, Pairs!Repointed, Pairs!Matching,
           Pairs!RuleMatch, Pairs!RuleIds, Parts!Pairs!SplitsStayCounted, Parts!Pairs!Counted, Parts!Pairs!Dropped,
           Parts!Pairs!Members, Parts!Pairs!Repointed, Parts!Pairs!Matching, Parts!Pairs!RuleMatch,
           Parts!Pairs!RuleIds
  <2> QED BY <2>2, <2>3, ScenesPlayTheirParts
<1> HIDE DEF Inv, Rivals, Stay
<1>5. RecordsSpec => []Rivals /\ [][Stay]_vars BY <1>1, <1>2, <1>3, <1>4, PTL DEF RecordsSpec
<1> QED BY <1>5 DEF LinksRespectWhatIsThere, Rivals, Stay

LEMMA UploadsHaveRows == Parts!FilesHaveRows
<1>1. \A a, s, b, c : \A n, m \in Nat : Statement(a, s, b, c, n, m).rows \in [Fingerprints -> Nat]
  <2>1. \A n, m \in Nat : [p |-> n, q |-> m] \in [Fingerprints -> Nat] BY DEF Fingerprints
  <2> QED BY <2>1 DEF Statement
<1>2. \A f \in Uploads : f.rows \in [Fingerprints -> Nat] BY <1>1 DEF Uploads
<1> PICK a, b, c, d, e : /\ a = Statement("a", FALSE, TRUE, FALSE, 1, 0)
                         /\ b = Statement("a", FALSE, TRUE, TRUE, 2, 0)
                         /\ c = Statement("a", FALSE, FALSE, FALSE, 1, 0)
                         /\ d = Statement("a", TRUE, FALSE, TRUE, 1, 0)
                         /\ e = Statement("b", FALSE, FALSE, TRUE, 0, 1)
  OBVIOUS
<1>3. Uploads = (((({} \cup {a}) \cup {b}) \cup {c}) \cup {d}) \cup {e} BY DEF Uploads
<1>4. \A S, x : Parts!IsFiniteSet(S) => Parts!IsFiniteSet(S \cup {x}) BY Parts!FS_AddElement
<1>5. Parts!IsFiniteSet({}) BY Parts!FS_EmptySet
<1>6. Parts!IsFiniteSet(Uploads) BY <1>3, <1>4, <1>5
<1> QED BY <1>2, <1>6 DEF Parts!FilesHaveRows

LEMMA StatementsStart == Statements!Init => Parts!Imports!IInv
<1>1. Statements!Init => Parts!Imports!Init
  BY DEF Statements!Init, Statements!Idle, Parts!Imports!Init, Parts!Imports!Idle
<1> QED BY <1>1, UploadsHaveRows, Parts!StatementsInitInv

LEMMA TheSameMerge ==
  /\ \A ids, by, rows : Statements!Merge(ids, by, rows) = Parts!Imports!Merge(ids, by, rows)
  /\ \A ids, f : Statements!Covered(ids, f) <=> Parts!Imports!Covered(ids, f)
<1>1. \A S : Statements!Cardinality(S) = Parts!Imports!Cardinality(S)
  BY DEF Statements!Cardinality, Parts!Imports!Cardinality
<1>2. \A ids, p : Statements!Copies(ids, p) = Parts!Imports!Copies(ids, p)
  BY DEF Statements!Copies, Parts!Imports!Copies
<1> QED BY <1>1, <1>2 DEF Statements!Merge, Statements!Covered, Parts!Imports!Merge, Parts!Imports!Covered

LEMMA TheSameReplay == Statements!Replayed = Parts!Imports!Replayed /\ Statements!Listed = Parts!Imports!Listed
BY DEF Statements!Replayed, Statements!Listed, Parts!Imports!Replayed, Parts!Imports!Listed

LEMMA TheSameWrite ==
  /\ \A job : Statements!Write(job) <=> Parts!Imports!Write(job)
  /\ \A job : Statements!Overtaken(job) = Parts!Imports!Overtaken(job)
<1>1. \A job, lost : Statements!Behind(job, lost) = Parts!Imports!Behind(job, lost)
  BY DEF Statements!Behind, Parts!Imports!Behind
<1>2. \A job : Statements!Overtaken(job) = Parts!Imports!Overtaken(job)
  BY <1>1 DEF Statements!Overtaken, Parts!Imports!Overtaken
<1>3. \A job : Statements!Write(job) <=> Parts!Imports!Write(job)
  BY DEF Statements!Write, Statements!HaveAccounts, Parts!Imports!Write, Parts!Imports!HaveAccounts
<1> QED BY <1>2, <1>3

LEMMA StatementsPlay == Statements!Next => Parts!Imports!Next
<1>1. ASSUME NEW f \in Uploads, NEW route \in {"bank", "canonical"}
      PROVE  Statements!Upload(f, route) => Parts!Imports!Upload(f, route)
  <2>1. Statements!Uploads = Parts!Imports!Uploads BY DEF Statements!Uploads, Parts!Imports!Uploads
  <2> QED
    BY <2>1 DEF Statements!Upload, Statements!Idle, Statements!ledgerVars, Parts!Imports!Upload, Parts!Imports!Idle,
       Parts!Imports!ledgerVars
<1>2. Statements!Load => Parts!Imports!Load
  BY DEF Statements!Load, Statements!Importer, Statements!ledgerVars, Parts!Imports!Load, Parts!Imports!Importer,
         Parts!Imports!ledgerVars
<1>3. Statements!ImportFails => Parts!Imports!ImportFails
  BY DEF Statements!ImportFails, Statements!Idle, Statements!ledgerVars, Parts!Imports!ImportFails,
         Parts!Imports!Idle, Parts!Imports!ledgerVars
<1>4. Statements!RebuildFails => Parts!Imports!RebuildFails
  BY DEF Statements!RebuildFails, Statements!Idle, Statements!ledgerVars, Parts!Imports!RebuildFails,
         Parts!Imports!Idle, Parts!Imports!ledgerVars
<1>5. Statements!RebuildWrites => Parts!Imports!RebuildWrites
  BY TheSameWrite DEF Statements!RebuildWrites, Statements!Idle, Parts!Imports!RebuildWrites, Parts!Imports!Idle
<1>6. Statements!ImportWrites => Parts!Imports!ImportWrites
  BY TheSameWrite DEF Statements!ImportWrites, Statements!Idle, Parts!Imports!ImportWrites, Parts!Imports!Idle
<1>7. Statements!RebuildReads => Parts!Imports!RebuildReads
  BY TheSameMerge, TheSameReplay DEF Statements!RebuildReads, Statements!Idle, Statements!ledgerVars,
     Parts!Imports!RebuildReads, Parts!Imports!Idle, Parts!Imports!ledgerVars
<1>8. \A id, other \in Statements!Transactions : Statements!Link(id, other) => Parts!Imports!Link(id, other)
  <2>1. Statements!Cardinality(v4) = Parts!Imports!Cardinality(v4)
    BY DEF Statements!Cardinality, Parts!Imports!Cardinality
  <2> QED BY <2>1 DEF Statements!Link, Statements!Transactions, Parts!Imports!Link, Parts!Imports!Transactions
<1>9. \A a \in v2 : Statements!DeleteAccount(a) => Parts!Imports!DeleteAccount(a)
  BY DEF Statements!DeleteAccount, Statements!Copies, Statements!ledgerVars, Parts!Imports!DeleteAccount,
         Parts!Imports!Copies, Parts!Imports!ledgerVars
<1>10. Statements!Transactions = Parts!Imports!Transactions BY DEF Statements!Transactions, Parts!Imports!Transactions
<1>11. Statements!ImportBegins => Parts!Imports!ImportBegins
  BY TheSameMerge DEF Statements!ImportBegins, Statements!Begin, Statements!Importer, Statements!ledgerVars,
     Parts!Imports!ImportBegins, Parts!Imports!Begin, Parts!Imports!Importer, Parts!Imports!ledgerVars
<1>12. Statements!RebuildBegins => Parts!Imports!RebuildBegins
  BY DEF Statements!RebuildBegins, Statements!Begin, Statements!ledgerVars,
         Parts!Imports!RebuildBegins, Parts!Imports!Begin, Parts!Imports!ledgerVars
<1> QED
  BY <1>1, <1>2, <1>3, <1>4, <1>5, <1>6, <1>7, <1>8, <1>9, <1>10, <1>11, <1>12
  DEF Statements!Next, Parts!Imports!Next

LEMMA StatementsSteps == Parts!Imports!IInv /\ [Statements!Next]_(Statements!vars) => Parts!Imports!IInv'
BY StatementsPlay, UploadsHaveRows, Parts!StatementsStepInv
DEF Statements!vars, Statements!ledgerVars, Parts!Imports!vars, Parts!Imports!ledgerVars

\* A transaction that leaves the imported ledger leaves it by a job that another one
\* overtook, or was made by the canonical importer, which no rebuild replays.
THEOREM OnlyOvertakenJobsLoseHolds == RecordsSpec => OnlyOvertakenJobsLose
<1> DEFINE Inv == scene = "statements" => Parts!Imports!IInv
           Lose == scene = "statements" => Statements!OnlyOvertakenJobsLose
<1>1. RecordsInit => Inv BY ScenesPlayTheirParts, StatementsStart
<1>2. Inv /\ [RecordsNext]_vars => Inv' BY ScenesPlayTheirParts, StatementsSteps
<1>3. Inv /\ [RecordsNext]_vars => [Lose]_vars
  <2>1. [Statements!Next]_(Statements!vars) => [Parts!Imports!Next]_(Parts!Imports!vars)
    BY StatementsPlay DEF Statements!vars, Statements!ledgerVars, Parts!Imports!vars, Parts!Imports!ledgerVars
  <2>2. Parts!Imports!IInv /\ [Statements!Next]_(Statements!vars) => Parts!Imports!OnlyOvertakenJobsLose
    BY <2>1, UploadsHaveRows, Parts!JobsLoseOvertaken
  <2>3. Parts!Imports!OnlyOvertakenJobsLose => Statements!OnlyOvertakenJobsLose
    BY DEF Statements!OnlyOvertakenJobsLose, Parts!Imports!OnlyOvertakenJobsLose
  <2> QED BY <2>2, <2>3, ScenesPlayTheirParts
<1> HIDE DEF Inv
<1>4. RecordsSpec => [][Lose]_vars BY <1>1, <1>2, <1>3, PTL DEF RecordsSpec
<1> QED BY <1>4 DEF OnlyOvertakenJobsLose, Lose

\* Copies that carry the suffixes one to n keep them, unless the write is one that another
\* job's write overtook; and importing again what the ledger has adds nothing.
THEOREM CopiesStayApartHolds == RecordsSpec => CopiesStayApart
<1> DEFINE Inv == scene = "statements" => Parts!Imports!IInv
           Apart == scene = "statements" => Statements!CopiesStayNumbered /\ Statements!ReimportAddsNothing
<1>1. RecordsInit => Inv BY ScenesPlayTheirParts, StatementsStart
<1>2. Inv /\ [RecordsNext]_vars => Inv' BY ScenesPlayTheirParts, StatementsSteps
<1>3. Inv /\ [RecordsNext]_vars => [Apart]_vars
  <2>1. [Statements!Next]_(Statements!vars) => [Parts!Imports!Next]_(Parts!Imports!vars)
    BY StatementsPlay DEF Statements!vars, Statements!ledgerVars, Parts!Imports!vars, Parts!Imports!ledgerVars
  <2>2. Parts!Imports!IInv /\ [Statements!Next]_(Statements!vars)
           => Parts!Imports!CopiesStayNumbered /\ Parts!Imports!ReimportAddsNothing
    BY <2>1, UploadsHaveRows, Parts!WritesNumber, Parts!ImportsAddWhatIsMissing
  <2>3. Parts!Imports!CopiesStayNumbered => Statements!CopiesStayNumbered
    BY DEF Statements!CopiesStayNumbered, Statements!CopiesAreNumbered, Statements!Copies, Statements!Cardinality,
           Parts!Imports!CopiesStayNumbered, Parts!Imports!CopiesAreNumbered, Parts!Imports!Copies,
           Parts!Imports!Cardinality
  <2>4. Parts!Imports!ReimportAddsNothing => Statements!ReimportAddsNothing
    <3>1. Statements!ImportWrites => Parts!Imports!ImportWrites
      BY TheSameWrite DEF Statements!ImportWrites, Statements!Idle, Parts!Imports!ImportWrites, Parts!Imports!Idle
    <3> QED BY <3>1, TheSameMerge DEF Statements!ReimportAddsNothing, Parts!Imports!ReimportAddsNothing
  <2> QED BY <2>2, <2>3, <2>4, ScenesPlayTheirParts
<1> HIDE DEF Inv
<1>4. RecordsSpec => [][Apart]_vars BY <1>1, <1>2, <1>3, PTL DEF RecordsSpec
<1> QED BY <1>4 DEF CopiesStayApart, Apart

LEMMA RatesAreListed == Parts!RatesAreKnown /\ Parts!NoLongPause /\ Parts!IsFiniteSet(Foreign)
<1>1. Foreign = ({} \cup {"eur"}) \cup {"hrk"} BY DEF Foreign
<1>2. \A S, x : Parts!IsFiniteSet(S) => Parts!IsFiniteSet(S \cup {x}) BY Parts!FS_AddElement
<1>3. Parts!IsFiniteSet({}) BY Parts!FS_EmptySet
<1>4. Parts!IsFiniteSet(Foreign) BY <1>1, <1>2, <1>3
<1>5. \A c \in Foreign, d \in Parts!Fx!Days : Rate(c, d) \in Nat \ {0} BY DEF Rate, Parts!Fx!Days
<1>6. Parts!RatesAreKnown BY <1>5 DEF Parts!RatesAreKnown
<1>7. ASSUME NEW c \in Foreign, NEW x \in Fixed[c] \cap Parts!Fx!Days, NEW y \in Fixed[c] \cap Parts!Fx!Days,
             NEW d \in x .. y
      PROVE  \E z \in Fixed[c] : z \in (d - 2) .. d
  <2>1. CASE c = "eur"
    <3>1. Fixed[c] = {1, 2, 3, 6} BY <2>1 DEF Fixed
    <3>2. d \in 1 .. 6 BY <3>1
    <3>3. d = 1 \/ d = 2 \/ d = 3 \/ d = 4 \/ d = 5 \/ d = 6 BY <3>2
    <3>4. CASE d = 6
      <4>1. 6 \in Fixed[c] /\ 6 \in (d - 2) .. d BY <3>1, <3>4
      <4> QED BY <4>1
    <3>5. CASE d = 3 \/ d = 4 \/ d = 5
      <4>1. 3 \in Fixed[c] /\ 3 \in (d - 2) .. d BY <3>1, <3>5
      <4> QED BY <4>1
    <3>6. CASE d = 1 \/ d = 2
      <4>1. 1 \in Fixed[c] /\ 1 \in (d - 2) .. d BY <3>1, <3>6
      <4> QED BY <4>1
    <3> QED BY <3>3, <3>4, <3>5, <3>6
  <2>2. CASE c # "eur"
    <3>1. Fixed[c] = {3} BY <2>2 DEF Fixed
    <3>2. d = 3 BY <3>1
    <3>3. 3 \in Fixed[c] /\ 3 \in (d - 2) .. d BY <3>1, <3>2
    <3> QED BY <3>3
  <2> QED BY <2>1, <2>2
<1>8. Parts!NoLongPause BY <1>7 DEF Parts!NoLongPause
<1> QED BY <1>4, <1>6, <1>8

LEMMA TheSameRates ==
  /\ Rates!Published = Parts!Fx!Published
  /\ \A h : Rates!First(h) = Parts!Fx!First(h) /\ Rates!Last(h) = Parts!Fx!Last(h)
  /\ \A h : Rates!Start(h) = Parts!Fx!Start(h)
  /\ \A h : Rates!Loads(h) <=> Parts!Fx!Loads(h)
  /\ \A h, c, d : Rates!AsOf(h, c, d) = Parts!Fx!AsOf(h, c, d)
  /\ \A h, c, d : Rates!Series(h, c, d) = Parts!Fx!Series(h, c, d)
<1>1. Rates!Published = Parts!Fx!Published BY DEF Rates!Published, Rates!Days, Parts!Fx!Published, Parts!Fx!Days
<1>2. \A S : Rates!Min(S) = Parts!Fx!Min(S) /\ Rates!Max(S) = Parts!Fx!Max(S)
  BY DEF Rates!Min, Rates!Max, Parts!Fx!Min, Parts!Fx!Max
<1>3. \A h : Rates!First(h) = Parts!Fx!First(h) /\ Rates!Last(h) = Parts!Fx!Last(h)
  BY <1>2 DEF Rates!First, Rates!Last, Rates!DaysOf, Parts!Fx!First, Parts!Fx!Last, Parts!Fx!DaysOf
<1>4. \A h : Rates!Start(h) = Parts!Fx!Start(h) BY <1>3 DEF Rates!Start, Parts!Fx!Start
<1>5. \A h : Rates!Loads(h) <=> Parts!Fx!Loads(h) BY DEF Rates!Loads, Parts!Fx!Loads
<1>6. \A os : Rates!Mean(os) = Parts!Fx!Mean(os)
  BY DEF Rates!Mean, Rates!MapThenSumSet, Rates!MapThenFoldSet, Rates!Cardinality, Parts!Fx!Mean,
         Parts!Fx!MapThenSumSet, Parts!Fx!MapThenFoldSet, Parts!Fx!Cardinality
<1>7. \A h, c, d : Rates!AsOf(h, c, d) = Parts!Fx!AsOf(h, c, d) BY <1>6 DEF Rates!AsOf, Parts!Fx!AsOf
<1>8. \A h, c, d : Rates!Observed(h, c, d) = Parts!Fx!Observed(h, c, d) BY DEF Rates!Observed, Parts!Fx!Observed
<1>9. \A h, c, d : Rates!Series(h, c, d) = Parts!Fx!Series(h, c, d)
  BY <1>2, <1>3, <1>6, <1>8 DEF Rates!Series, Rates!Null, Parts!Fx!Series, Parts!Fx!Null
<1> QED BY <1>1, <1>3, <1>4, <1>5, <1>7, <1>9

LEMMA RatesStart == Rates!Init => Parts!Fx!IInv
<1>1. Rates!Init => Parts!Fx!Init
  BY DEF Rates!Init, Rates!Idle, Rates!Quiet, Parts!Fx!Init, Parts!Fx!Idle, Parts!Fx!Quiet
<1> QED BY <1>1, RatesAreListed, Parts!RatesInitInv

LEMMA AnswersAreTheirs == \A q \in OnePosting : Rates!Answer(q) => Parts!Fx!Answer(q)
BY TheSameRates DEF Rates!Answer, Rates!Load, Rates!Quiet, Parts!Fx!Answer, Parts!Fx!Load, Parts!Fx!Quiet

LEMMA RatesPlay == Rates!Next => Parts!Fx!Next
<1>1. ASSUME NEW r \in Callers PROVE Rates!Fetch(r) => Parts!Fx!Fetch(r)
  BY TheSameRates DEF Rates!Fetch, Rates!Load, Parts!Fx!Fetch, Parts!Fx!Load
<1>2. ASSUME NEW r \in Callers
      PROVE  /\ Rates!Write(r) => Parts!Fx!Write(r)
             /\ Rates!Backup(r) => Parts!Fx!Backup(r)
             /\ Rates!Abort(r) => Parts!Fx!Abort(r)
  BY DEF Rates!Write, Rates!Backup, Rates!Abort, Rates!Idle, Rates!fileVars, Parts!Fx!Write, Parts!Fx!Backup,
         Parts!Fx!Abort, Parts!Fx!Idle, Parts!Fx!fileVars
<1>3. ASSUME NEW q \in OnePosting PROVE Rates!Refuse(q) => Parts!Fx!Refuse(q)
  BY TheSameRates DEF Rates!Refuse, Rates!Load, Rates!Quiet, Parts!Fx!Refuse, Parts!Fx!Load, Parts!Fx!Quiet
<1>4. ASSUME NEW q \in OnePosting, NEW needed \in Needs PROVE Rates!Ask(q, needed) => Parts!Fx!Ask(q, needed)
  BY TheSameRates DEF Rates!Ask, Rates!Load, Rates!Current, Rates!Null, Parts!Fx!Ask, Parts!Fx!Load,
     Parts!Fx!Current, Parts!Fx!Null
<1>5. /\ Rates!Publish => Parts!Fx!Publish
      /\ Rates!NextDay => Parts!Fx!NextDay
      /\ Rates!Corrupt => Parts!Fx!Corrupt
  BY DEF Rates!Publish, Rates!NextDay, Rates!Corrupt, Rates!fileVars, Parts!Fx!Publish, Parts!Fx!NextDay,
         Parts!Fx!Corrupt, Parts!Fx!fileVars
<1> QED BY <1>1, <1>2, <1>3, <1>4, <1>5, AnswersAreTheirs DEF Rates!Next, Parts!Fx!Next

LEMMA RatesSteps == Parts!Fx!IInv /\ [Rates!Next]_(Rates!vars) => Parts!Fx!IInv'
BY RatesPlay, RatesAreListed, Parts!RatesStepInv
DEF Rates!vars, Rates!fileVars, Parts!Fx!vars, Parts!Fx!fileVars

\* Between the first and the last day of the cache every rate published is in it, and a
\* request that is not refused converts every row, whatever its day, at the rates of that
\* day.
THEOREM EveryAmountHasARateHolds == RecordsSpec => EveryAmountHasARate
<1> DEFINE Inv == scene = "rates" => Parts!Fx!IInv
           Whole == scene = "rates" => Rates!NoHole
           Converts == scene = "rates" => Rates!RequestsAreConverted
<1>1. RecordsInit => Inv BY ScenesPlayTheirParts, RatesStart
<1>2. Inv /\ [RecordsNext]_vars => Inv' BY ScenesPlayTheirParts, RatesSteps
<1>3. Inv => Whole
  <2>1. Parts!Fx!NoHole => Rates!NoHole BY TheSameRates DEF Rates!NoHole, Parts!Fx!NoHole
  <2> QED BY <2>1, Parts!NoHoleInTheFile
<1>4. Inv => Converts
  <2>1. \A h, needed : Parts!Fx!RowsAreConverted(h, needed) => Rates!RowsAreConverted(h, needed)
    <3>1. \A h, d : Rates!Clip(h, d) = Parts!Fx!Clip(h, d) BY TheSameRates DEF Rates!Clip, Parts!Fx!Clip
    <3>2. \A h, c, to, d : Rates!Converted(h, c, to, d) = Parts!Fx!Converted(h, c, to, d)
      BY <3>1, TheSameRates DEF Rates!Converted, Parts!Fx!Converted
    <3> QED
      BY <3>1, <3>2, TheSameRates DEF Rates!RowsAreConverted, Rates!Null, Parts!Fx!RowsAreConverted, Parts!Fx!Null
  <2>2. Parts!Fx!RequestsAreConverted => Rates!RequestsAreConverted
    BY <2>1, AnswersAreTheirs DEF Rates!RequestsAreConverted, Parts!Fx!RequestsAreConverted
  <2> QED BY <2>2, RatesAreListed, Parts!RequestsGetTheirRates
<1>5. Inv => [Converts]_vars BY <1>4
<1> HIDE DEF Inv, Whole, Converts
<1>6. RecordsSpec => []Whole /\ [][Converts]_vars BY <1>1, <1>2, <1>3, <1>5, PTL DEF RecordsSpec
<1> QED BY <1>6 DEF EveryAmountHasARate, Whole, Converts

-----------------------------------------------------------------------------
(* The cash lots.                                                          *)

MoneyProofs == INSTANCE Money_proofs WITH
    Scale <- 2, Starts <- TheFirstTwo, LastDay <- 4,
    balance <- v1, index <- v2, start <- v3, eventful <- v4, reported <- v5, cashLots <- v6, realized <- v7,
    Schemes <- InOrder, Drawdown <- Lowest, Incomes <- Incomes, LastFundingDay <- 2, Funders <- Callers,
    MaxFundings <- 4,
    income <- v1, contributions <- v2, order <- v3, fundingDay <- v4, funding <- v5, happened <- v6

LEMMA CashIsCounted == MoneyProofs!CashIsCounted
BY DEF MoneyProofs!CashIsCounted, Balances, Indices, TheFirstTwo

LEMMA TheSameCash ==
  /\ \A v, d, t : Idle!Growth(v, d, t) = MoneyProofs!Growth(v, d, t)
  /\ \A q, n : Idle!Consume(q, n) = MoneyProofs!Consume(q, n)
  /\ \A q, v, t : Idle!Banked(q, v, t) = MoneyProofs!Banked(q, v, t)
  /\ \A v : Idle!Refused(v) <=> MoneyProofs!Refused(v)
  /\ \A s : Idle!Last(s) = MoneyProofs!Last(s)
  /\ \A b, e : Idle!Reported(b, e) = MoneyProofs!Reported(b, e)
<1>1. \A v, d, t : Idle!Growth(v, d, t) = MoneyProofs!Growth(v, d, t) BY DEF Idle!Growth, MoneyProofs!Growth
<1>2. \A q, n : Idle!Consume(q, n) = MoneyProofs!Consume(q, n)
  BY DEF Idle!Consume, Idle!TakeFrom, Idle!Least, Idle!FoldLeft, Idle!MapThenFoldSet, Idle!Max, MoneyProofs!Consume,
         MoneyProofs!TakeFrom, MoneyProofs!Least, MoneyProofs!FoldLeft, MoneyProofs!MapThenFoldSet, MoneyProofs!Max
<1>3. \A q, v, t : Idle!Banked(q, v, t) = MoneyProofs!Banked(q, v, t)
  BY DEF Idle!Banked, Idle!Growth, Idle!FoldLeft, Idle!MapThenFoldSet, Idle!Max, MoneyProofs!Banked,
         MoneyProofs!Growth, MoneyProofs!FoldLeft, MoneyProofs!MapThenFoldSet, MoneyProofs!Max
<1>4. \A v : Idle!Refused(v) <=> MoneyProofs!Refused(v)
  BY DEF Idle!Refused, Idle!NoPrice, MoneyProofs!Refused, MoneyProofs!NoPrice
<1>5. \A s : Idle!Last(s) = MoneyProofs!Last(s) BY DEF Idle!Last, MoneyProofs!Last
<1>6. \A b, e : Idle!Reported(b, e) = MoneyProofs!Reported(b, e) BY DEF Idle!Reported, MoneyProofs!Reported
<1> QED BY <1>1, <1>2, <1>3, <1>4, <1>5, <1>6

LEMMA CashStart == Idle!Init => MoneyProofs!CashInv
<1>1. Idle!Init => MoneyProofs!Init BY DEF Idle!Init, MoneyProofs!Init
<1> QED BY <1>1, CashIsCounted, MoneyProofs!CashInit

LEMMA CashSteps == MoneyProofs!CashInv /\ [Idle!Next]_(Idle!vars) => MoneyProofs!CashInv'
<1>1. ASSUME NEW amount \in Balances, NEW value \in Indices, NEW event \in BOOLEAN,
             Idle!Day(amount, value, event)
      PROVE  MoneyProofs!Day(amount, value, event)
  BY <1>1, TheSameCash DEF Idle!Day, MoneyProofs!Day
<1>2. Idle!Next => MoneyProofs!Next BY <1>1 DEF Idle!Next, MoneyProofs!Next
<1> QED BY <1>2, CashIsCounted, MoneyProofs!CashStep DEF Idle!vars, MoneyProofs!vars

LEMMA TheSameDollars == MoneyProofs!EveryDollarOnce => Idle!EveryDollarOnce
<1>1. \A d, t : Idle!Open(d, t) = MoneyProofs!Open(d, t)
  BY DEF Idle!Open, Idle!Rise, Idle!CameIn, Idle!WentOut, Idle!Lowest, Idle!Least, Idle!Most, Idle!MapThenSumSet,
         Idle!MapThenFoldSet, Idle!Min, MoneyProofs!Open, MoneyProofs!Rise, MoneyProofs!CameIn, MoneyProofs!WentOut,
         MoneyProofs!Lowest, MoneyProofs!Least, MoneyProofs!Most, MoneyProofs!MapThenSumSet,
         MoneyProofs!MapThenFoldSet, MoneyProofs!Min
<1>2. \A t : Idle!Lowest(t) = MoneyProofs!Lowest(t) BY DEF Idle!Lowest, Idle!Min, MoneyProofs!Lowest, MoneyProofs!Min
<1>3. Idle!Live = MoneyProofs!Live
  BY DEF Idle!Live, Idle!Growth, Idle!FoldLeft, Idle!MapThenFoldSet, Idle!Max, MoneyProofs!Live, MoneyProofs!Growth,
         MoneyProofs!FoldLeft, MoneyProofs!MapThenFoldSet, MoneyProofs!Max
<1>4. \A t : Idle!Kept(t) = MoneyProofs!Kept(t)
  BY DEF Idle!Kept, Idle!Open, Idle!Rise, Idle!CameIn, Idle!WentOut, Idle!Lowest, Idle!Least, Idle!Most,
         Idle!MapThenSumSet, Idle!Min, Idle!FoldLeft, Idle!MapThenFoldSet, Idle!Max, MoneyProofs!Kept,
         MoneyProofs!Open, MoneyProofs!Rise, MoneyProofs!CameIn, MoneyProofs!WentOut, MoneyProofs!Lowest,
         MoneyProofs!Least, MoneyProofs!Most, MoneyProofs!MapThenSumSet, MoneyProofs!Min, MoneyProofs!FoldLeft,
         MoneyProofs!MapThenFoldSet, MoneyProofs!Max
<1>5. Idle!MapThenSumSet(Idle!GainsOn, Idle!Days) = MoneyProofs!MapThenSumSet(MoneyProofs!GainsOn, MoneyProofs!Days)
  BY DEF Idle!GainsOn, Idle!GainOf, Idle!Days, Idle!Growth, Idle!Open, Idle!Rise, Idle!CameIn, Idle!WentOut,
         Idle!Lowest, Idle!Least, Idle!Most, Idle!MapThenSumSet, Idle!MapThenFoldSet, Idle!Min, MoneyProofs!GainsOn,
         MoneyProofs!GainOf, MoneyProofs!Days, MoneyProofs!Growth, MoneyProofs!Open, MoneyProofs!Rise,
         MoneyProofs!CameIn, MoneyProofs!WentOut, MoneyProofs!Lowest, MoneyProofs!Least, MoneyProofs!Most,
         MoneyProofs!MapThenSumSet, MoneyProofs!MapThenFoldSet, MoneyProofs!Min
<1>6. Idle!MapThenSumSet(Idle!MissedOf, Idle!Days) = MoneyProofs!MapThenSumSet(MoneyProofs!MissedOf, MoneyProofs!Days)
  BY DEF Idle!MissedOf, Idle!Days, Idle!Growth, Idle!Open, Idle!Rise, Idle!CameIn, Idle!WentOut, Idle!Lowest,
         Idle!Least, Idle!Most, Idle!MapThenSumSet, Idle!MapThenFoldSet, Idle!Min, MoneyProofs!MissedOf,
         MoneyProofs!Days, MoneyProofs!Growth, MoneyProofs!Open, MoneyProofs!Rise, MoneyProofs!CameIn,
         MoneyProofs!WentOut, MoneyProofs!Lowest, MoneyProofs!Least, MoneyProofs!Most, MoneyProofs!MapThenSumSet,
         MoneyProofs!MapThenFoldSet, MoneyProofs!Min
<1> QED
  BY <1>1, <1>2, <1>3, <1>4, <1>5, <1>6
  DEF Idle!EveryDollarOnce, Idle!LotsAreTheDollars, Idle!GainsAreBanked, Idle!SummaryIsOfTheDollars,
      Idle!SummaryRefused, Idle!Since, Idle!Missed, Idle!NoPrice, Idle!Days, MoneyProofs!EveryDollarOnce,
      MoneyProofs!LotsAreTheDollars, MoneyProofs!GainsAreBanked, MoneyProofs!SummaryIsOfTheDollars,
      MoneyProofs!SummaryRefused, MoneyProofs!Since, MoneyProofs!Missed, MoneyProofs!NoPrice, MoneyProofs!Days

\* Every dollar is in one lot from the day it came until as many dollars as came before it
\* and itself have gone, and what it gained is banked once; the summary is of the dollars
\* still there.
THEOREM EveryDollarOnceHolds == RecordsSpec => []EveryDollarOnce
<1> DEFINE Inv == scene = "cash" => MoneyProofs!CashInv
<1>1. RecordsInit => Inv BY ScenesPlayTheirParts, CashStart
<1>2. Inv /\ [RecordsNext]_vars => Inv' BY ScenesPlayTheirParts, CashSteps
<1>3. Inv => EveryDollarOnce
  BY CashIsCounted, MoneyProofs!EveryDollarFollows, TheSameDollars DEF EveryDollarOnce, MoneyProofs!IInv
<1> QED BY <1>1, <1>2, <1>3, PTL DEF RecordsSpec

-----------------------------------------------------------------------------
(* The money of the goals.                                                 *)

LEMMA SchemesAreSound == MoneyProofs!SchemesAreSound
<1>1. /\ Len(InOrder) = 3 /\ DOMAIN InOrder = 1..3
      /\ InOrder[1] = Rule("g", "percent", 50, 1, 1, 2) /\ InOrder[2] = Rule("h", "fixed", 6, 1, 2, 9)
      /\ InOrder[3] = Rule("g", "remainder", 0, 2, 1, 9)
  BY DEF InOrder
<1>2. Len(Lowest) = 2 /\ DOMAIN Lowest = 1..2 /\ Lowest[1] = "h" /\ Lowest[2] = "g" BY DEF Lowest
<1>3. \A i \in DOMAIN InOrder : i = 1 \/ i = 2 \/ i = 3 BY <1>1
<1>4. \A i \in DOMAIN InOrder : /\ InOrder[i].mode \in {"fixed", "percent", "remainder"}
                               /\ InOrder[i].value \in Nat /\ InOrder[i].from \in Nat \ {0}
                               /\ InOrder[i].every \in Nat \ {0} /\ InOrder[i].until \in Nat
  BY <1>1, <1>3 DEF Rule
<1>5. \A m, n \in DOMAIN Lowest : Lowest[m] = Lowest[n] => m = n BY <1>2
<1>6. Incomes \subseteq Int BY DEF Incomes
<1> QED BY <1>1, <1>2, <1>4, <1>5, <1>6 DEF MoneyProofs!SchemesAreSound

LEMMA TheSameFunding ==
  /\ \A list, ids : Funding!Sum(list, ids) = MoneyProofs!Funds!Sum(list, ids)
  /\ \A list, goal, day : Funding!Balance(list, goal, day) = MoneyProofs!Funds!Balance(list, goal, day)
  /\ \A earned, list, day : Funding!Left(earned, list, day) = MoneyProofs!Funds!Left(earned, list, day)
  /\ \A day : Funding!Due(day) = MoneyProofs!Funds!Due(day)
  /\ \A day : Funding!Additions(day) = MoneyProofs!Funds!Additions(day)
  /\ \A day : Funding!Draws(day) = MoneyProofs!Funds!Draws(day)
  /\ Funding!Sorted = MoneyProofs!Funds!Sorted
<1>1. \A list, ids : Funding!Sum(list, ids) = MoneyProofs!Funds!Sum(list, ids)
  BY DEF Funding!Sum, Funding!FoldFunctionOnSet, Funding!MapThenFoldSet, MoneyProofs!Funds!Sum,
         MoneyProofs!Funds!FoldFunctionOnSet, MoneyProofs!Funds!MapThenFoldSet
<1>2. \A list, day : Funding!Dated(list, day) = MoneyProofs!Funds!Dated(list, day)
  BY DEF Funding!Dated, MoneyProofs!Funds!Dated
<1>3. \A list, goal, day : Funding!Balance(list, goal, day) = MoneyProofs!Funds!Balance(list, goal, day)
  BY <1>1, <1>2 DEF Funding!Balance, MoneyProofs!Funds!Balance
<1>4. \A earned, list, day : Funding!Left(earned, list, day) = MoneyProofs!Funds!Left(earned, list, day)
  BY <1>1, <1>2 DEF Funding!Left, MoneyProofs!Funds!Left
<1>5. \A i, day : /\ Funding!AutoId(i, day) = MoneyProofs!Funds!AutoId(i, day)
                  /\ (Funding!Occurrence(i, day) # 0 <=> MoneyProofs!Funds!Occurrence(i, day) # 0)
  BY DEF Funding!AutoId, Funding!Occurrence, Funding!Min2, MoneyProofs!Funds!AutoId, MoneyProofs!Funds!Occurrence,
         MoneyProofs!Funds!Min2
<1>6. \A day : Funding!Due(day) = MoneyProofs!Funds!Due(day)
  BY <1>5 DEF Funding!Due, Funding!Positions, MoneyProofs!Funds!Due, MoneyProofs!Funds!Positions
<1>7. \A day : Funding!Additions(day) = MoneyProofs!Funds!Additions(day)
  BY DEF Funding!Additions, Funding!Due, Funding!AutoId, Funding!Occurrence, Funding!Funded, Funding!Wanted,
         Funding!Contribution, Funding!Quantized, Funding!Quantum, Funding!Positions, Funding!Cardinality,
         Funding!IsFiniteSet, Funding!Min2, Funding!Unallocated, Funding!Left, Funding!Dated, Funding!Sum,
         Funding!FoldFunctionOnSet, Funding!MapThenFoldSet, MoneyProofs!Funds!Additions, MoneyProofs!Funds!Due,
         MoneyProofs!Funds!AutoId, MoneyProofs!Funds!Occurrence, MoneyProofs!Funds!Funded, MoneyProofs!Funds!Wanted,
         MoneyProofs!Funds!Contribution, MoneyProofs!Funds!Quantized, MoneyProofs!Funds!Quantum,
         MoneyProofs!Funds!Positions, MoneyProofs!Funds!Cardinality, MoneyProofs!Funds!IsFiniteSet,
         MoneyProofs!Funds!Min2, MoneyProofs!Funds!Unallocated, MoneyProofs!Funds!Left, MoneyProofs!Funds!Dated,
         MoneyProofs!Funds!Sum, MoneyProofs!Funds!FoldFunctionOnSet, MoneyProofs!Funds!MapThenFoldSet
<1>8. \A day : Funding!Draws(day) = MoneyProofs!Funds!Draws(day)
  BY DEF Funding!Draws, Funding!Drawn, Funding!DrawId, Funding!Goals, Funding!Balance, Funding!Contribution,
         Funding!Quantized, Funding!Quantum, Funding!Positions, Funding!Cardinality, Funding!IsFiniteSet,
         Funding!Min2, Funding!Unallocated, Funding!Left, Funding!Dated, Funding!Sum, Funding!FoldFunctionOnSet,
         Funding!MapThenFoldSet, MoneyProofs!Funds!Draws, MoneyProofs!Funds!Drawn, MoneyProofs!Funds!DrawId,
         MoneyProofs!Funds!Goals, MoneyProofs!Funds!Balance, MoneyProofs!Funds!Contribution,
         MoneyProofs!Funds!Quantized, MoneyProofs!Funds!Quantum, MoneyProofs!Funds!Positions,
         MoneyProofs!Funds!Cardinality, MoneyProofs!Funds!IsFiniteSet, MoneyProofs!Funds!Min2,
         MoneyProofs!Funds!Unallocated, MoneyProofs!Funds!Left, MoneyProofs!Funds!Dated, MoneyProofs!Funds!Sum,
         MoneyProofs!Funds!FoldFunctionOnSet, MoneyProofs!Funds!MapThenFoldSet
<1>9. Funding!Sorted = MoneyProofs!Funds!Sorted
  BY DEF Funding!Sorted, Funding!Positions, MoneyProofs!Funds!Sorted, MoneyProofs!Funds!Positions
<1> QED BY <1>1, <1>3, <1>4, <1>6, <1>7, <1>8, <1>9

LEMMA FundingStart == Funding!Init => MoneyProofs!Funds!IInv
<1>1. Funding!Init => MoneyProofs!Funds!Init
  BY TheSameFunding DEF Funding!Init, Funding!Idle, MoneyProofs!Funds!Init, MoneyProofs!Funds!Idle
<1> QED BY <1>1, SchemesAreSound, MoneyProofs!FundsInitInv

LEMMA InsertsAreTheirs == \A r \in Callers : Funding!Insert(r) => MoneyProofs!Funds!Insert(r)
BY DEF Funding!Insert, Funding!Overtake, Funding!Idle, MoneyProofs!Funds!Insert, MoneyProofs!Funds!Overtake,
       MoneyProofs!Funds!Idle

LEMMA FundingSteps == MoneyProofs!Funds!IInv /\ [Funding!Next]_(Funding!vars) => MoneyProofs!Funds!IInv'
<1>1. \A days : Funding!Overtake(days) = MoneyProofs!Funds!Overtake(days)
  BY DEF Funding!Overtake, MoneyProofs!Funds!Overtake
<1>2. \A r, kind, new : Funding!Begin(r, kind, new) => MoneyProofs!Funds!Begin(r, kind, new)
  BY DEF Funding!Begin, MoneyProofs!Funds!Begin
<1>3. ASSUME NEW r \in Callers
      PROVE  /\ Funding!Add(r) => MoneyProofs!Funds!Add(r)
             /\ Funding!Draw(r) => MoneyProofs!Funds!Draw(r)
  BY <1>2, TheSameFunding DEF Funding!Add, Funding!Draw, Funding!Unallocated, MoneyProofs!Funds!Add,
     MoneyProofs!Funds!Draw, MoneyProofs!Funds!Unallocated
<1>4. ASSUME NEW new PROVE Funding!Ledger(new) => MoneyProofs!Funds!Ledger(new)
  BY <1>1 DEF Funding!Ledger, Funding!Event, MoneyProofs!Funds!Ledger, MoneyProofs!Funds!Event
<1>5. ASSUME NEW id PROVE Funding!Remove(id) => MoneyProofs!Funds!Remove(id)
  BY <1>1 DEF Funding!Remove, Funding!Event, MoneyProofs!Funds!Remove, MoneyProofs!Funds!Event
<1>6. ASSUME NEW new PROVE Funding!Reorder(new) => MoneyProofs!Funds!Reorder(new)
  BY <1>1 DEF Funding!Reorder, Funding!Event, MoneyProofs!Funds!Reorder, MoneyProofs!Funds!Event
<1>7. Funding!NextDay => MoneyProofs!Funds!NextDay BY DEF Funding!NextDay, MoneyProofs!Funds!NextDay
<1>8. Funding!Next => MoneyProofs!Funds!Next
  BY <1>3, <1>4, <1>5, <1>6, <1>7, InsertsAreTheirs, TheSameFunding DEF Funding!Next, MoneyProofs!Funds!Next
<1> QED BY <1>8, SchemesAreSound, MoneyProofs!FundsStepInv DEF Funding!vars, MoneyProofs!Funds!vars

\* However many runs of one day are computed side by side, the one whose contributions the
\* database takes adds no more than was not allocated, and draws no more than was missing
\* and no goal below zero, but for the rounding of what is stored.
THEOREM FundingStaysInBoundsHolds == RecordsSpec => FundingStaysInBounds
<1> DEFINE Inv == scene = "funding" => MoneyProofs!Funds!IInv
           Bounds == scene = "funding" => Funding!AdditionsStayInThePool /\ Funding!DrawsStayInTheGoals
<1>1. RecordsInit => Inv BY ScenesPlayTheirParts, FundingStart
<1>2. Inv /\ [RecordsNext]_vars => Inv' BY ScenesPlayTheirParts, FundingSteps
<1>3. Inv => Bounds
  <2>1. /\ Funding!Left(v1', v2', v4) = MoneyProofs!Funds!Left(v1', v2', v4)
        /\ \A g : Funding!Balance(v2', g, v4) = MoneyProofs!Funds!Balance(v2', g, v4)
        /\ \A S : Funding!Cardinality(S) = MoneyProofs!Funds!Cardinality(S)
    BY TheSameFunding DEF Funding!Cardinality, MoneyProofs!Funds!Cardinality
  <2>2. MoneyProofs!Funds!AdditionsStayInThePool => Funding!AdditionsStayInThePool
    BY <2>1, InsertsAreTheirs DEF Funding!AdditionsStayInThePool, Funding!Quantum,
       MoneyProofs!Funds!AdditionsStayInThePool, MoneyProofs!Funds!Quantum
  <2>3. MoneyProofs!Funds!DrawsStayInTheGoals => Funding!DrawsStayInTheGoals
    BY <2>1, InsertsAreTheirs DEF Funding!DrawsStayInTheGoals, Funding!Quantum,
       MoneyProofs!Funds!DrawsStayInTheGoals, MoneyProofs!Funds!Quantum
  <2> QED BY <2>2, <2>3, SchemesAreSound, MoneyProofs!AdditionsStay, MoneyProofs!DrawsStay
<1>4. Inv => [Bounds]_vars BY <1>3
<1> HIDE DEF Inv, Bounds
<1>5. RecordsSpec => [][Bounds]_vars BY <1>1, <1>2, <1>4, PTL DEF RecordsSpec
<1> QED BY <1>5 DEF FundingStaysInBounds, Bounds

===============================================================================
