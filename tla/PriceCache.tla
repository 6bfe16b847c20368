----------------------------- MODULE PriceCache -----------------------------
(***************************************************************************)
(* The cached daily closes of one symbol, refreshed by a cron job several  *)
(* times a day.  The provider answers with a live price until the market   *)
(* closes and with the close afterwards, and has nothing for some days.    *)
(*                                                                         *)
(* Every write of the cache file is followed by a backup of it; a file     *)
(* that cannot be read is replaced by its newest backup.  A run may end    *)
(* anywhere, and two runs may overlap.                                     *)
(***************************************************************************)
EXTENDS Integers, FiniteSets

CONSTANTS
    LastDay,        \* bounds the days
    Holidays,       \* days without a price
    Buffer,         \* _SETTLEMENT_BUFFER_DAYS
    Retention,      \* how many backups are kept
    Runs,
    MaxRuns         \* how many runs there are

VARIABLES
    today, closed,  \* the day, and whether the market has closed
    file,           \* day -> the cached price
    readable,       \* can the file be parsed?
    backups,        \* the versions kept: number -> file
    taken,          \* how many backups were taken
    run,            \* where each run is
    started,        \* how many runs there were
    clean,          \* history: the days on which a run wrote all the provider had
    disturbed       \* history: was a newer file replaced by what an older one held?

fileVars == <<file, readable>>
vars == <<today, closed, fileVars, backups, taken, run, started, clean, disturbed>>

Days == 1 .. LastDay
Prices == {"none", "live", "close"}
Empty == [d \in Days |-> "none"]
Cached(f) == {d \in Days : f[d] # "none"}

\* fetch_price_history, for one day.
Offered(d) ==
    IF d \in Holidays \/ d > today THEN "none"
    ELSE IF d < today \/ closed THEN "close" ELSE "live"

Idle == [at |-> "idle", day |-> 0, new |-> Empty, whole |-> FALSE, stale |-> FALSE]

Init ==
    /\ today = 1 /\ closed \in BOOLEAN
    /\ file = Empty /\ readable = TRUE
    /\ backups = <<>> /\ taken = 0
    /\ run = [r \in Runs |-> Idle] /\ started = 0
    /\ clean = {} /\ disturbed = FALSE

-----------------------------------------------------------------------------
(* A run.                                                                  *)

\* What is cached counts as settled.
SettledIn_Cached(existing) == Cached(existing)

SettledIn(existing) == {d \in Cached(existing) : d <= today - Buffer}

\* _missing_ranges: what is before and behind the settled days of the cache.
Missing(existing) ==
    LET settled == SettledIn(existing)
    IN  {d \in 1 .. today : (\A s \in settled : d < s) \/ (\A s \in settled : d > s)}

Merged(existing, fetched) == [d \in Days |-> IF d \in fetched /\ Offered(d) # "none" THEN Offered(d) ELSE existing[d]]

Newest == CHOOSE n \in DOMAIN backups : \A m \in DOMAIN backups : m <= n

\* update_price_cache, up to its write: load what there is, fetch what is missing or
\* not settled.  The provider may leave out some of the days it was asked for.
Refresh(r, withheld) ==
    LET existing == IF readable THEN file ELSE backups[Newest]
        fetched  == Missing(existing) \ withheld
    IN  /\ run[r].at = "idle" /\ started < MaxRuns
        /\ readable \/ backups # <<>>
        /\ started' = started + 1
        /\ file' = existing /\ readable' = TRUE
        /\ disturbed' = (disturbed \/ existing # file)
        /\ run' = IF \A d \in fetched : Offered(d) = "none" THEN run
                  ELSE [run EXCEPT ![r] = [at |-> "fetched", day |-> today, new |-> Merged(existing, fetched),
                                           whole |-> withheld \cap Missing(existing) = {}, stale |-> FALSE]]
        /\ UNCHANGED <<today, closed, backups, taken, clean>>

\* write_csv_atomic.
Write(r) ==
    /\ run[r].at = "fetched"
    /\ file' = run[r].new /\ readable' = TRUE
    /\ clean' = IF run[r].whole THEN clean \cup {run[r].day} ELSE clean
    /\ disturbed' = (disturbed \/ run[r].stale)
    /\ run' = [s \in Runs |-> IF s = r THEN [run[r] EXCEPT !.at = "written"] ELSE [run[s] EXCEPT !.stale = TRUE]]
    /\ UNCHANGED <<today, closed, backups, taken, started>>

\* backup_cache_file: a new version of what the file holds, then the oldest go.
Backup(r) ==
    LET versions == [n \in DOMAIN backups \cup {taken + 1} |-> IF n = taken + 1 THEN file ELSE backups[n]]
    IN  /\ run[r].at = "written" /\ readable
        /\ backups' = [n \in {m \in DOMAIN versions : m > taken + 1 - Retention} |-> versions[n]]
        /\ taken' = taken + 1
        /\ run' = [run EXCEPT ![r] = Idle]
        /\ UNCHANGED <<today, closed, fileVars, started, clean, disturbed>>

\* The provider, the disk or the bucket refuses, or the job ends.
Abort(r) ==
    /\ run[r].at # "idle"
    /\ run' = [run EXCEPT ![r] = Idle]
    /\ UNCHANGED <<today, closed, fileVars, backups, taken, started, clean, disturbed>>

-----------------------------------------------------------------------------
(* The world.                                                              *)

Close == ~closed /\ closed' = TRUE /\ UNCHANGED <<today, fileVars, backups, taken, run, started, clean, disturbed>>

NextDay ==
    /\ today < LastDay /\ closed
    /\ today' = today + 1 /\ closed' = FALSE
    /\ UNCHANGED <<fileVars, backups, taken, run, started, clean, disturbed>>

Corrupt ==
    /\ readable /\ Cached(file) # {}
    /\ readable' = FALSE
    /\ UNCHANGED <<today, closed, file, backups, taken, run, started, clean, disturbed>>

Next ==
    \/ \E r \in Runs : \E withheld \in {{}, {today}, {today - 1}} : Refresh(r, withheld)
    \/ \E r \in Runs : Write(r) \/ Backup(r) \/ Abort(r)
    \/ Close \/ NextDay \/ Corrupt

Spec == Init /\ [][Next]_vars

-----------------------------------------------------------------------------
(* Properties.                                                             *)

TypeOK ==
    /\ file \in [Days -> Prices]
    /\ Cardinality(DOMAIN backups) <= Retention
    /\ \A n \in DOMAIN backups : n \in 1 .. taken /\ backups[n] \in [Days -> Prices]
    /\ \A r \in Runs : run[r].at \in {"idle", "fetched", "written"}

\* A price that was still moving when it was cached does not outlive a run that gets
\* all it asks for on one of the days it is always fetched again: Buffer - 1 days after
\* its own.  A file restored from its backup does not undo that, as long as the run
\* overlaps no other and the backup is not missing (missing_ranges, the merge and the
\* backup together).
LivePricesSettle ==
    ~disturbed => \A d \in Days : file[d] = "live" => clean \cap (d + 1 .. d + Buffer - 1) = {}

\* The strengthening every step preserves.  What a run is about to write has settled as
\* the file has, if nothing was written since it read the file: what it did not fetch is
\* the file's, what it fetched moves only on the run's own day.  A run that got all it
\* asked for has fetched the Buffer - 1 days before that.
Settled(f, days) == \A d \in Days : f[d] = "live" => d \notin Holidays /\ days \cap (d + 1 .. d + Buffer - 1) = {}
Visits(r) == clean \cup (IF run[r].whole THEN {run[r].day} ELSE {})

FetchedHasSettled ==
    ~disturbed => /\ Settled(file, clean)
                  /\ \A r \in Runs : run[r].at = "fetched" /\ ~run[r].stale => Settled(run[r].new, Visits(r))

IsARun(x) ==
    /\ x = [at |-> x.at, day |-> x.day, new |-> x.new, whole |-> x.whole, stale |-> x.stale]
    /\ x.at \in {"idle", "fetched", "written"} /\ x.day \in 0 .. today /\ x.whole \in BOOLEAN /\ x.stale \in BOOLEAN

IInv ==
    /\ today \in Days /\ closed \in BOOLEAN /\ clean \subseteq 1 .. today /\ disturbed \in BOOLEAN
    /\ DOMAIN run = Runs /\ run = [r \in Runs |-> run[r]] /\ \A r \in Runs : IsARun(run[r])
    /\ \A r \in Runs : run[r].at = "fetched" => run[r].day > 0
    /\ FetchedHasSettled

=============================================================================
