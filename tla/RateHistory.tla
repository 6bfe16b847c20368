----------------------------- MODULE RateHistory -----------------------------
(***************************************************************************)
(* The exchange rates: a cache file of daily rates of every currency into  *)
(* the base currency, which a cron job extends by what the central bank    *)
(* has published since, and the amounts converted with it.  A rate is the  *)
(* mean of the observations of the last days; a row of a dated flow is     *)
(* converted at the rate of its own day, a balance at the rate of today.   *)
(*                                                                         *)
(* Every write of the file is followed by a backup; a file that cannot be  *)
(* read is replaced by its newest backup.  Runs may overlap and end        *)
(* anywhere, and a request reads the file twice.                           *)
(***************************************************************************)
EXTENDS Integers, FiniteSets, FiniteSetsExt

CONSTANTS
    Currencies,     \* but for the base currency
    Base,
    LastDay,        \* bounds the days
    Fixings,        \* of a currency, the days it is published on
    Rate(_, _),     \* of a currency on a day
    History,        \* how many days a first run goes back
    Window,         \* DEFAULT_SMOOTHING_WINDOW_DAYS
    Runs, MaxRuns,
    Requests,
    Needs           \* the currencies a request may be about

VARIABLES
    today, out,     \* the day, and whether its rates are published
    file,           \* the observations cached: <<currency, day>>
    readable,       \* can the file be parsed?
    backup,         \* what its newest backup holds; a set of such files, empty without one
    run, runs,      \* where each run is, and how many there were
    request         \* where each request is

fileVars == <<file, readable, backup>>
vars == <<today, out, fileVars, run, runs, request>>

Days == 1 .. LastDay
Published == {o \in Currencies \X Days : o[2] \in Fixings[o[1]] /\ (o[2] < today \/ (o[2] = today /\ out))}

DaysOf(h) == {o[2] : o \in h}
First(h) == Min(DaysOf(h))
Last(h) == Max(DaysOf(h))

Idle == [at |-> "idle", new |-> {}]
Quiet == [at |-> "quiet", needed |-> {}, day |-> 0]

Init ==
    /\ today = History + 1 /\ out = FALSE
    /\ file = {} /\ readable = TRUE /\ backup = {}
    /\ run = [r \in Runs |-> Idle] /\ runs = 0
    /\ request = [q \in Requests |-> Quiet]

-----------------------------------------------------------------------------
(* A run of the job.                                                       *)

\* load_rate_history: a file that cannot be parsed is restored, if there is a backup.
Loads(h) == IF readable THEN h = file ELSE h \in backup
Load(h) == Loads(h) /\ file' = h /\ readable' = TRUE

\* From the day after the last one cached, or the whole history.
Start(existing) == IF existing = {} THEN today - History ELSE Last(existing) + 1

\* update_rate_history_cache up to its write: nothing is asked for if the cache is
\* current, and nothing is written if there is nothing new.
Fetch(r) ==
    \E existing \in {file} \cup backup :
        LET fetched == {o \in Published : o[2] >= Start(existing)}
        IN  /\ run[r].at = "idle" /\ runs < MaxRuns /\ runs' = runs + 1
            /\ Load(existing)
            /\ run' = IF fetched = {} THEN run
                      ELSE [run EXCEPT ![r] = [at |-> "fetched", new |-> existing \cup fetched]]
            /\ UNCHANGED <<today, out, backup, request>>

\* write_csv_atomic.
Write(r) ==
    /\ run[r].at = "fetched"
    /\ file' = run[r].new /\ readable' = TRUE
    /\ run' = [run EXCEPT ![r] = [at |-> "written", new |-> {}]]
    /\ UNCHANGED <<today, out, backup, runs, request>>

\* backup_cache_file, of what the file holds by then.
Backup(r) ==
    /\ run[r].at = "written"
    /\ readable
    /\ backup' = {file}
    /\ run' = [run EXCEPT ![r] = Idle]
    /\ UNCHANGED <<today, out, file, readable, runs, request>>

\* The provider, the disk or the bucket refuses, or the job is killed.
Abort(r) ==
    /\ run[r].at # "idle"
    /\ run' = [run EXCEPT ![r] = Idle]
    /\ UNCHANGED <<today, out, fileVars, runs, request>>

-----------------------------------------------------------------------------
(* Rates.  A mean is a pair of a sum and a number, and null is <<0, 0>>.   *)

Null == <<0, 0>>

\* The window of a rolling mean leaves out its own left edge.
Observed_OpenWindow(h, c, d) == {o \in h : o[1] = c /\ o[2] > d - Window /\ o[2] <= d}

Observed(h, c, d) == {o \in h : o[1] = c /\ o[2] >= d - Window /\ o[2] <= d}
Mean(os) == LET rate(o) == Rate(o[1], o[2]) IN <<MapThenSumSet(rate, os), Cardinality(os)>>

\* smoothed_rate_as_of.
AsOf(h, c, d) == IF c = Base THEN <<1, 1>> ELSE Mean({o \in h : o[1] = c /\ o[2] \in (d - Window) .. d})

\* current_rates_to_base: refused if a currency has no rate.
Current(h, needed) == \A c \in needed : AsOf(h, c, today) # Null

\* smoothed_rate_series, on a day between the first and the last of the cache: without an
\* observation in its window it is the next mean there is.
Series(h, c, d) ==
    LET known == {e \in d .. Last(h) : Observed(h, c, e) # {}}
    IN  IF c = Base THEN <<1, 1>> ELSE IF known = {} THEN Null ELSE Mean(Observed(h, c, Min(known)))

\* with_converted_amount: the rate of a row of currency c on day d into the currency to; a
\* day outside the cache is the nearest one inside.
Clip(h, d) == IF d < First(h) THEN First(h) ELSE IF d > Last(h) THEN Last(h) ELSE d
Converted(h, c, to, d) ==
    LET rate == Series(h, c, Clip(h, d))
        into == Series(h, to, Clip(h, d))
    IN  <<rate[1] * into[2], rate[2] * into[1]>>

-----------------------------------------------------------------------------
(* A request that converts dated rows: _flow_display_currency.             *)

\* Its first reading of the file, for the rates of today.
Ask(q, needed) ==
    \E h \in {file} \cup backup :
        /\ request[q].at = "quiet"
        /\ Load(h)
        /\ request' = IF Current(h, needed \ {Base}) THEN [request EXCEPT ![q] = [at |-> "asking", needed |-> needed, day |-> today]]
                      ELSE request
        /\ UNCHANGED <<today, out, backup, run, runs>>

\* Its second, for those of each day; refused if a currency has none.
Answer(q) ==
    \E h \in {file} \cup backup :
        /\ request[q].at = "asking"
        /\ Load(h)
        /\ \A c \in request[q].needed \ {Base} : \E o \in h : o[1] = c
        /\ request' = [request EXCEPT ![q] = Quiet]
        /\ UNCHANGED <<today, out, backup, run, runs>>

Refuse(q) ==
    \E h \in {file} \cup backup :
        /\ request[q].at = "asking"
        /\ Load(h)
        /\ \E c \in request[q].needed \ {Base} : \A o \in h : o[1] # c
        /\ request' = [request EXCEPT ![q] = Quiet]
        /\ UNCHANGED <<today, out, backup, run, runs>>

-----------------------------------------------------------------------------
(* The world.                                                              *)

\* In the afternoon: a request that began on the day before is long over.
Publish ==
    /\ ~out /\ out' = TRUE
    /\ \A q \in Requests : request[q].at = "asking" => request[q].day = today
    /\ UNCHANGED <<today, fileVars, run, runs, request>>

NextDay ==
    /\ out /\ today < LastDay
    /\ today' = today + 1 /\ out' = FALSE
    /\ UNCHANGED <<fileVars, run, runs, request>>

Corrupt ==
    /\ readable /\ file # {}
    /\ readable' = FALSE
    /\ UNCHANGED <<today, out, file, backup, run, runs, request>>

Next ==
    \/ \E r \in Runs : Fetch(r) \/ Write(r) \/ Backup(r) \/ Abort(r)
    \/ \E q \in Requests : Answer(q) \/ Refuse(q) \/ \E needed \in Needs : Ask(q, needed)
    \/ Publish \/ NextDay \/ Corrupt

Spec == Init /\ [][Next]_vars

-----------------------------------------------------------------------------
(* Properties.                                                             *)

\* The file and its backup hold what was published; a backup is of the file.
TypeOK ==
    /\ today \in Days /\ file \subseteq Published
    /\ backup \subseteq SUBSET Published /\ Cardinality(backup) <= 1
    /\ \A r \in Runs : run[r].at \in {"idle", "fetched", "written"} /\ run[r].new \subseteq Published
    /\ \A q \in Requests : request[q].at \in {"quiet", "asking"}

\* No hole: between the first and the last day of the cache every rate published is in
\* it, whichever runs overlapped or died and whatever was restored.
NoHole == \A o \in Published : file # {} /\ o[2] \in First(file) .. Last(file) => o \in file

\* What is converted: every row has a rate, whatever its day; a
\* row in the display currency keeps its amount; and a day with observations in its window
\* is converted at the rates smoothed_rate_as_of has for it.
RowsAreConverted(h, needed) ==
    \A c, to \in needed, d \in 0 .. LastDay + 1 :
        LET rate == Converted(h, c, to, d)
            own == AsOf(h, c, Clip(h, d))
            into == AsOf(h, to, Clip(h, d))
        IN  /\ rate[1] > 0 /\ rate[2] > 0
            /\ c = to => rate[1] = rate[2]
            /\ Null \notin {own, into} => rate[1] * own[2] * into[1] = rate[2] * own[1] * into[2]

\* A request that is not refused converts every row it has.
RequestsAreConverted ==
    \A q \in Requests : Answer(q) /\ request[q].needed # {Base} => RowsAreConverted(file', request[q].needed)

-----------------------------------------------------------------------------
(* What the properties rest on.                                            *)

HasNoHole(h) ==
    /\ h \subseteq Published
    /\ \A o \in Published : h # {} /\ o[2] \in First(h) .. Last(h) => o \in h

\* Since a request read the rates of its day nothing was published that is later, and
\* each currency it is about had a rate then.
AskedInTime(a) ==
    a.at = "asking" =>
       /\ a.day = today \/ (a.day = today - 1 /\ ~out)
       /\ \A c \in a.needed \ {Base} : \E o \in Published : o[1] = c /\ o[2] >= a.day - Window

IInv ==
    /\ today \in Nat /\ out \in BOOLEAN
    /\ HasNoHole(file)
    /\ \A h \in backup : HasNoHole(h)
    /\ DOMAIN run = Runs /\ DOMAIN request = Requests
    /\ \A r \in Runs : run[r].at = "fetched" => HasNoHole(run[r].new)
    /\ \A q \in Requests : AskedInTime(request[q])

=============================================================================
