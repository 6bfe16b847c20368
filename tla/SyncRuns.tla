------------------------------ MODULE SyncRuns ------------------------------
(***************************************************************************)
(* Background broker syncs: the rows of trades.sync_runs, the requests     *)
(* that start a run, the thread pool inside the API process that executes  *)
(* it, and the process's own life (src/src/trades/api/sync_runs.py,        *)
(* routers/sync.py, and the lifespan handler of dependencies.py).          *)
(*                                                                         *)
(* A row survives the process; requests, the pool and its queue do not.    *)
(* The partial unique index uq_sync_runs_active_user lets a user have one  *)
(* queued or running row.  Every write of a row is a transaction of its    *)
(* own, and any of them may raise.                                         *)
(***************************************************************************)
EXTENDS Naturals, Sequences, FiniteSets

CONSTANTS
    Users,
    Requests,    \* threads that serve POST /sync-runs
    MaxRuns,     \* bound: rows created in one behaviour
    PoolSize,    \* MAX_CONCURRENT_SYNCS
    MaxStops,    \* bound: times the process is stopped or killed
    MaxFaults    \* bound: writes of a row that fail

ASSUME BoundsAssumption == MaxRuns \in Nat /\ MaxStops \in Nat /\ MaxFaults \in Nat
ASSUME UsersAssumption == "nobody" \notin Users
ASSUME PoolAssumption == PoolSize \in Nat \ {0}

Runs == 1 .. MaxRuns       \* ids are time-ordered (UUIDv7)
NoRun == 0
Nobody == "nobody"

VARIABLES
    proc,     \* the API process: down, swept, serving, stopping
    state,    \* per run, SyncRun.state; "none" for a row that does not exist
    owner,    \* per run, SyncRun.user_id
    pc,       \* per request, where its handler stands
    by,       \* per request, the user it acts for
    made,     \* per request, the run it created
    armed,    \* per request, whether its transaction has app.current_user_id set
    answer,   \* per request, the HTTP status of its last answer
    jobs,     \* the pool's queue
    task,     \* per run, what the pool thread executing it does next
    stops,    \* shutdowns and crashes so far (bounded)
    faults    \* failed writes so far (bounded)

rowVars  == <<state, owner>>
reqVars  == <<pc, by, made, armed, answer>>
poolVars == <<jobs, task>>
vars     == <<proc, rowVars, reqVars, poolVars, stops, faults>>

Active   == {"queued", "running"}          \* ACTIVE_SYNC_RUN_STATES
Ended    == {"succeeded", "failed"}
Executing == {n \in Runs : task[n] # "none"}
ActiveRuns(u) == {n \in Runs : owner[n] = u /\ state[n] \in Active}
Unused == {n \in Runs : state[n] = "none"}
Up == proc \in {"serving", "stopping"}

Init ==
    /\ proc = "down"
    /\ state = [n \in Runs |-> "none"]
    /\ owner = [n \in Runs |-> Nobody]
    /\ pc = [q \in Requests |-> "idle"]
    /\ by = [q \in Requests |-> Nobody]
    /\ made = [q \in Requests |-> NoRun]
    /\ armed = [q \in Requests |-> TRUE]
    /\ answer = [q \in Requests |-> "none"]
    /\ jobs = <<>>
    /\ task = [n \in Runs |-> "none"]
    /\ stops = 0
    /\ faults = 0

\* One transaction that sets the state of run n, whatever it was.  It may raise,
\* and if it was the answer to its COMMIT that was lost, it has happened.
Wrote(n, s) == state' = [state EXCEPT ![n] = s] /\ UNCHANGED <<owner, faults>>
WriteRaises(n, s) ==
    /\ faults < MaxFaults /\ faults' = faults + 1
    /\ state' \in {state, [state EXCEPT ![n] = s]}
    /\ UNCHANGED owner
-----------------------------------------------------------------------------
(* The process                                                             *)

\* Mutant of Sweep: a second replica boots, and sweeps, beside a serving one.
Sweep_SecondReplica ==
    /\ proc \in {"down", "serving"}
    /\ proc' = IF proc = "down" THEN "swept" ELSE proc
    /\ state' = [n \in Runs |-> IF state[n] \in Active THEN "failed" ELSE state[n]]
    /\ UNCHANGED <<owner, reqVars, poolVars, stops, faults>>

\* fail_interrupted_runs: at startup, no run that is still active has an executor.
Sweep ==
    /\ proc = "down"
    /\ proc' = "swept"
    /\ state' = [n \in Runs |-> IF state[n] \in Active THEN "failed" ELSE state[n]]
    /\ UNCHANGED <<owner, reqVars, poolVars, stops, faults>>

\* runner.start, and the first request may arrive.
Open ==
    /\ proc = "swept"
    /\ proc' = "serving"
    /\ UNCHANGED <<rowVars, reqVars, poolVars, stops, faults>>

\* runner.shutdown begins: the pool takes no more jobs and finishes those it has.
Shutdown ==
    /\ proc = "serving" /\ stops < MaxStops
    /\ proc' = "stopping"
    /\ stops' = stops + 1
    /\ UNCHANGED <<rowVars, reqVars, poolVars, faults>>

MemoryLost ==
    /\ proc' = "down"
    /\ pc' = [q \in Requests |-> "idle"]
    /\ by' = [q \in Requests |-> Nobody]
    /\ made' = [q \in Requests |-> NoRun]
    /\ armed' = [q \in Requests |-> TRUE]
    /\ answer' = [q \in Requests |-> "none"]
    /\ jobs' = <<>>
    /\ task' = [n \in Runs |-> "none"]

\* shutdown(wait=True) returns once no job is queued or executing.
Stopped ==
    /\ proc = "stopping" /\ jobs = <<>> /\ Executing = {}
    /\ MemoryLost
    /\ UNCHANGED <<rowVars, stops, faults>>

\* The container is killed, perhaps in the middle of a shutdown that takes too
\* long: whatever was executing is gone, its row is not.
Crash ==
    /\ proc # "down"
    /\ \/ proc = "stopping" /\ UNCHANGED stops
       \/ proc # "stopping" /\ stops < MaxStops /\ stops' = stops + 1
    /\ MemoryLost
    /\ UNCHANGED <<rowVars, faults>>
-----------------------------------------------------------------------------
(* POST /sync-runs                                                         *)

Insert(n, u) ==
    /\ \A m \in Unused : n <= m
    /\ state' = [state EXCEPT ![n] = "queued"]
    /\ owner' = [owner EXCEPT ![n] = u]

\* start_run: the insert of a queued row commits; or its commit raises, whether
\* or not the row is there; or the unique index refuses it, and the rollback
\* that follows takes the row-level-security user with it.
Post(q, u) ==
    /\ Up /\ pc[q] = "idle"
    /\ by' = [by EXCEPT ![q] = u]
    /\ \/ /\ ActiveRuns(u) = {}
          /\ \E n \in Unused : Insert(n, u) /\ made' = [made EXCEPT ![q] = n]
          /\ pc' = [pc EXCEPT ![q] = "submit"]
          /\ UNCHANGED <<armed, answer, faults>>
       \/ /\ ActiveRuns(u) = {} /\ faults < MaxFaults
          /\ \/ \E n \in Unused : Insert(n, u)
             \/ UNCHANGED rowVars
          /\ faults' = faults + 1
          /\ pc' = [pc EXCEPT ![q] = "answered"]
          /\ answer' = [answer EXCEPT ![q] = "500"]
          /\ UNCHANGED <<made, armed>>
       \/ /\ ActiveRuns(u) # {}
          /\ pc' = [pc EXCEPT ![q] = "lookup"]
          /\ armed' = [armed EXCEPT ![q] = FALSE]
          /\ UNCHANGED <<rowVars, made, answer, faults>>
    /\ UNCHANGED <<proc, poolVars, stops>>

\* What the request's session can read: nothing at all without the variable.
Readable(q) == IF armed[q] THEN ActiveRuns(by[q]) ELSE {}

\* The SELECT for the run in flight: SyncAlreadyRunningError names it, a 409; or
\* there is none, and the IntegrityError is raised again.
Lookup(q) ==
    /\ pc[q] = "lookup"
    /\ answer' = [answer EXCEPT ![q] = IF Readable(q) # {} THEN "409" ELSE "500"]
    /\ pc' = [pc EXCEPT ![q] = "answered"]
    /\ UNCHANGED <<proc, rowVars, by, made, armed, poolVars, stops, faults>>

Answer(q, status) ==
    /\ pc' = [pc EXCEPT ![q] = "answered"]
    /\ answer' = [answer EXCEPT ![q] = status]
    /\ UNCHANGED <<by, made, armed>>

\* Mutant of Submit: no handler around a refused submit.
Submit_RefusalEscapes(q) ==
    /\ pc[q] = "submit"
    /\ \/ proc = "serving" /\ jobs' = Append(jobs, made[q]) /\ Answer(q, "202")
       \/ proc = "stopping" /\ Answer(q, "500") /\ UNCHANGED jobs
    /\ UNCHANGED <<proc, rowVars, task, stops, faults>>

\* Mutant of Submit: what follows a submit can fail into the same handler, so
\* that a run is closed and its job still queued.
Submit_ClosedAfterAll(q) ==
    /\ pc[q] = "submit"
    /\ \/ proc = "serving" /\ jobs' = Append(jobs, made[q]) /\ Answer(q, "202")
       \/ /\ jobs' = IF proc = "serving" THEN Append(jobs, made[q]) ELSE jobs
          /\ pc' = [pc EXCEPT ![q] = "close"] /\ UNCHANGED <<by, made, armed, answer>>
    /\ UNCHANGED <<proc, rowVars, task, stops, faults>>

\* runner.submit: the pool takes the job, or raises because it is shutting down.
Submit(q) ==
    /\ pc[q] = "submit"
    /\ \/ proc = "serving" /\ jobs' = Append(jobs, made[q]) /\ Answer(q, "202")
       \/ /\ proc = "stopping"
          /\ pc' = [pc EXCEPT ![q] = "close"]
          /\ UNCHANGED <<by, made, armed, answer, jobs>>
    /\ UNCHANGED <<proc, rowVars, task, stops, faults>>

\* The handler of that exception: fail_run, then 503.
CloseRun(q) ==
    /\ pc[q] = "close"
    /\ \/ Wrote(made[q], "failed") /\ Answer(q, "503")
       \/ WriteRaises(made[q], "failed") /\ Answer(q, "500")
    /\ UNCHANGED <<proc, poolVars, stops>>

\* The thread is free for the next request.
Respond(q) ==
    /\ pc[q] = "answered"
    /\ pc' = [pc EXCEPT ![q] = "idle"]
    /\ by' = [by EXCEPT ![q] = Nobody]
    /\ made' = [made EXCEPT ![q] = NoRun]
    /\ armed' = [armed EXCEPT ![q] = TRUE]
    /\ answer' = [answer EXCEPT ![q] = "none"]
    /\ UNCHANGED <<proc, rowVars, poolVars, stops, faults>>
-----------------------------------------------------------------------------
(* _execute_run, on a thread of the pool                                   *)

Goes(n, phase) == task' = [task EXCEPT ![n] = phase]

\* A free thread takes the oldest job.
Pick ==
    /\ Up /\ jobs # <<>> /\ Cardinality(Executing) < PoolSize
    /\ Goes(Head(jobs), "begin")
    /\ jobs' = Tail(jobs)
    /\ UNCHANGED <<proc, rowVars, reqVars, stops, faults>>

\* Mutant of Begin: the step shown to the user is written into the state.
Begin_StepIntoState(n) ==
    /\ task[n] = "begin"
    /\ \/ Wrote(n, "Connecting to IBKR") /\ Goes(n, "sync")
       \/ WriteRaises(n, "Connecting to IBKR") /\ Goes(n, "fail")
    /\ UNCHANGED <<proc, reqVars, jobs, stops>>

\* begin_run.
Begin(n) ==
    /\ task[n] = "begin"
    /\ \/ Wrote(n, "running") /\ Goes(n, "sync")
       \/ WriteRaises(n, "running") /\ Goes(n, "fail")
    /\ UNCHANGED <<proc, reqVars, jobs, stops>>

\* _run_sync returns, whether its broker leg worked or not, or raises outside the leg.
Sync(n) ==
    /\ task[n] = "sync"
    /\ \E phase \in {"finish", "fail"} : Goes(n, phase)
    /\ UNCHANGED <<proc, rowVars, reqVars, jobs, stops, faults>>

\* finish_run: succeeded, whatever the legs reported.
Finish(n) ==
    /\ task[n] = "finish"
    /\ \/ Wrote(n, "succeeded") /\ Goes(n, "none")
       \/ WriteRaises(n, "succeeded") /\ Goes(n, "fail")
    /\ UNCHANGED <<proc, reqVars, jobs, stops>>

\* Mutant of Fail: the outer except only logs.
Fail_OnlyLogs(n) ==
    /\ task[n] = "fail"
    /\ Goes(n, "none")
    /\ UNCHANGED <<proc, rowVars, reqVars, jobs, stops, faults>>

\* The outer except: fail_run, and what that raises the executor swallows.
Fail(n) ==
    /\ task[n] = "fail"
    /\ \/ Wrote(n, "failed")
       \/ WriteRaises(n, "failed")
    /\ Goes(n, "none")
    /\ UNCHANGED <<proc, reqVars, jobs, stops>>
-----------------------------------------------------------------------------
Serve(q)   == Lookup(q) \/ Submit(q) \/ CloseRun(q) \/ Respond(q)
Execute(n) == Begin(n) \/ Sync(n) \/ Finish(n) \/ Fail(n)
Boot       == Sweep \/ Open

Next ==
    \/ Boot \/ Shutdown \/ Stopped \/ Crash \/ Pick
    \/ \E q \in Requests : Serve(q) \/ \E u \in Users : Post(q, u)
    \/ \E n \in Runs : Execute(n)

Spec == Init /\ [][Next]_vars

\* Threads run; the container is restarted when it ends (restart:
\* unless-stopped); a broker pull is a bounded number of bounded polls.  Nobody
\* is obliged to start a sync or to stop the process.
Fairness ==
    /\ WF_vars(Boot) /\ WF_vars(Stopped) /\ WF_vars(Pick)
    /\ \A q \in Requests : WF_vars(Serve(q))
    /\ \A n \in Runs : WF_vars(Execute(n))

FairSpec == Spec /\ Fairness
-----------------------------------------------------------------------------
(* Properties                                                              *)

TypeOK ==
    /\ proc \in {"down", "swept", "serving", "stopping"}
    /\ state \in [Runs -> {"none"} \cup Active \cup Ended]
    /\ owner \in [Runs -> Users \cup {Nobody}]
    /\ pc \in [Requests -> {"idle", "lookup", "submit", "close", "answered"}]
    /\ by \in [Requests -> Users \cup {Nobody}]
    /\ made \in [Requests -> Runs \cup {NoRun}]
    /\ armed \in [Requests -> BOOLEAN]
    /\ answer \in [Requests -> {"none", "202", "409", "500", "503"}]
    /\ jobs \in Seq(Runs)
    /\ task \in [Runs -> {"none", "begin", "sync", "finish", "fail"}]
    /\ stops \in 0 .. MaxStops
    /\ faults \in 0 .. MaxFaults

InQueue(n)   == \E i \in DOMAIN jobs : jobs[i] = n
Starting(n)  == \E q \in Requests : made[q] = n /\ pc[q] \in {"submit", "close"}
Owned(n)     == InQueue(n) \/ task[n] # "none" \/ Starting(n)

\* No run holds its user's one slot with nobody left to close it: while the
\* process serves, an active row is being started, queued or executed.
ActiveRunIsOwned == proc # "down" => \A n \in Runs : state[n] \in Active => Owned(n)

\* _execute_run's promise: nothing that happens to it leaves the row saying running
\* once no thread executes the run.
RunningRunIsExecuted == proc # "down" => \A n \in Runs : state[n] = "running" => task[n] # "none"

\* As far as the writes of the rows succeed, every active run is owned.
OwnedUnlessAWriteFailed == faults = 0 => ActiveRunIsOwned

Pulling(n) == InQueue(n) \/ task[n] \in {"begin", "sync", "finish"}

\* A user's account is never pulled twice at once, whatever writes fail: a run
\* in the pool still holds the user's slot, and no other of theirs is there.
OneSyncPerUser ==
    \A n \in Runs : Pulling(n) =>
        state[n] \in Active /\ \A m \in Runs \ {n} : Pulling(m) => owner[m] # owner[n]

\* A run that has ended stays as it ended, although no write of a row looks at
\* the state it overwrites; as far as the writes of the rows succeed.
EndedRunsStayEnded ==
    [][\A n \in Runs : faults = 0 /\ state[n] \in Ended => state'[n] = state[n]]_vars

\* A second start while one is in flight is answered with a 409 that names the run.
SecondStartIs409 == \A q \in Requests : pc[q] = "answered" /\ made[q] = NoRun => answer[q] = "409"

\* Every run ends, through any crash, unless a write failed: the user can start the next one.
EveryRunEnds == \A n \in Runs : state[n] \in Active ~> state[n] \in Ended \/ faults > 0
-----------------------------------------------------------------------------
(* The inductive invariant of the proofs: a run is in one place at a time,  *)
(* and its row says what that place has written last.                       *)

HoldsRun(q) == pc[q] \in {"submit", "close"}

\* A run is with one request, or once in the queue, or with one pool thread.
OnePlacePerRun ==
    /\ \A q, r \in Requests : HoldsRun(q) /\ HoldsRun(r) /\ made[q] = made[r] => q = r
    /\ \A i, j \in DOMAIN jobs : jobs[i] = jobs[j] => i = j
    /\ \A n \in Runs : Starting(n) => ~InQueue(n) /\ task[n] = "none"
    /\ \A n \in Runs : InQueue(n) => task[n] = "none"

\* What the row says while its run is in that place.
RowFollowsPlace ==
    /\ \A q \in Requests : HoldsRun(q) => made[q] \in Runs
    /\ \A n \in Runs : Starting(n) \/ InQueue(n) \/ task[n] = "begin" => state[n] = "queued"
    /\ \A n \in Runs : task[n] \in {"sync", "finish"} => state[n] = "running"
    /\ \A n \in Runs : task[n] = "fail" => state[n] # "none" /\ (faults = 0 => state[n] \in Active)

\* uq_sync_runs_active_user.
OneActiveRunPerUser ==
    \A n, m \in Runs : state[n] \in Active /\ state[m] \in Active /\ owner[n] = owner[m] => n = m

\* Before the process serves nothing is in its memory, and after the sweep no row is active.
NothingBeforeServing ==
    /\ ~Up => jobs = <<>> /\ Executing = {} /\ \A q \in Requests : pc[q] = "idle"
    /\ proc = "swept" => \A n \in Runs : state[n] \notin Active

IInv ==
    /\ TypeOK /\ OnePlacePerRun /\ RowFollowsPlace /\ OneActiveRunPerUser
    /\ NothingBeforeServing /\ OwnedUnlessAWriteFailed
=============================================================================
