-------------------------- MODULE SyncRuns_proofs --------------------------
(***************************************************************************)
(* Proofs about SyncRuns, for any users, request threads and pool size,    *)
(* and any number of runs, stops and failed writes.  A run moves from the  *)
(* request that made it to the queue and to a pool thread; the invariant   *)
(* follows it, and says what its row must be in each of those places.      *)
(***************************************************************************)
EXTENDS SyncRuns, TLAPS

-----------------------------------------------------------------------------
(* The pool's queue.                                                       *)

\* A job that is appended is one more in the queue.
LEMMA QueueGrows ==
    ASSUME jobs \in Seq(Runs), NEW n \in Runs, jobs' = Append(jobs, n)
    PROVE  /\ jobs' \in Seq(Runs)
           /\ \A m \in Runs : InQueue(m)' <=> InQueue(m) \/ m = n
           /\ (\A i, j \in DOMAIN jobs : jobs[i] = jobs[j] => i = j) /\ ~InQueue(n)
                 => (\A i, j \in DOMAIN jobs : jobs[i] = jobs[j] => i = j)'
<1>1. /\ jobs' \in Seq(Runs) /\ Len(jobs') = Len(jobs) + 1 /\ Len(jobs) \in Nat
      /\ DOMAIN jobs = 1 .. Len(jobs) /\ DOMAIN jobs' = 1 .. (Len(jobs) + 1)
      /\ \A i \in 1 .. Len(jobs) : jobs'[i] = jobs[i]
      /\ jobs'[Len(jobs) + 1] = n
  OBVIOUS
<1>2. ASSUME NEW m \in Runs PROVE InQueue(m)' <=> InQueue(m) \/ m = n
  <2>1. ASSUME InQueue(m)' PROVE InQueue(m) \/ m = n
    <3>1. PICK i \in DOMAIN jobs' : jobs'[i] = m
      BY <2>1 DEF InQueue
    <3>2. i \in 1 .. Len(jobs) \/ i = Len(jobs) + 1
      BY <1>1, <3>1
    <3> QED
      BY <1>1, <3>1, <3>2 DEF InQueue
  <2>2. ASSUME InQueue(m) PROVE InQueue(m)'
    <3>1. PICK i \in DOMAIN jobs : jobs[i] = m
      BY <2>2 DEF InQueue
    <3>2. i \in DOMAIN jobs' /\ jobs'[i] = m
      BY <1>1, <3>1
    <3> QED
      BY <3>2 DEF InQueue
  <2>3. ASSUME m = n PROVE InQueue(m)'
    <3>1. Len(jobs) + 1 \in DOMAIN jobs'
      BY <1>1
    <3> QED
      BY <1>1, <2>3, <3>1 DEF InQueue
  <2> QED
    BY <2>1, <2>2, <2>3
<1>3. ASSUME \A i, j \in DOMAIN jobs : jobs[i] = jobs[j] => i = j, ~InQueue(n),
             NEW i \in DOMAIN jobs', NEW j \in DOMAIN jobs', jobs'[i] = jobs'[j]
      PROVE  i = j
  BY <1>1, <1>3 DEF InQueue
<1> QED
  BY <1>1, <1>2, <1>3

\* The oldest job leaves the queue.
LEMMA QueueShrinks ==
    ASSUME jobs \in Seq(Runs), jobs # <<>>, jobs' = Tail(jobs),
           \A i, j \in DOMAIN jobs : jobs[i] = jobs[j] => i = j
    PROVE  /\ jobs' \in Seq(Runs) /\ Head(jobs) \in Runs /\ InQueue(Head(jobs))
           /\ \A m \in Runs : InQueue(m)' <=> InQueue(m) /\ m # Head(jobs)
           /\ (\A i, j \in DOMAIN jobs : jobs[i] = jobs[j] => i = j)'
<1>1. /\ jobs' \in Seq(Runs) /\ Len(jobs) \in Nat \ {0} /\ Len(jobs') = Len(jobs) - 1
      /\ DOMAIN jobs = 1 .. Len(jobs) /\ DOMAIN jobs' = 1 .. (Len(jobs) - 1)
      /\ \A i \in 1 .. (Len(jobs) - 1) : jobs'[i] = jobs[i + 1]
      /\ jobs[1] = Head(jobs) /\ Head(jobs) \in Runs
  OBVIOUS
<1>2. InQueue(Head(jobs))
  BY <1>1 DEF InQueue
<1>3. ASSUME NEW m \in Runs PROVE InQueue(m)' <=> InQueue(m) /\ m # Head(jobs)
  <2>1. ASSUME InQueue(m)' PROVE InQueue(m) /\ m # Head(jobs)
    <3>1. PICK i \in DOMAIN jobs' : jobs'[i] = m
      BY <2>1 DEF InQueue
    <3>2. i + 1 \in DOMAIN jobs /\ jobs[i + 1] = m /\ i + 1 # 1 /\ 1 \in DOMAIN jobs
      BY <1>1, <3>1
    <3> QED
      BY <1>1, <3>2 DEF InQueue
  <2>2. ASSUME InQueue(m), m # Head(jobs) PROVE InQueue(m)'
    <3>1. PICK i \in DOMAIN jobs : jobs[i] = m
      BY <2>2 DEF InQueue
    <3>2. i - 1 \in DOMAIN jobs' /\ jobs'[i - 1] = m
      BY <1>1, <2>2, <3>1
    <3> QED
      BY <3>2 DEF InQueue
  <2> QED
    BY <2>1, <2>2
<1>4. ASSUME NEW i \in DOMAIN jobs', NEW j \in DOMAIN jobs', jobs'[i] = jobs'[j] PROVE i = j
  <2>1. i \in 1 .. (Len(jobs) - 1) /\ j \in 1 .. (Len(jobs) - 1)
    BY <1>1
  <2>2. i + 1 \in DOMAIN jobs /\ j + 1 \in DOMAIN jobs /\ jobs[i + 1] = jobs[j + 1]
    BY <1>1, <1>4, <2>1
  <2>3. i + 1 = j + 1
    BY <2>2
  <2> QED
    BY <2>1, <2>3
<1> QED
  BY <1>1, <1>2, <1>3, <1>4
-----------------------------------------------------------------------------
(* Types.                                                                  *)

\* At first nothing runs.
LEMMA InitType == Init => TypeOK
<1> SUFFICES ASSUME Init PROVE TypeOK
  OBVIOUS
<1>1. stops \in 0 .. MaxStops /\ faults \in 0 .. MaxFaults
  BY BoundsAssumption DEF Init
<1>2. armed \in [Requests -> BOOLEAN]
  BY Zenon DEF Init
<1>3. jobs \in Seq(Runs)
  BY DEF Init
<1> QED
  BY <1>1, <1>2, <1>3 DEF Init, TypeOK, NoRun

\* A run is queued or closed only by a request that made one.
LEMMA StepType == TypeOK /\ RowFollowsPlace /\ OnePlacePerRun /\ [Next]_vars => TypeOK'
<1> SUFFICES ASSUME TypeOK, RowFollowsPlace, OnePlacePerRun, [Next]_vars PROVE TypeOK'
  OBVIOUS
<1> USE BoundsAssumption DEF rowVars, reqVars, poolVars
<1>1. CASE Boot \/ Shutdown
  BY <1>1 DEF Boot, Sweep, Open, Shutdown, TypeOK, Active, Ended
<1>2. CASE Stopped \/ Crash
  <2>1. armed' \in [Requests -> BOOLEAN]
    BY <1>2, Zenon DEF Stopped, Crash, MemoryLost
  <2>2. jobs' = <<>>
    BY <1>2 DEF Stopped, Crash, MemoryLost
  <2>3. jobs' \in Seq(Runs)
    BY <2>2
  <2> QED
    BY <1>2, <2>1, <2>3 DEF Stopped, Crash, MemoryLost, TypeOK, NoRun
<1>3. CASE Pick
  BY <1>3, QueueShrinks DEF Pick, Goes, TypeOK, OnePlacePerRun
<1>4. ASSUME NEW q \in Requests, NEW u \in Users, Post(q, u) PROVE TypeOK'
  <2>1. /\ pc' \in [Requests -> {"idle", "lookup", "submit", "close", "answered"}]
        /\ by' \in [Requests -> Users \cup {Nobody}]
        /\ answer' \in [Requests -> {"none", "202", "409", "500", "503"}]
        /\ armed' \in [Requests -> BOOLEAN]
    BY <1>4 DEF Post, TypeOK
  <2>2. ASSUME NEW n \in Unused, Insert(n, u)
        PROVE  /\ state' \in [Runs -> {"none"} \cup Active \cup Ended]
               /\ owner' \in [Runs -> Users \cup {Nobody}]
    BY <2>2 DEF Insert, Unused, TypeOK, Active
  <2>3. /\ state' \in [Runs -> {"none"} \cup Active \cup Ended]
        /\ owner' \in [Runs -> Users \cup {Nobody}]
    BY <1>4, <2>2 DEF Post, TypeOK
  <2>4. made' \in [Requests -> Runs \cup {NoRun}] /\ faults' \in 0 .. MaxFaults
    BY <1>4 DEF Post, TypeOK, Unused
  <2> QED
    BY <1>4, <2>1, <2>3, <2>4 DEF Post, TypeOK
<1>5. ASSUME NEW q \in Requests, Serve(q) PROVE TypeOK'
  <2>1. CASE Lookup(q)
    BY <2>1 DEF Lookup, TypeOK
  <2>2. CASE Submit(q)
    <3>1. jobs' \in Seq(Runs)
      <4>1. made[q] \in Runs /\ jobs \in Seq(Runs) BY <2>2 DEF Submit, TypeOK, RowFollowsPlace, HoldsRun
      <4>2. jobs' = jobs \/ jobs' = Append(jobs, made[q]) BY <2>2 DEF Submit
      <4> QED BY <4>1, <4>2, QueueGrows
    <3>2. /\ pc' \in [Requests -> {"idle", "lookup", "submit", "close", "answered"}]
          /\ armed' \in [Requests -> BOOLEAN]
          /\ answer' \in [Requests -> {"none", "202", "409", "500", "503"}]
      BY <2>2 DEF Submit, Answer, TypeOK
    <3> QED BY <2>2, <3>1, <3>2 DEF Submit, Answer, TypeOK
  <2>3. CASE CloseRun(q)
    BY <2>3 DEF CloseRun, Wrote, WriteRaises, Answer, TypeOK, Active, Ended
  <2>4. CASE Respond(q)
    BY <2>4 DEF Respond, TypeOK, NoRun
  <2> QED
    BY <1>5, <2>1, <2>2, <2>3, <2>4 DEF Serve
<1>6. ASSUME NEW n \in Runs, Execute(n) PROVE TypeOK'
  BY <1>6 DEF Execute, Begin, Sync, Finish, Fail, Wrote, WriteRaises, Goes, TypeOK, Active, Ended
<1>7. CASE UNCHANGED vars
  BY <1>7 DEF vars, TypeOK
<1> QED
  BY <1>1, <1>2, <1>3, <1>4, <1>5, <1>6, <1>7 DEF Next
-----------------------------------------------------------------------------
(* The invariant, one action at a time.                                    *)

\* There is no run to have a place.
LEMMA InitInv == Init => IInv
<1> SUFFICES ASSUME Init PROVE IInv
  OBVIOUS
<1>1. /\ jobs = <<>> /\ proc = "down" /\ \A q \in Requests : pc[q] = "idle"
      /\ \A n \in Runs : state[n] = "none" /\ task[n] = "none"
  BY DEF Init
<1>2. \A n \in Runs : ~InQueue(n) /\ ~Starting(n)
  BY <1>1 DEF InQueue, Starting
<1> QED
  BY <1>1, <1>2, InitType
     DEF IInv, OnePlacePerRun, RowFollowsPlace, OneActiveRunPerUser, NothingBeforeServing, Executing,
         OwnedUnlessAWriteFailed, ActiveRunIsOwned, HoldsRun, Active

\* What no longer runs has no place, and nothing is promised of it.
LEMMA MemoryLostInv ==
    ASSUME IInv, TypeOK', MemoryLost, state' = state, owner' = owner
    PROVE  IInv'
<1>1. /\ jobs' = <<>> /\ proc' = "down" /\ \A q \in Requests : pc'[q] = "idle"
      /\ \A n \in Runs : task'[n] = "none"
  BY DEF MemoryLost
<1>2. \A n \in Runs : ~InQueue(n)' /\ ~Starting(n)'
  BY <1>1 DEF InQueue, Starting
<1> QED
  BY <1>1, <1>2
     DEF IInv, OnePlacePerRun, RowFollowsPlace, OneActiveRunPerUser, NothingBeforeServing, Executing,
         OwnedUnlessAWriteFailed, ActiveRunIsOwned, HoldsRun, Up

\* Nothing is in memory when the process starts, so the sweep closes every run there is.
LEMMA BootInv ==
    ASSUME IInv, TypeOK', Boot \/ Shutdown
    PROVE  IInv'
<1> USE DEF reqVars, poolVars, rowVars
<1>1. \A n \in Runs : InQueue(n)' = InQueue(n) /\ Starting(n)' = Starting(n)
  BY DEF Boot, Sweep, Open, Shutdown, InQueue, Starting
<1>2. CASE Sweep
  <2>1. jobs = <<>> /\ (\A q \in Requests : pc[q] = "idle") /\ \A n \in Runs : task[n] = "none"
    BY <1>2 DEF IInv, NothingBeforeServing, Sweep, Up, Executing
  <2>2. \A n \in Runs : ~InQueue(n) /\ ~Starting(n)
    BY <2>1 DEF InQueue, Starting
  <2>3. \A n \in Runs : state'[n] \notin Active
    BY <1>2 DEF Sweep, Active, IInv, TypeOK
  <2> QED
    BY <1>1, <1>2, <2>1, <2>2, <2>3
       DEF Sweep, IInv, OnePlacePerRun, RowFollowsPlace, OneActiveRunPerUser, NothingBeforeServing,
           OwnedUnlessAWriteFailed, ActiveRunIsOwned, HoldsRun, Executing
<1>3. CASE Open \/ Shutdown
  BY <1>1, <1>3
     DEF Open, Shutdown, IInv, OnePlacePerRun, RowFollowsPlace, OneActiveRunPerUser, NothingBeforeServing,
         OwnedUnlessAWriteFailed, ActiveRunIsOwned, Owned, HoldsRun, Executing, Up
<1> QED
  BY <1>2, <1>3 DEF Boot

\* A run moves from the queue to a thread.
LEMMA PickInv ==
    ASSUME IInv, TypeOK', Pick
    PROVE  IInv'
<1> DEFINE h == Head(jobs)
<1>1. /\ h \in Runs /\ InQueue(h)
      /\ \A m \in Runs : InQueue(m)' <=> InQueue(m) /\ m # h
      /\ (\A i, j \in DOMAIN jobs : jobs[i] = jobs[j] => i = j)'
  BY QueueShrinks DEF Pick, IInv, TypeOK, OnePlacePerRun
<1>2. /\ task' = [task EXCEPT ![h] = "begin"]
      /\ UNCHANGED <<proc, state, owner, pc, made, faults>> /\ Up
  BY DEF Pick, Goes, rowVars, reqVars
<1>3. \A n \in Runs : Starting(n)' = Starting(n)
  BY <1>2 DEF Starting
<1> HIDE DEF h
<1>4. OnePlacePerRun'
  BY <1>1, <1>2, <1>3 DEF IInv, TypeOK, OnePlacePerRun, HoldsRun
<1>5. RowFollowsPlace'
  BY <1>1, <1>2, <1>3 DEF IInv, TypeOK, RowFollowsPlace, HoldsRun
<1>6. OwnedUnlessAWriteFailed'
  BY <1>1, <1>2, <1>3 DEF IInv, TypeOK, OwnedUnlessAWriteFailed, ActiveRunIsOwned, Owned
<1> QED
  BY <1>2, <1>4, <1>5, <1>6 DEF IInv, OneActiveRunPerUser, NothingBeforeServing, Up
\* A row that is inserted is nobody's yet, and its user had none.
LEMMA PostInv ==
    ASSUME IInv, TypeOK', NEW q \in Requests, NEW u \in Users, Post(q, u)
    PROVE  IInv'
<1>1. UNCHANGED <<proc, jobs, task>> /\ Up /\ pc[q] = "idle"
  BY DEF Post, poolVars
<1>2. \A n \in Runs : InQueue(n)' = InQueue(n)
  BY <1>1 DEF InQueue
<1>3. ASSUME NEW n \in Unused, ActiveRuns(u) = {}, Insert(n, u)
      PROVE  /\ n \in Runs /\ ~Starting(n) /\ ~InQueue(n) /\ task[n] = "none"
             /\ OneActiveRunPerUser'
             /\ \A m \in Runs \ {n} : state'[m] = state[m] /\ owner'[m] = owner[m]
             /\ state'[n] = "queued"
  <2>1. n \in Runs /\ state[n] = "none"
    BY DEF Unused
  <2>2. ~Starting(n) /\ ~InQueue(n) /\ task[n] = "none"
    BY <2>1 DEF IInv, RowFollowsPlace, TypeOK
  <2>3. OneActiveRunPerUser'
    BY <1>3, <2>1 DEF Insert, ActiveRuns, IInv, OneActiveRunPerUser, TypeOK
  <2> QED
    BY <1>3, <2>1, <2>2, <2>3 DEF Insert, IInv, TypeOK
<1>4. CASE /\ ActiveRuns(u) = {}
           /\ \E n \in Unused : Insert(n, u) /\ made' = [made EXCEPT ![q] = n]
           /\ pc' = [pc EXCEPT ![q] = "submit"]
           /\ UNCHANGED <<armed, answer, faults>>
  <2>1. PICK n \in Unused : Insert(n, u) /\ made' = [made EXCEPT ![q] = n]
    BY <1>4
  <2>2. \A m \in Runs : Starting(m)' <=> Starting(m) \/ m = n
    BY <1>1, <1>4, <2>1 DEF Starting, IInv, TypeOK
  <2>3. OnePlacePerRun'
    BY <1>1, <1>2, <1>3, <1>4, <2>1, <2>2 DEF IInv, TypeOK, OnePlacePerRun, HoldsRun, Starting
  <2>4. RowFollowsPlace'
    BY <1>1, <1>2, <1>3, <1>4, <2>1, <2>2 DEF IInv, TypeOK, RowFollowsPlace, HoldsRun, Starting, Active
  <2>5. OwnedUnlessAWriteFailed'
    BY <1>1, <1>2, <1>3, <1>4, <2>1, <2>2 DEF IInv, OwnedUnlessAWriteFailed, ActiveRunIsOwned, Owned
  <2> QED
    BY <1>1, <1>3, <1>4, <2>1, <2>3, <2>4, <2>5 DEF IInv, NothingBeforeServing, Up
<1>5. CASE /\ ActiveRuns(u) = {} /\ faults < MaxFaults
           /\ \/ \E n \in Unused : Insert(n, u)
              \/ UNCHANGED rowVars
           /\ faults' = faults + 1
           /\ pc' = [pc EXCEPT ![q] = "answered"]
           /\ answer' = [answer EXCEPT ![q] = "500"]
           /\ UNCHANGED <<made, armed>>
  <2>1. faults' # 0 /\ \A m \in Runs : Starting(m)' <=> Starting(m)
    BY <1>1, <1>5 DEF Starting, IInv, TypeOK
  <2>2. OnePlacePerRun'
    BY <1>1, <1>2, <1>5, <2>1 DEF IInv, TypeOK, OnePlacePerRun, HoldsRun
  <2>3. CASE UNCHANGED rowVars
    BY <1>1, <1>2, <1>5, <2>1, <2>2, <2>3
       DEF IInv, TypeOK, RowFollowsPlace, HoldsRun, OneActiveRunPerUser, NothingBeforeServing, Up,
           OwnedUnlessAWriteFailed, rowVars
  <2>4. ASSUME NEW n \in Unused, Insert(n, u) PROVE IInv'
    <3>1. RowFollowsPlace'
      BY <1>1, <1>2, <1>3, <1>5, <2>1, <2>4 DEF IInv, TypeOK, RowFollowsPlace, HoldsRun
    <3> QED
      BY <1>1, <1>3, <1>5, <2>1, <2>2, <2>4, <3>1 DEF IInv, NothingBeforeServing, OwnedUnlessAWriteFailed, Up
  <2> QED
    BY <1>5, <2>3, <2>4
<1>6. CASE /\ ActiveRuns(u) # {}
           /\ pc' = [pc EXCEPT ![q] = "lookup"]
           /\ armed' = [armed EXCEPT ![q] = FALSE]
           /\ UNCHANGED <<rowVars, made, answer, faults>>
  <2>1. \A m \in Runs : Starting(m)' <=> Starting(m)
    BY <1>1, <1>6 DEF Starting, IInv, TypeOK
  <2> QED
    BY <1>1, <1>2, <1>6, <2>1
       DEF IInv, TypeOK, OnePlacePerRun, RowFollowsPlace, HoldsRun, OneActiveRunPerUser, NothingBeforeServing, Up,
           OwnedUnlessAWriteFailed, ActiveRunIsOwned, Owned, rowVars
<1> QED
  BY <1>4, <1>5, <1>6 DEF Post

\* A request hands its run to the queue, or closes it itself.
LEMMA ServeInv ==
    ASSUME IInv, TypeOK', NEW q \in Requests, Serve(q)
    PROVE  IInv'
<1> USE DEF rowVars, reqVars, poolVars
<1>1. pc[q] # "idle" /\ proc' = proc /\ task' = task /\ Up
  BY DEF Serve, Lookup, Submit, CloseRun, Respond, IInv, NothingBeforeServing
<1>2. CASE Lookup(q) \/ Respond(q)
  <2>1. \A n \in Runs : InQueue(n)' = InQueue(n) /\ Starting(n)' = Starting(n)
    BY <1>2 DEF Lookup, Respond, InQueue, Starting, IInv, TypeOK
  <2>2. /\ \A r \in Requests : HoldsRun(r)' <=> HoldsRun(r)
        /\ \A r \in Requests : HoldsRun(r) => made'[r] = made[r]
        /\ UNCHANGED <<jobs, state, owner, faults>>
    BY <1>2 DEF Lookup, Respond, HoldsRun, IInv, TypeOK
  <2>3. OnePlacePerRun' /\ RowFollowsPlace'
    BY <1>1, <2>1, <2>2 DEF IInv, OnePlacePerRun, RowFollowsPlace
  <2> QED
    BY <1>1, <2>1, <2>2, <2>3
       DEF IInv, OneActiveRunPerUser, NothingBeforeServing, Up, OwnedUnlessAWriteFailed, ActiveRunIsOwned, Owned
<1>3. CASE Submit(q) /\ proc = "serving"
  <2> DEFINE n == made[q]
  <2>1. n \in Runs /\ Starting(n) /\ pc[q] = "submit"
    BY <1>3 DEF Submit, Starting, IInv, RowFollowsPlace, HoldsRun
  <2>2. /\ pc' = [pc EXCEPT ![q] = "answered"] /\ jobs' = Append(jobs, n)
        /\ UNCHANGED <<made, state, owner, faults>>
    BY <1>3 DEF Submit, Answer
  <2> HIDE DEF n
  <2>3. /\ \A m \in Runs : InQueue(m)' <=> InQueue(m) \/ m = n
        /\ (\A i, j \in DOMAIN jobs : jobs[i] = jobs[j] => i = j)'
    BY <2>1, <2>2, QueueGrows DEF IInv, TypeOK, OnePlacePerRun
  <2>4. \A m \in Runs : Starting(m)' <=> Starting(m) /\ m # n
    BY <2>1, <2>2 DEF Starting, IInv, TypeOK, OnePlacePerRun, HoldsRun, n
  <2>5. OnePlacePerRun'
    BY <1>1, <2>1, <2>2, <2>3, <2>4 DEF IInv, TypeOK, OnePlacePerRun, HoldsRun
  <2>6. RowFollowsPlace'
    BY <1>1, <2>1, <2>2, <2>3, <2>4 DEF IInv, TypeOK, RowFollowsPlace, HoldsRun
  <2>7. OwnedUnlessAWriteFailed'
    BY <1>1, <2>1, <2>2, <2>3, <2>4 DEF IInv, OwnedUnlessAWriteFailed, ActiveRunIsOwned, Owned
  <2> QED
    BY <1>1, <2>2, <2>5, <2>6, <2>7 DEF IInv, OneActiveRunPerUser, NothingBeforeServing, Up
<1>4. CASE Submit(q) /\ proc = "stopping"
  <2>1. \A m \in Runs : InQueue(m)' = InQueue(m) /\ Starting(m)' = Starting(m)
    BY <1>4 DEF Submit, InQueue, Starting, IInv, TypeOK
  <2>2. /\ \A r \in Requests : HoldsRun(r)' <=> HoldsRun(r)
        /\ UNCHANGED <<made, jobs, state, owner, faults>>
    BY <1>4 DEF Submit, HoldsRun, IInv, TypeOK
  <2>3. OnePlacePerRun' /\ RowFollowsPlace'
    BY <1>1, <2>1, <2>2 DEF IInv, OnePlacePerRun, RowFollowsPlace
  <2> QED
    BY <1>1, <2>1, <2>2, <2>3
       DEF IInv, OneActiveRunPerUser, NothingBeforeServing, Up, OwnedUnlessAWriteFailed, ActiveRunIsOwned, Owned
<1>5. CASE CloseRun(q)
  <2> DEFINE n == made[q]
  <2>1. n \in Runs /\ Starting(n) /\ ~InQueue(n) /\ task[n] = "none"
    BY <1>5 DEF CloseRun, Starting, IInv, RowFollowsPlace, OnePlacePerRun, HoldsRun
  <2>2. /\ pc' = [pc EXCEPT ![q] = "answered"] /\ UNCHANGED <<made, jobs, owner>>
        /\ \/ state' = [state EXCEPT ![n] = "failed"] /\ faults' = faults
           \/ state' \in {state, [state EXCEPT ![n] = "failed"]} /\ faults' = faults + 1
    BY <1>5 DEF CloseRun, Answer, Wrote, WriteRaises
  <2> HIDE DEF n
  <2>3. \A m \in Runs : InQueue(m)' = InQueue(m) /\ (Starting(m)' <=> Starting(m) /\ m # n)
    <3>1. \A r \in Requests : HoldsRun(r)' <=> HoldsRun(r) /\ r # q
      BY <2>2 DEF HoldsRun, IInv, TypeOK
    <3>2. \A r \in Requests : HoldsRun(r) /\ made[r] = n => r = q
      BY <1>5 DEF n, CloseRun, IInv, OnePlacePerRun, HoldsRun
    <3>3. \A m \in Runs : Starting(m)' <=> Starting(m) /\ m # n
      BY <2>2, <3>1, <3>2 DEF Starting, HoldsRun, n
    <3> QED
      BY <2>2, <3>3 DEF InQueue
  <2>4. \A m \in Runs \ {n} : state'[m] = state[m]
    BY <2>1, <2>2 DEF IInv, TypeOK
  <2>5. OnePlacePerRun'
    BY <1>1, <2>2, <2>3 DEF IInv, TypeOK, OnePlacePerRun, HoldsRun
  <2>6. faults' \in Nat /\ (faults' = 0 => faults = 0 /\ state'[n] = "failed")
    BY <2>1, <2>2 DEF IInv, TypeOK
  <2>7. RowFollowsPlace'
    BY <1>1, <2>1, <2>2, <2>3, <2>4, <2>6 DEF IInv, TypeOK, RowFollowsPlace, HoldsRun
  <2>8. OwnedUnlessAWriteFailed'
    BY <1>1, <2>1, <2>3, <2>4, <2>6 DEF IInv, OwnedUnlessAWriteFailed, ActiveRunIsOwned, Owned, Active
  <2>9. OneActiveRunPerUser'
    BY <2>1, <2>2, <2>4 DEF IInv, TypeOK, OneActiveRunPerUser, Active
  <2> QED
    BY <1>1, <2>2, <2>5, <2>7, <2>8, <2>9 DEF IInv, NothingBeforeServing, Up
<1> QED
  BY <1>2, <1>3, <1>4, <1>5 DEF Serve, Submit
\* Only the thread that executes a run writes its row, and no other row.
LEMMA ExecuteInv ==
    ASSUME IInv, TypeOK', NEW n \in Runs, Execute(n)
    PROVE  IInv'
<1> USE DEF rowVars, reqVars, poolVars
<1>1. /\ task[n] # "none" /\ ~Starting(n) /\ ~InQueue(n) /\ state[n] # "none"
      /\ UNCHANGED <<proc, pc, made, jobs, owner>>
      /\ faults' \in Nat /\ (faults' = 0 => faults = 0) /\ Up
  BY DEF Execute, Begin, Sync, Finish, Fail, Wrote, WriteRaises, IInv, TypeOK, OnePlacePerRun, RowFollowsPlace,
         NothingBeforeServing, Executing
<1>2. \A m \in Runs \ {n} : state'[m] = state[m] /\ task'[m] = task[m]
  BY DEF Execute, Begin, Sync, Finish, Fail, Wrote, WriteRaises, Goes, IInv, TypeOK
<1>3. \A m \in Runs : InQueue(m)' = InQueue(m) /\ Starting(m)' = Starting(m)
  BY <1>1 DEF InQueue, Starting
<1>4. /\ state[n] \in Active \/ task[n] = "fail"
      /\ state'[n] \in Active => state[n] \in Active
      /\ task'[n] = "begin" => state'[n] = "queued"
      /\ task'[n] \in {"sync", "finish"} => state'[n] = "running"
      /\ task'[n] = "fail" => state'[n] # "none" /\ (faults' = 0 => state'[n] \in Active)
      /\ faults' = 0 /\ state'[n] \in Active => task'[n] # "none"
  <2>1. CASE Begin(n)
    BY <2>1 DEF Begin, Wrote, WriteRaises, Goes, IInv, TypeOK, RowFollowsPlace, Active
  <2>2. CASE Sync(n)
    BY <2>2 DEF Sync, Goes, IInv, TypeOK, RowFollowsPlace, Active
  <2>3. CASE Finish(n)
    BY <2>3 DEF Finish, Wrote, WriteRaises, Goes, IInv, TypeOK, RowFollowsPlace, Active
  <2>4. CASE Fail(n)
    BY <2>4 DEF Fail, Wrote, WriteRaises, Goes, IInv, TypeOK, RowFollowsPlace, Active
  <2> QED
    BY <2>1, <2>2, <2>3, <2>4 DEF Execute
<1>5. OnePlacePerRun'
  BY <1>1, <1>2, <1>3 DEF IInv, OnePlacePerRun, HoldsRun
<1>6. RowFollowsPlace'
  BY <1>1, <1>2, <1>3, <1>4 DEF IInv, RowFollowsPlace, HoldsRun
<1>7. OneActiveRunPerUser'
  BY <1>1, <1>2, <1>4 DEF IInv, OneActiveRunPerUser
<1>8. OwnedUnlessAWriteFailed'
  BY <1>1, <1>2, <1>3, <1>4 DEF IInv, OwnedUnlessAWriteFailed, ActiveRunIsOwned, Owned
<1> QED
  BY <1>1, <1>5, <1>6, <1>7, <1>8 DEF IInv, NothingBeforeServing, Up

\* Every step keeps the invariant.
LEMMA StepInv == IInv /\ [Next]_vars => IInv'
<1> SUFFICES ASSUME IInv, [Next]_vars PROVE IInv'
  OBVIOUS
<1>1. TypeOK'
  BY StepType DEF IInv
<1>2. CASE Boot \/ Shutdown
  BY <1>1, <1>2, BootInv
<1>3. CASE Stopped \/ Crash
  BY <1>1, <1>3, MemoryLostInv DEF Stopped, Crash, rowVars
<1>4. CASE Pick
  BY <1>1, <1>4, PickInv
<1>5. ASSUME NEW q \in Requests, Serve(q) \/ \E u \in Users : Post(q, u) PROVE IInv'
  BY <1>1, <1>5, ServeInv, PostInv
<1>6. ASSUME NEW n \in Runs, Execute(n) PROVE IInv'
  BY <1>1, <1>6, ExecuteInv
<1>7. CASE UNCHANGED vars
  BY <1>1, <1>7
     DEF vars, rowVars, reqVars, poolVars, IInv, OnePlacePerRun, RowFollowsPlace, OneActiveRunPerUser,
         NothingBeforeServing, OwnedUnlessAWriteFailed, ActiveRunIsOwned, Owned, InQueue, Starting, HoldsRun,
         Executing, Up
<1> QED
  BY <1>2, <1>3, <1>4, <1>5, <1>6, <1>7 DEF Next

\* Every state keeps each run in one place, with the row that belongs to it.
THEOREM InvHolds == Spec => []IInv
BY InitInv, StepInv, PTL DEF Spec

-----------------------------------------------------------------------------
(* The properties.                                                         *)

\* The variables keep their types, whatever the constants: what is queued, created or
\* executed is a run.
THEOREM SyncRunsTypeCorrect == Spec => []TypeOK
<1>1. IInv => TypeOK
  BY DEF IInv
<1> QED
  BY <1>1, InvHolds, PTL

\* No user's account is pulled twice at once, whatever writes fail and whenever the
\* process dies: a run keeps its user's slot from start_run until its pull is over.
THEOREM OneSyncPerUserHolds == Spec => []OneSyncPerUser
<1>1. IInv => OneSyncPerUser
  BY DEF IInv, OneSyncPerUser, Pulling, RowFollowsPlace, OneActiveRunPerUser, TypeOK, Active
<1> QED
  BY <1>1, InvHolds, PTL

\* As far as the writes of the rows succeed, an active run has an owner in the process
\* that will close it (submit, the pool's queue, or _execute_run).
THEOREM RunsAreOwned == Spec => []OwnedUnlessAWriteFailed
<1>1. IInv => OwnedUnlessAWriteFailed
  BY DEF IInv
<1> QED
  BY <1>1, InvHolds, PTL

\* Although begin_run, finish_run and fail_run overwrite whatever state they find, none
\* of them ever finds a run that has ended, as far as the writes of the rows succeed:
\* after a lost acknowledgement of finish_run, fail_run does.
THEOREM EndedRunsStay == Spec => EndedRunsStayEnded
<1>1. ASSUME IInv, [Next]_vars, NEW n \in Runs, faults = 0, state[n] \in Ended
      PROVE  state'[n] = state[n]
  <2> USE DEF rowVars, reqVars, poolVars
  <2>1. /\ ~Starting(n) /\ task[n] = "none" /\ state[n] # "none" /\ state[n] \notin Active
    BY <1>1 DEF IInv, RowFollowsPlace, Active, Ended, TypeOK
  <2>2. CASE Boot \/ Shutdown \/ Stopped \/ Crash \/ Pick
    BY <1>1, <2>1, <2>2 DEF Boot, Sweep, Open, Shutdown, Stopped, Crash, Pick
  <2>3. ASSUME NEW q \in Requests, Serve(q) PROVE state'[n] = state[n]
    <3>1. CASE CloseRun(q)
      <4>1. made[q] # n
        BY <2>1, <3>1 DEF CloseRun, Starting
      <4> QED
        BY <1>1, <3>1, <4>1 DEF CloseRun, Wrote, WriteRaises, IInv, TypeOK
    <3> QED
      BY <2>3, <3>1 DEF Serve, Lookup, Submit, Respond
  <2>4. ASSUME NEW q \in Requests, NEW u \in Users, Post(q, u) PROVE state'[n] = state[n]
    BY <1>1, <2>1, <2>4 DEF Post, Insert, Unused, IInv, TypeOK
  <2>5. ASSUME NEW m \in Runs, Execute(m) PROVE state'[n] = state[n]
    <3>1. m # n
      BY <2>1, <2>5 DEF Execute, Begin, Sync, Finish, Fail
    <3> QED
      BY <1>1, <2>5, <3>1 DEF Execute, Begin, Sync, Finish, Fail, Wrote, WriteRaises, IInv, TypeOK
  <2>6. CASE UNCHANGED vars
    BY <2>6 DEF vars
  <2> QED
    BY <1>1, <2>2, <2>3, <2>4, <2>5, <2>6 DEF Next
<1>2. IInv /\ [Next]_vars => [\A n \in Runs : faults = 0 /\ state[n] \in Ended => state'[n] = state[n]]_vars
  BY <1>1
<1> QED
  BY <1>2, InvHolds, PTL DEF Spec, EndedRunsStayEnded
=============================================================================
