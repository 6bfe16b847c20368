---------------------------- MODULE GoalFunding ----------------------------
(***************************************************************************)
(* The money of the goals: contributions, the run that funds the scheduled *)
(* rules from what is not allocated, and the run that draws goals down     *)
(* when that has gone below zero.                                          *)
(*                                                                         *)
(* A run loads, computes, and inserts its contributions with one commit.   *)
(* Their ids are derived from rule, goal and date, so that the database    *)
(* refuses what another run of the same page load has written (a 500).     *)
(*                                                                         *)
(* Money is counted in quarters of the smallest amount that is stored      *)
(* (quantize_money rounds half up); what is computed is not rounded.       *)
(***************************************************************************)
EXTENDS Integers, FiniteSets, Functions

CONSTANTS
    Rules,          \* the contribution rules: a sequence, as Order sorts them by priority
    Drawdown,       \* the goals with a withdrawal rule, in their order
    Incomes,        \* what the ledger can leave to the user, in quarters
    LastDay,        \* bounds the days
    Runs,           \* runs under way at once
    MaxEvents       \* how many runs, edits and ledger changes there are

VARIABLES
    income,         \* opening balances and the ledger's income less expense
    contributions,  \* id -> goal, date, amount
    order,          \* a permutation of the rules' positions: the order of their priorities
    today,
    run,            \* where each run is
    events

vars == <<income, contributions, order, today, run, events>>

Quantum == 4
Quantized(amount) == Quantum * ((2 * amount + Quantum) \div (2 * Quantum))

Min2(a, b) == IF a < b THEN a ELSE b
Positions == DOMAIN Rules
Goals == {Rules[i].goal : i \in Positions} \cup {Drawdown[i] : i \in DOMAIN Drawdown}

\* The contributions of a list up to a day, and what some of them come to.
Dated(list, day) == {id \in DOMAIN list : list[id].date <= day}
Sum(list, ids) == FoldFunctionOnSet(+, 0, [id \in ids |-> list[id].amount], ids)

\* all_goal_balances and unallocated_balance, as of a day.
Balance(list, goal, day) == Sum(list, {id \in Dated(list, day) : list[id].goal = goal})
Left(earned, list, day) == earned - Sum(list, Dated(list, day))
Unallocated(day) == Left(income, contributions, day)

Idle == [at |-> "idle", kind |-> "none", day |-> 0, new |-> <<>>, overtaken |-> FALSE]

\* A remainder rule is the last one.
Sorted == {p \in [Positions -> Positions] :
              /\ \A i, j \in Positions : p[i] = p[j] => i = j
              /\ \A i, j \in Positions : Rules[p[i]].mode = "remainder" => j <= i}

Init ==
    /\ income \in Incomes
    /\ contributions = <<>>
    /\ order \in Sorted
    /\ today = 1
    /\ run = [r \in Runs |-> Idle]
    /\ events = 0

-----------------------------------------------------------------------------
(* What a run computes.                                                    *)

\* next_recurring_occurrence: the last step of the schedule that has come, if any.
Occurrence(i, day) ==
    LET last == Min2(day, Rules[i].until)
    IN  IF last < Rules[i].from THEN 0
        ELSE Rules[i].from + Rules[i].every * ((last - Rules[i].from) \div Rules[i].every)

AutoId(i, day) == <<"auto", i, Occurrence(i, day), 0>>
Due(day) == {i \in Positions : Occurrence(i, day) # 0 /\ AutoId(i, day) \notin DOMAIN contributions}

Wanted(i, pool, left) ==
    CASE Rules[i].mode = "fixed"     -> Rules[i].value
      [] Rules[i].mode = "percent"   -> (pool * Rules[i].value) \div 100
      [] Rules[i].mode = "remainder" -> left

\* run_recurring_additions: what each due rule gets, in the order of the priorities.
Funded(due, pool) ==
    LET left[n \in 0 .. Cardinality(Positions)] ==
            IF n = 0 THEN pool
            ELSE IF order[n] \notin due \/ left[n - 1] <= 0 THEN left[n - 1]
            ELSE left[n - 1] - Min2(Wanted(order[n], pool, left[n - 1]), left[n - 1])
    IN  [i \in due |-> LET n == CHOOSE k \in Positions : order[k] = i IN left[n - 1] - left[n]]

\* run_withdrawal_automation: what each goal gives, in the order of the drawdown.
Drawn(balances, shortfall) ==
    LET left[n \in 0 .. Cardinality(DOMAIN Drawdown)] ==
            IF n = 0 THEN shortfall
            ELSE IF left[n - 1] <= 0 \/ balances[Drawdown[n]] <= 0 THEN left[n - 1]
            ELSE left[n - 1] - Min2(balances[Drawdown[n]], left[n - 1])
    IN  [n \in DOMAIN Drawdown |-> left[n - 1] - left[n]]

\* _next_contribution_id: the first number the day's draws on the goal have left.
DrawId(goal, day) ==
    <<"draw", goal, day, CHOOSE n \in 0 .. MaxEvents :
                            /\ <<"draw", goal, day, n>> \notin DOMAIN contributions
                            /\ \A m \in 0 .. n - 1 : <<"draw", goal, day, m>> \in DOMAIN contributions>>

Contribution(goal, day, amount) == [goal |-> goal, date |-> day, amount |-> amount]

\* The contributions of one run: an addition for each rule that gets something, and a
\* draw on each goal that gives something.
Additions(day) ==
    LET funded   == Funded(Due(day), Unallocated(day))
        paid     == {i \in Due(day) : funded[i] > 0}
        rule(id) == CHOOSE i \in paid : id = AutoId(i, day)
    IN  [id \in {AutoId(i, day) : i \in paid} |->
            Contribution(Rules[rule(id)].goal, id[3], Quantized(funded[rule(id)]))]

Draws(day) ==
    LET drawn     == Drawn([g \in Goals |-> Balance(contributions, g, day)], -Unallocated(day))
        given     == {n \in DOMAIN Drawdown : drawn[n] > 0}
        place(id) == CHOOSE n \in given : id = DrawId(Drawdown[n], day)
    IN  [id \in {DrawId(Drawdown[n], day) : n \in given} |->
            Contribution(id[2], day, -Quantized(drawn[place(id)]))]

-----------------------------------------------------------------------------
(* Runs.                                                                   *)

Begin(r, kind, new) ==
    /\ run[r].at = "idle"
    /\ events < MaxEvents
    /\ events' = events + 1
    /\ run' = [run EXCEPT ![r] = [at |-> "computed", kind |-> kind, day |-> today, new |-> new,
                                  overtaken |-> FALSE]]
    /\ UNCHANGED <<income, contributions, order, today>>

\* post_run_recurring_additions, up to its insert.
Add(r) ==
    /\ Due(today) # {}
    /\ Begin(r, "add", Additions(today))

\* post_run_withdrawal_automation, up to its insert.
Draw(r) ==
    /\ Unallocated(today) < 0
    /\ Begin(r, "draw", Draws(today))

\* What makes a computed run out of date: anything but the end of a run of its day
\* that is not out of date itself.
Overtake(days) ==
    [s \in Runs |-> IF run[s].at = "idle" \/ run[s].day \in days THEN run[s]
                    ELSE [run[s] EXCEPT !.overtaken = TRUE]]

\* A draw is numbered by what the database holds when it is inserted.
Insert_Renumbered(r) ==
    LET free(id) == IF id \in DOMAIN contributions THEN [id EXCEPT ![4] = MaxEvents + 1] ELSE id
        taken(id) == CHOOSE x \in DOMAIN run[r].new : free(x) = id
    IN  /\ run[r].at = "computed"
        /\ contributions' = [id \in DOMAIN contributions \cup {free(x) : x \in DOMAIN run[r].new} |->
                                IF id \in DOMAIN contributions THEN contributions[id] ELSE run[r].new[taken(id)]]
        /\ run' = [Overtake(IF run[r].overtaken THEN {} ELSE {run[r].day}) EXCEPT ![r] = Idle]
        /\ UNCHANGED <<income, order, today, events>>

\* insert_goal_contributions: all of them, or none if one has an id that is taken.
Insert(r) ==
    /\ run[r].at = "computed"
    /\ IF DOMAIN run[r].new \cap DOMAIN contributions = {}
       THEN /\ contributions' = [id \in DOMAIN contributions \cup DOMAIN run[r].new |->
                                    IF id \in DOMAIN run[r].new THEN run[r].new[id] ELSE contributions[id]]
            /\ run' = [Overtake(IF run[r].overtaken THEN {} ELSE {run[r].day}) EXCEPT ![r] = Idle]
       ELSE /\ run' = [run EXCEPT ![r] = Idle]
            /\ UNCHANGED contributions
    /\ UNCHANGED <<income, order, today, events>>

-----------------------------------------------------------------------------
(* What else changes the money, and when.                                  *)

Event ==
    /\ events < MaxEvents
    /\ events' = events + 1
    /\ run' = Overtake({})

\* The ledger changes: an import, an expense, a category.
Ledger(new) ==
    /\ Event
    /\ new # income
    /\ income' = new
    /\ UNCHANGED <<contributions, order, today>>

\* delete_goal_contribution, of a contribution of any origin.
Remove(id) ==
    /\ Event
    /\ contributions' = [x \in DOMAIN contributions \ {id} |-> contributions[x]]
    /\ UNCHANGED <<income, order, today>>

\* put_goal_contribution_automation_order.
Reorder(new) ==
    /\ Event
    /\ new # order
    /\ order' = new
    /\ UNCHANGED <<income, contributions, today>>

NextDay ==
    /\ today < LastDay
    /\ today' = today + 1
    /\ UNCHANGED <<income, contributions, order, run, events>>

Next ==
    \/ \E r \in Runs : Add(r) \/ Draw(r) \/ Insert(r)
    \/ \E new \in Incomes : Ledger(new)
    \/ \E id \in DOMAIN contributions : Remove(id)
    \/ \E new \in Sorted : Reorder(new)
    \/ NextDay

Spec == Init /\ [][Next]_vars

-----------------------------------------------------------------------------
(* Properties.                                                             *)

TypeOK ==
    /\ income \in Incomes
    /\ order \in Sorted
    /\ \A id \in DOMAIN contributions :
          contributions[id].goal \in Goals /\ contributions[id].date \in 1 .. LastDay
          /\ contributions[id].amount % Quantum = 0
    /\ \A r \in Runs : run[r].at \in {"idle", "computed"}

\* However many runs of one day are computed side by side, what they insert takes no
\* more than was not allocated, but for the rounding of each amount they store.
AdditionsStayInThePool ==
    \A r \in Runs :
       (Insert(r) /\ run[r].kind = "add" /\ ~run[r].overtaken /\ contributions' # contributions)
          => 2 * Left(income', contributions', today) >= -Quantum * Cardinality(DOMAIN run[r].new)

\* However many draws of one day are computed side by side, what they insert leaves no
\* goal below zero and takes no more than was missing, but for the rounding of the last.
DrawsStayInTheGoals ==
    \A r \in Runs :
       (Insert(r) /\ run[r].kind = "draw" /\ ~run[r].overtaken /\ contributions' # contributions)
          => /\ 2 * Left(income', contributions', today) <= Quantum
             /\ \A id \in DOMAIN run[r].new : Balance(contributions', run[r].new[id].goal, today) >= 0

-----------------------------------------------------------------------------
(* What the properties rest on.                                            *)

\* Contributions are whole quanta of no later day than today, and so is what runs
\* are about to insert, which is of no later day than the run.
Whole(list, day) ==
    /\ IsFiniteSet(DOMAIN list)
    /\ list = [id \in DOMAIN list |-> list[id]]
    /\ \A id \in DOMAIN list :
          /\ list[id].amount \in Int /\ list[id].amount % Quantum = 0
          /\ list[id].date \in Int /\ list[id].date <= day

MoneyIsWhole ==
    /\ income \in Int /\ order \in Sorted /\ today \in Nat
    /\ Whole(contributions, today)
    /\ run \in [Runs -> [at : {"idle", "computed"}, kind : {"none", "add", "draw"}, day : Nat,
                         new : {run[r].new : r \in Runs}, overtaken : BOOLEAN]]
    /\ \A r \in Runs : run[r].day <= today /\ Whole(run[r].new, run[r].day)

\* A run that is not out of date would compute the same again, if it has anything to
\* insert and the database would take it; what has come since is of its day.
Current(r) ==
    \/ run[r].kind = "add" /\ run[r].new = Additions(run[r].day)
    \/ run[r].kind = "draw" /\ run[r].new = Draws(run[r].day) /\ Unallocated(run[r].day) < 0

RunsAreCurrent ==
    \A r \in Runs : run[r].at = "computed" /\ ~run[r].overtaken =>
        /\ \A id \in DOMAIN contributions : contributions[id].date <= run[r].day
        /\ \/ DOMAIN run[r].new = {}
           \/ DOMAIN run[r].new \cap DOMAIN contributions # {}
           \/ Current(r)

IInv == MoneyIsWhole /\ RunsAreCurrent

=============================================================================
