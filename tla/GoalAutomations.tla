-------------------------- MODULE GoalAutomations --------------------------
(***************************************************************************)
(* The ordered automation rules of a user's goals.  A contribution rule    *)
(* funds a goal on a schedule, a withdrawal rule says when a goal is drawn *)
(* down; each direction has an order of its own, and a contribution rule   *)
(* whose mode is "remainder" belongs at the end of it.                     *)
(*                                                                         *)
(* Every handler loads the rules, checks the list its write would make and *)
(* writes with a commit.  Another request may write in between.            *)
(***************************************************************************)
EXTENDS Naturals, FiniteSets

CONSTANTS
    Additions,      \* ids of contribution rules, minted by the server
    Withdrawals,    \* ids of withdrawal rules, one for each goal
    Requests,       \* requests under way at once
    MaxWrites       \* how many requests there are

VARIABLES
    rules,          \* the rows of goal_automations: id -> priority and mode
    minted,         \* the contribution ids handed out so far
    call,           \* where each request is
    writes          \* how many requests were made

vars == <<rules, minted, call, writes>>

Ids == Additions \cup Withdrawals
Positions == 0 .. MaxWrites - 1
Modes == {"share", "remainder", "none"}
Row(position, mode) == [priority |-> position, mode |-> mode]
Rows == [priority : Positions, mode : Modes]

Direction(id) == IF id \in Additions THEN Additions ELSE Withdrawals
\* The rules of one direction.
Of(list, direction) == [id \in DOMAIN list \cap direction |-> list[id]]
With(list, id, row) == [x \in DOMAIN list \cup {id} |-> IF x = id THEN row ELSE list[x]]

Remainders(list) == {id \in DOMAIN list : list[id].mode = "remainder"}
\* _validate_remainder_invariant: at most one, and none has a greater priority.
Valid(list) ==
    /\ Cardinality(Remainders(list)) <= 1
    /\ \A id \in Remainders(list), other \in DOMAIN list : list[other].priority <= list[id].priority

Idle == [at |-> "idle", op |-> "none", id |-> "none", new |-> <<>>, overtaken |-> FALSE]

Init ==
    /\ rules = <<>>
    /\ minted = {}
    /\ call = [r \in Requests |-> Idle]
    /\ writes = 0

-----------------------------------------------------------------------------
(* Loading and checking.  A request that fails its checks ends with a 400. *)

Load(r, op, id, new) ==
    /\ call[r].at = "idle"
    /\ writes < MaxWrites
    /\ writes' = writes + 1
    /\ call' = [call EXCEPT ![r] = [at |-> "checked", op |-> op, id |-> id, new |-> new, overtaken |-> FALSE]]
    /\ UNCHANGED rules

\* The place of a new rule: as many as there are.
Append(direction) == Cardinality(DOMAIN rules \cap direction)

\* post_goal_automation.
Post(r, id, mode) ==
    LET new == Row(Append(Additions), mode)
    IN  /\ id \in Additions \ minted
        /\ Valid(With(Of(rules, Additions), id, new))
        /\ minted' = minted \cup {id}
        /\ Load(r, "post", id, new)

\* post_withdrawal_automation: a goal that is in the order keeps its place.
PostWithdrawal(r, id) ==
    /\ id \in Withdrawals
    /\ Load(r, "post", id, Row(IF id \in DOMAIN rules THEN rules[id].priority ELSE Append(Withdrawals), "none"))
    /\ UNCHANGED minted

\* patch_goal_automation: the rule must exist; the client names its priority.
Patch(r, id, new) ==
    /\ id \in Additions \cap DOMAIN rules
    /\ Valid(With(Of(rules, Additions), id, new))
    /\ Load(r, "patch", id, new)
    /\ UNCHANGED minted

\* Every order of a set: its members, each with a place of its own.
Orders(ids) == {f \in [ids -> 0 .. Cardinality(ids) - 1] : \A x, y \in ids : f[x] = f[y] => x = y}

\* _reorder_automations: the order names exactly the rules there are.
Reorder(r, direction, order) ==
    LET new == [id \in DOMAIN order |-> Row(order[id], rules[id].mode)]
    IN  /\ Valid(new)
        /\ Load(r, "reorder", IF direction = Additions THEN "additions" ELSE "withdrawals", new)
        /\ UNCHANGED minted

-----------------------------------------------------------------------------
(* Writing.  The index allows one remainder rule: a second one is a 500.   *)

Overtake(r) ==
    call' = [s \in Requests |-> IF s = r THEN Idle
                                ELSE IF call[s].at = "idle" THEN call[s]
                                ELSE [call[s] EXCEPT !.overtaken = TRUE]]

\* upsert_goal_automation: insert the rule, or replace the row that has its id.
Upsert(r) ==
    LET new == With(rules, call[r].id, call[r].new)
    IN  /\ call[r].at = "checked" /\ call[r].op \in {"post", "patch"}
        /\ Cardinality(Remainders(new)) <= 1
        /\ rules' = new
        /\ Overtake(r)
        /\ UNCHANGED <<minted, writes>>

\* A withdrawal replaces the rules of both directions.
Replace_BothDirections(r) ==
    /\ call[r].at = "checked" /\ call[r].op = "reorder"
    /\ rules' = call[r].new
    /\ Overtake(r)
    /\ UNCHANGED <<minted, writes>>

\* replace_goal_automations: delete the direction's rules, insert the ones loaded.
Replace(r) ==
    LET kept == Of(rules, IF call[r].id = "additions" THEN Withdrawals ELSE Additions)
        new  == [id \in DOMAIN kept \cup DOMAIN call[r].new |->
                    IF id \in DOMAIN kept THEN kept[id] ELSE call[r].new[id]]
    IN  /\ call[r].at = "checked" /\ call[r].op = "reorder"
        /\ rules' = new
        /\ Overtake(r)
        /\ UNCHANGED <<minted, writes>>

Refused(r) ==
    /\ call[r].at = "checked" /\ call[r].op \in {"post", "patch"}
    /\ Cardinality(Remainders(With(rules, call[r].id, call[r].new))) > 1
    /\ call' = [call EXCEPT ![r] = Idle]
    /\ UNCHANGED <<rules, minted, writes>>

\* delete_goal_automation_route: one statement; the others keep their priorities.
Remove(r, id) ==
    /\ call[r].at = "idle"
    /\ writes < MaxWrites
    /\ id \in DOMAIN rules
    /\ rules' = Of(rules, Ids \ {id})
    /\ writes' = writes + 1
    /\ Overtake(r)
    /\ UNCHANGED minted

Next ==
    \E r \in Requests :
        \/ \E id \in Additions, mode \in {"share", "remainder"} : Post(r, id, mode)
        \/ \E id \in Withdrawals : PostWithdrawal(r, id)
        \/ \E id \in Additions, new \in [priority : Positions, mode : {"share", "remainder"}] : Patch(r, id, new)
        \/ \E direction \in {Additions, Withdrawals} : \E order \in Orders(DOMAIN rules \cap direction) :
              Reorder(r, direction, order)
        \/ Upsert(r) \/ Replace(r) \/ Refused(r)
        \/ \E id \in Ids : Remove(r, id)

Spec == Init /\ [][Next]_vars

-----------------------------------------------------------------------------
(* Properties.                                                             *)

TypeOK ==
    /\ DOMAIN rules \subseteq Ids
    /\ \A id \in DOMAIN rules : rules[id] \in Rows /\ (rules[id].mode = "none" <=> id \in Withdrawals)
    /\ minted \subseteq Additions
    /\ \A r \in Requests : call[r].at \in {"idle", "checked"} /\ call[r].overtaken \in BOOLEAN

\* The rules a write is about: one, or all of its direction.
Written(r) == IF call[r].op = "reorder"
              THEN (IF call[r].id = "additions" THEN Additions ELSE Withdrawals) ELSE {call[r].id}

\* Every write leaves the rules it is not about as they are.  A write that no other
\* write overtook leaves a list of contributions the checks accept if it found one,
\* and a reorder then keeps every rule and what it says.
WritesKeepTheList ==
    \A r \in Requests :
       (Upsert(r) \/ Replace(r)) =>
           /\ Of(rules', Ids \ Written(r)) = Of(rules, Ids \ Written(r))
           /\ ~call[r].overtaken /\ Valid(Of(rules, Additions)) => Valid(Of(rules', Additions))
           /\ ~call[r].overtaken /\ call[r].op = "reorder" =>
                 /\ DOMAIN rules' = DOMAIN rules
                 /\ \A id \in DOMAIN rules : rules'[id].mode = rules[id].mode

-----------------------------------------------------------------------------
(* What the properties rest on.                                            *)

\* A rule to be written is one the checks took, beside the rules there are: beside
\* those there were, if another write came between.
ChecksStillHold(c) ==
    /\ c.op \in {"post", "patch"}
    /\ c.id \in Ids
    /\ ~c.overtaken /\ c.id \in Additions => Valid(With(Of(rules, Additions), c.id, c.new))

\* An order to be written is one of rules of one direction, which the checks took: of all
\* of them, each with its mode, unless another write came between.
Ordered(c) == IF c.id = "additions" THEN Additions ELSE Withdrawals
OrdersAreWhole(c) ==
    /\ c.op = "reorder"
    /\ c.new = Of(c.new, Ordered(c)) /\ Valid(c.new)
    /\ ~c.overtaken => /\ DOMAIN c.new = DOMAIN rules \cap Ordered(c)
                       /\ \A id \in DOMAIN c.new : c.new[id].mode = rules[id].mode

IsACall(c) == c = [at |-> c.at, op |-> c.op, id |-> c.id, new |-> c.new, overtaken |-> c.overtaken]

IInv ==
    /\ rules = Of(rules, Ids)
    /\ DOMAIN call = Requests /\ \A r \in Requests : IsACall(call[r]) /\ call[r].overtaken \in BOOLEAN
    /\ \A r \in Requests : call[r].at = "checked" => ChecksStillHold(call[r]) \/ OrdersAreWhole(call[r])

=============================================================================
