--------------------------- MODULE Provisioning ---------------------------
(***************************************************************************)
(* How an account at the identity provider (Clerk) becomes a user here:    *)
(* by the user.created webhook, or just in time by the first request of a  *)
(* session whose account has no user yet.  Webhooks run on the event loop, *)
(* one at a time, may be delivered late, repeatedly and in any order;      *)
(* requests run on threads beside them.  user.deleted deactivates.         *)
(*                                                                         *)
(* The users and external_identities rows are written in one transaction   *)
(* by provision_linked_user; (provider, external_id) is a primary key, so  *)
(* a second insert of it waits for the first one's commit.                 *)
(***************************************************************************)
EXTENDS Naturals

CONSTANTS
    Accounts,       \* accounts at the identity provider
    Threads,        \* request threads
    Webhook,        \* the event loop's worker
    NoUser,
    MaxAttempts     \* how many provisionings each worker begins

VARIABLES
    clerk,          \* each account at the provider: "none", "live" or "gone"
    users,          \* committed users: "none", "active" or "inactive"
    identity,       \* committed link of each account
    worker,         \* where each worker is
    attempts,       \* how many user ids each worker has minted
    events,         \* webhooks the provider has sent, each <<type, account>>
    ended           \* history: accounts whose user a deletion deactivated

vars == <<clerk, users, identity, worker, attempts, events, ended>>

Workers == Threads \cup {Webhook}
\* An id is opaque; it is named here by who minted it, for which account.
Users == Workers \X Accounts \X (1..MaxAttempts)

AtRest            == [at |-> "idle", account |-> NoUser, user |-> NoUser, answer |-> NoUser]
Answered(a, u)    == [at |-> "idle", account |-> a, user |-> NoUser, answer |-> u]
Working(at, a, u) == [at |-> at, account |-> a, user |-> u, answer |-> NoUser]

Init ==
    /\ clerk = [a \in Accounts |-> "none"]
    /\ users = [u \in Users |-> "none"]
    /\ identity = [a \in Accounts |-> NoUser]
    /\ worker = [w \in Workers |-> AtRest]
    /\ attempts = [w \in Workers |-> 0]
    /\ events = {}
    /\ ended = {}

Go(w, at) == worker' = [worker EXCEPT ![w].at = at]

-----------------------------------------------------------------------------
(* The identity provider.                                                  *)

SignUp(a) ==
    /\ clerk[a] = "none"
    /\ clerk' = [clerk EXCEPT ![a] = "live"]
    /\ events' = events \cup {<<"created", a>>}
    /\ UNCHANGED <<users, identity, worker, attempts, ended>>

Remove(a) ==
    /\ clerk[a] = "live"
    /\ clerk' = [clerk EXCEPT ![a] = "gone"]
    /\ events' = events \cup {<<"deleted", a>>}
    /\ UNCHANGED <<users, identity, worker, attempts, ended>>

-----------------------------------------------------------------------------
(* Requests.                                                               *)

\* resolve_current_user_id: the session is valid (a token outlives its account for
\* a while), and its account's link is looked up.
SignIn(t, a) ==
    /\ worker[t].at = "idle"
    /\ clerk[a] # "none"
    /\ worker' = [worker EXCEPT ![t] =
                    IF identity[a] # NoUser
                    THEN Answered(a, identity[a])
                    ELSE Working("confirming", a, NoUser)]
    /\ UNCHANGED <<clerk, users, identity, attempts, events, ended>>

\* _confirmed_primary_email: the provider confirms a live account, or it is a 401.
Confirm(t) ==
    /\ worker[t].at = "confirming"
    /\ IF clerk[worker[t].account] = "live" THEN Go(t, "provision")
       ELSE worker' = [worker EXCEPT ![t] = AtRest]
    /\ UNCHANGED <<clerk, users, identity, attempts, events, ended>>

\* ... or it cannot be reached.
ConfirmFails(t) ==
    /\ worker[t].at = "confirming"
    /\ worker' = [worker EXCEPT ![t] = AtRest]
    /\ UNCHANGED <<clerk, users, identity, attempts, events, ended>>

-----------------------------------------------------------------------------
(* provision_linked_user.                                                  *)

\* Look the link up once more; without one, mint an id and insert the user in a
\* savepoint.
Provision(w) ==
    /\ worker[w].at = "provision"
    /\ LET a == worker[w].account
       IN  IF identity[a] # NoUser
           THEN /\ worker' = [worker EXCEPT ![w] = Answered(a, identity[a])]
                /\ UNCHANGED attempts
           ELSE /\ attempts[w] < MaxAttempts
                /\ attempts' = [attempts EXCEPT ![w] = @ + 1]
                /\ worker' = [worker EXCEPT ![w] = Working("inserted", a, <<w, a, attempts[w] + 1>>)]
    /\ UNCHANGED <<clerk, users, identity, events, ended>>

\* Does another worker's open transaction hold the link's key?
Held(w) == \E v \in Workers \ {w} : worker[v].at = "linked" /\ worker[v].account = worker[w].account

\* A lost race keeps the user it had inserted.
Link_KeepsUser(w) ==
    LET a == worker[w].account
    IN  /\ worker[w].at = "inserted"
        /\ ~Held(w)
        /\ IF identity[a] = NoUser THEN Go(w, "linked") /\ UNCHANGED users
           ELSE /\ worker' = [worker EXCEPT ![w] = Answered(a, identity[a])]
                /\ users' = [users EXCEPT ![worker[w].user] = "active"]
        /\ UNCHANGED <<clerk, identity, attempts, events, ended>>

\* link_identity: the insert waits for a holder; on a conflict the savepoint, and
\* with it the user, is rolled back and the winner's id is the answer.
Link(w) ==
    LET a == worker[w].account
    IN  /\ worker[w].at = "inserted"
        /\ ~Held(w)
        /\ IF identity[a] = NoUser THEN Go(w, "linked")
           ELSE worker' = [worker EXCEPT ![w] = Answered(a, identity[a])]
        /\ UNCHANGED <<clerk, users, identity, attempts, events, ended>>

Commit(w) ==
    LET a == worker[w].account u == worker[w].user
    IN  /\ worker[w].at = "linked"
        /\ users' = [users EXCEPT ![u] = "active"]
        /\ identity' = [identity EXCEPT ![a] = u]
        /\ worker' = [worker EXCEPT ![w] = Answered(a, u)]
        /\ UNCHANGED <<clerk, attempts, events, ended>>

\* The transaction fails: a webhook is answered 500 and delivered again, a request
\* is simply made again.
Break(w) ==
    /\ worker[w].at \in {"inserted", "linked"}
    /\ worker' = [worker EXCEPT ![w] = AtRest]
    /\ UNCHANGED <<clerk, users, identity, attempts, events, ended>>

-----------------------------------------------------------------------------
(* Webhooks.                                                               *)

\* A delivery, the first or a later one.
Created(a) ==
    /\ worker[Webhook].at = "idle"
    /\ <<"created", a>> \in events
    /\ worker' = [worker EXCEPT ![Webhook] = Working("provision", a, NoUser)]
    /\ UNCHANGED <<clerk, users, identity, attempts, events, ended>>

\* _deactivate_user finds the link in one session and clears is_active in another;
\* an account without a link is left alone.
Deleted(a) ==
    /\ worker[Webhook].at = "idle"
    /\ <<"deleted", a>> \in events
    /\ worker' = [worker EXCEPT ![Webhook] =
                    IF identity[a] = NoUser THEN AtRest
                    ELSE Working("deactivating", a, identity[a])]
    /\ UNCHANGED <<clerk, users, identity, attempts, events, ended>>

Deactivate ==
    /\ worker[Webhook].at = "deactivating"
    /\ users' = [users EXCEPT ![worker[Webhook].user] = "inactive"]
    /\ ended' = ended \cup {worker[Webhook].account}
    /\ worker' = [worker EXCEPT ![Webhook] = AtRest]
    /\ UNCHANGED <<clerk, identity, attempts, events>>

Next ==
    \/ \E a \in Accounts : SignUp(a) \/ Remove(a) \/ Created(a) \/ Deleted(a)
    \/ \E t \in Threads : Confirm(t) \/ ConfirmFails(t) \/ \E a \in Accounts : SignIn(t, a)
    \/ \E w \in Workers : Provision(w) \/ Link(w) \/ Commit(w) \/ Break(w)
    \/ Deactivate

Spec == Init /\ [][Next]_vars

-----------------------------------------------------------------------------
(* Properties.                                                             *)

TypeOK ==
    /\ users \in [Users -> {"none", "active", "inactive"}]
    /\ identity \in [Accounts -> Users \cup {NoUser}]
    /\ \A w \in Workers : worker[w].answer \in Users \cup {NoUser}

\* However sign-ins and deliveries race, an account has one user, every user has its
\* account, and whoever asked was answered with the id the account is linked to.
OneUserPerAccount ==
    /\ \A a \in Accounts : identity[a] # NoUser => users[identity[a]] # "none"
    /\ \A u \in Users : users[u] # "none" => identity[u[2]] = u
    /\ \A w \in Workers : worker[w].answer # NoUser => worker[w].answer = identity[worker[w].account]

\* Handling the deletion of an account that has its user is final: no later delivery,
\* and no request that was confirmed before, makes a user of the account active.  (A
\* deletion handled before there is a user changes nothing, so one created after it,
\* by a delivery in the wrong order or a request confirmed earlier, stays active.)
DeletionIsFinal == \A u \in Users : u[2] \in ended => users[u] # "active"

\* The strengthening of both that every step preserves.  A worker holds an id it has
\* minted and nobody has committed; a link belongs to its account and stays.
WorkersHoldFreshIds ==
    /\ worker \in [Workers -> [at : {"idle", "confirming", "provision", "inserted", "linked", "deactivating"},
                               account : Accounts \cup {NoUser}, user : Users \cup {NoUser},
                               answer : Users \cup {NoUser}]]
    /\ attempts \in [Workers -> 0..MaxAttempts]
    /\ \A w \in Workers :
          /\ worker[w].at # "idle" \/ worker[w].answer # NoUser => worker[w].account \in Accounts
          /\ worker[w].at \in {"inserted", "linked"} => /\ attempts[w] > 0
                                                        /\ worker[w].user = <<w, worker[w].account, attempts[w]>>
                                                        /\ users[worker[w].user] = "none"
    /\ \A w \in Workers, a \in Accounts, n \in 1..MaxAttempts : n > attempts[w] => users[<<w, a, n>>] = "none"

LinksStay ==
    /\ \A a \in Accounts : identity[a] # NoUser => identity[a][2] = a
    /\ \A w \in Workers :
          /\ worker[w].at = "linked" => identity[worker[w].account] = NoUser /\ ~Held(w)
          /\ worker[w].at = "deactivating" => identity[worker[w].account] = worker[w].user /\ worker[w].user # NoUser

EndedUsersAreInactive == \A a \in ended : /\ a \in Accounts /\ identity[a] # NoUser
                                          /\ users[identity[a]] = "inactive"

IInv == TypeOK /\ WorkersHoldFreshIds /\ LinksStay /\ OneUserPerAccount /\ EndedUsersAreInactive

=============================================================================
