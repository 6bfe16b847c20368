--------------------------- MODULE ProviderUsage ---------------------------
(***************************************************************************)
(* Calls to the language-model providers and the counters kept of them:    *)
(* complete_with_fallback tries the providers in order, TrackedProvider    *)
(* records each call, record_call reads every provider's row and writes    *)
(* every provider's row back.  Requests overlap, a provider's period ends  *)
(* at any time, and under row-level security the user is lost with the     *)
(* first recording's commit.                                               *)
(***************************************************************************)
EXTENDS Naturals, Sequences

CONSTANTS
    Providers,      \* the configured providers, in the order they are tried
    Callers,        \* requests that can be under way at once
    MaxCalls,       \* how many calls are made to each provider
    MaxPeriod       \* how many times a provider's period can roll over

VARIABLES
    secured,        \* does row-level security apply to the role
    period,         \* the current period of each provider
    usage,          \* the stored row of each provider
    caller,         \* where each request is
    made            \* history: the calls made, and those of the current period that succeeded

vars == <<secured, period, usage, caller, made>>

Names == {Providers[i] : i \in DOMAIN Providers}

Fresh(n) == [period |-> period[n], count |-> 0, limited |-> FALSE]
\* An elapsed period resets nothing.
LoadUsage_NoRollover(n) == usage[n]

\* A row of an elapsed period is read as a fresh one.  (There is no row at first.)
LoadUsage(n) == IF usage[n].period >= period[n] THEN usage[n] ELSE Fresh(n)

NotCalling          == [at |-> "idle", turn |-> 0, ok |-> FALSE, read |-> <<>>, lost |-> FALSE]
Calling(turn, lost) == [at |-> "calling", turn |-> turn, ok |-> FALSE, read |-> <<>>, lost |-> lost]

Init ==
    /\ secured \in BOOLEAN
    /\ period = [n \in Names |-> 1]
    /\ usage = [n \in Names |-> [period |-> 0, count |-> 0, limited |-> FALSE]]
    /\ caller = [c \in Callers |-> NotCalling]
    /\ made = [n \in Names |-> [calls |-> 0, good |-> 0]]

\* complete_with_fallback begins with the first provider.
Begin(c) ==
    /\ caller[c].at = "idle"
    /\ Providers # <<>>
    /\ caller' = [caller EXCEPT ![c] = Calling(1, FALSE)]
    /\ UNCHANGED <<secured, period, usage, made>>

\* The provider answers or fails, and the row of every provider is read.
Called(c, ok) ==
    LET n == Providers[caller[c].turn]
    IN  /\ caller[c].at = "calling"
        /\ made[n].calls < MaxCalls
        /\ IF secured /\ caller[c].lost
           THEN \* the row is invisible and the insert refused: a 500
                /\ caller' = [caller EXCEPT ![c] = NotCalling]
                /\ UNCHANGED made
           ELSE /\ caller' = [caller EXCEPT ![c] = [@ EXCEPT !.at = "read", !.ok = ok,
                                                            !.read = [m \in Names |-> LoadUsage(m)]]]
                /\ made' = [made EXCEPT ![n] = [calls |-> @.calls + 1,
                                                  good |-> IF ok THEN @.good + 1 ELSE @.good]]
        /\ UNCHANGED <<secured, period, usage>>

\* The entry record_call writes for the provider that was called.
Recorded(e, ok) ==
    IF ~ok THEN [e EXCEPT !.limited = TRUE]
    ELSE [period |-> e.period, count |-> IF e.limited THEN 0 ELSE e.count + 1, limited |-> FALSE]

\* save_usage upserts every provider and commits; after a failure the next provider
\* is tried, after an answer or the last failure the request is over.
Record(c) ==
    LET n == Providers[caller[c].turn]
        again == ~caller[c].ok /\ caller[c].turn < Len(Providers)
    IN  /\ caller[c].at = "read"
        /\ usage' = [m \in Names |-> IF m = n THEN Recorded(caller[c].read[m], caller[c].ok)
                                     ELSE caller[c].read[m]]
        /\ caller' = [caller EXCEPT ![c] =
                        IF again THEN Calling(caller[c].turn + 1, TRUE) ELSE NotCalling]
        /\ UNCHANGED <<secured, period, made>>

\* A day or a month ends: gemini's period is a day, mistral's a month.
NewPeriod(n) ==
    /\ period[n] < MaxPeriod
    /\ period' = [period EXCEPT ![n] = @ + 1]
    /\ made' = [made EXCEPT ![n].good = 0]
    /\ UNCHANGED <<secured, usage, caller>>

Next ==
    \/ \E c \in Callers : Begin(c) \/ Record(c) \/ \E ok \in BOOLEAN : Called(c, ok)
    \/ \E n \in Names : NewPeriod(n)

Spec == Init /\ [][Next]_vars

-----------------------------------------------------------------------------
(* Properties.                                                             *)

TypeOK ==
    /\ usage \in [Names -> [period : 0..MaxPeriod, count : 0..MaxCalls, limited : BOOLEAN]]
    /\ \A c \in Callers : caller[c].turn \in 0..Len(Providers)

\* What GET /llm-usage shows is never more than what was used: races lose calls,
\* and no period inherits the calls of the one before.
UsageIsNeverOverstated == \A n \in Names : LoadUsage(n).count <= made[n].good

\* The strengthening every step preserves.  What an entry counts in the provider's own
\* period was used in it; and a call that succeeded is among those used while its
\* recording is still to come.
Entry == [period : Nat, count : Nat, limited : BOOLEAN]
Honest(n, e, more) == e.period <= period[n] /\ (e.period = period[n] => e.count + more <= made[n].good)

EntriesAreHonest == \A n \in Names : Honest(n, usage[n], 0)

Due(c, n) == IF caller[c].ok /\ n = Providers[caller[c].turn] THEN 1 ELSE 0
ReadingsAreHonest ==
    \A c \in Callers : caller[c].at = "read" =>
       /\ caller[c].read \in [Names -> Entry]
       /\ \A n \in Names : Honest(n, caller[c].read[n], Due(c, n))

Counted ==
    /\ period \in [Names -> Nat] /\ usage \in [Names -> Entry] /\ made \in [Names -> [calls : Nat, good : Nat]]
    /\ caller \in [Callers -> [at : {"idle", "calling", "read"}, turn : 0..Len(Providers), ok : BOOLEAN,
                               read : [Names -> Entry] \cup {<<>>}, lost : BOOLEAN]]
    /\ \A c \in Callers : caller[c].at # "idle" => caller[c].turn > 0

IInv == Counted /\ EntriesAreHonest /\ ReadingsAreHonest

=============================================================================
