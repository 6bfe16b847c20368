----------------------------- MODULE Parts_proofs ----------------------------
(***************************************************************************)
(* Proofs about parts of MCRecords, for every value of their constants:    *)
(* the counters of the providers, the versions of a row, the database      *)
(* backups, the price cache, the automation rules of goals, what is said   *)
(* about postings, the accounts, the transfer links, the imported ledger,  *)
(* the exchange rates, provisioning and the natural keys.                  *)
(***************************************************************************)
EXTENDS Sums_proofs

-----------------------------------------------------------------------------
(* The counters of the providers.                                          *)

CONSTANTS Providers, Callers, MaxCalls, MaxPeriod
VARIABLES secured, period, usage, caller, made
Usage == INSTANCE ProviderUsage

\* What the parameters are.
ProvidersAreListed == Len(Providers) \in Nat /\ DOMAIN Providers = 1..Len(Providers)

LEMMA UsageInitInv == ProvidersAreListed /\ Usage!Init => Usage!IInv
<1> SUFFICES ASSUME ProvidersAreListed, Usage!Init PROVE Usage!IInv OBVIOUS
<1> USE DEF Usage!Init, Usage!NotCalling, Usage!Entry, ProvidersAreListed
<1>1. Usage!Counted BY DEF Usage!Counted
<1>2. Usage!EntriesAreHonest BY DEF Usage!EntriesAreHonest, Usage!Honest
<1>3. Usage!ReadingsAreHonest BY DEF Usage!ReadingsAreHonest
<1> QED BY <1>1, <1>2, <1>3 DEF Usage!IInv

\* The provider a request is at is one of them.
LEMMA TurnsAreProviders ==
  ASSUME ProvidersAreListed, Usage!IInv, NEW c \in Callers, caller[c].at # "idle"
  PROVE  caller[c].turn \in 1..Len(Providers) /\ Providers[caller[c].turn] \in Usage!Names
<1>1. caller[c].turn \in 1..Len(Providers) BY DEF Usage!IInv, Usage!Counted, ProvidersAreListed
<1> QED BY <1>1 DEF Usage!Names, ProvidersAreListed

\* An honest entry stays honest while calls are made, and when its period ends.
LEMMA HonestyLasts ==
  ASSUME Usage!Counted, NEW n \in Usage!Names, NEW e \in Usage!Entry, NEW more \in Nat, Usage!Honest(n, e, more),
         period'[n] \in Nat, made'[n].good \in Nat, period'[n] >= period[n],
         period'[n] = period[n] => made'[n].good >= made[n].good
  PROVE  Usage!Honest(n, e, more)'
BY DEF Usage!Counted, Usage!Honest, Usage!Entry

LEMMA CalledInv ==
  ASSUME ProvidersAreListed, Usage!IInv, NEW c \in Callers, NEW ok \in BOOLEAN, Usage!Called(c, ok)
  PROVE  Usage!IInv'
<1> DEFINE n == Providers[caller[c].turn]
           reads == [m \in Usage!Names |-> Usage!LoadUsage(m)]
<1>0. /\ caller[c].at = "calling" /\ n \in Usage!Names /\ UNCHANGED <<period, usage>>
      /\ period \in [Usage!Names -> Nat] /\ usage \in [Usage!Names -> Usage!Entry]
      /\ made \in [Usage!Names -> [calls : Nat, good : Nat]]
  BY TurnsAreProviders DEF Usage!Called, Usage!IInv, Usage!Counted
<1>1. CASE secured /\ caller[c].lost
  <2>1. caller' = [caller EXCEPT ![c] = Usage!NotCalling] /\ UNCHANGED <<period, usage, made>>
    BY <1>1 DEF Usage!Called
  <2> QED BY <2>1 DEF Usage!IInv, Usage!Counted, Usage!EntriesAreHonest, Usage!ReadingsAreHonest, Usage!Honest,
                      Usage!Due, Usage!NotCalling, ProvidersAreListed
<1>2. CASE ~(secured /\ caller[c].lost)
  <2>1. /\ caller' = [caller EXCEPT ![c] = [caller[c] EXCEPT !.at = "read", !.ok = ok, !.read = reads]]
        /\ made' = [made EXCEPT ![n] = [calls |-> @.calls + 1, good |-> IF ok THEN @.good + 1 ELSE @.good]]
    BY <1>0, <1>2 DEF Usage!Called
  <2>2. /\ reads \in [Usage!Names -> Usage!Entry]
        /\ \A m \in Usage!Names : Usage!Honest(m, reads[m], 0)
    BY <1>0 DEF Usage!LoadUsage, Usage!Fresh, Usage!Entry, Usage!Honest, Usage!IInv, Usage!EntriesAreHonest
  <2> HIDE DEF reads
  <2>3. /\ made' \in [Usage!Names -> [calls : Nat, good : Nat]]
        /\ made'[n].good = IF ok THEN made[n].good + 1 ELSE made[n].good
        /\ \A m \in Usage!Names : made'[m].good >= made[m].good
    BY <1>0, <2>1
  <2>4. /\ caller' \in [Callers -> [at : {"idle", "calling", "read"}, turn : 0..Len(Providers), ok : BOOLEAN,
                                    read : [Usage!Names -> Usage!Entry] \cup {<<>>}, lost : BOOLEAN]]
        /\ caller'[c].read = reads /\ caller'[c].ok = ok /\ caller'[c].turn = caller[c].turn
        /\ caller'[c].at = "read"
        /\ \A d \in Callers : d # c => caller'[d] = caller[d]
    BY <2>1, <2>2 DEF Usage!IInv, Usage!Counted
  <2>5. Usage!Counted' BY <1>0, <2>3, <2>4 DEF Usage!IInv, Usage!Counted
  <2>6. \A m \in Usage!Names, e \in Usage!Entry, more \in Nat :
           Usage!Honest(m, e, more) => Usage!Honest(m, e, more)'
    BY <1>0, <2>3, HonestyLasts DEF Usage!IInv
  <2>7. Usage!EntriesAreHonest'
    <3>1. \A m \in Usage!Names : usage'[m] = usage[m] /\ usage[m] \in Usage!Entry BY <1>0
    <3> QED BY <2>6, <3>1 DEF Usage!IInv, Usage!EntriesAreHonest, Usage!Honest
  <2>8. Usage!ReadingsAreHonest'
    <3>1. ASSUME NEW d \in Callers, d # c, caller'[d].at = "read", NEW m \in Usage!Names
          PROVE  caller[d].read \in [Usage!Names -> Usage!Entry]
                 /\ Usage!Honest(m, caller[d].read[m], Usage!Due(d, m))'
      <4>1. /\ caller[d].at = "read" /\ caller[d].read \in [Usage!Names -> Usage!Entry]
            /\ Usage!Honest(m, caller[d].read[m], Usage!Due(d, m)) /\ caller'[d] = caller[d]
        BY <2>4, <3>1 DEF Usage!IInv, Usage!ReadingsAreHonest
      <4>2. Usage!Due(d, m) \in Nat /\ Usage!Due(d, m)' = Usage!Due(d, m) BY <4>1 DEF Usage!Due
      <4>3. caller[d].read[m] \in Usage!Entry BY <4>1
      <4>4. Usage!Honest(m, caller[d].read[m], Usage!Due(d, m))
        BY <4>1
      <4> QED BY <2>6, <4>1, <4>2, <4>3 DEF Usage!Honest
    <3>2. ASSUME NEW m \in Usage!Names
          PROVE  /\ reads[m].period <= period'[m]
                 /\ reads[m].period = period'[m] => reads[m].count + Usage!Due(c, m)' <= made'[m].good
      <4>1. reads[m] \in Usage!Entry /\ Usage!Honest(m, reads[m], 0) BY <2>2
      <4>2. Usage!Due(c, m)' = IF ok /\ m = n THEN 1 ELSE 0 BY <2>4 DEF Usage!Due
      <4> QED BY <1>0, <2>3, <4>1, <4>2 DEF Usage!Honest, Usage!Entry
    <3>3. ASSUME NEW d \in Callers, caller'[d].at = "read"
          PROVE  /\ caller'[d].read \in [Usage!Names -> Usage!Entry]
                 /\ \A m \in Usage!Names :
                       /\ caller'[d].read[m].period <= period'[m]
                       /\ caller'[d].read[m].period = period'[m]
                             => caller'[d].read[m].count + Usage!Due(d, m)' <= made'[m].good
      <4>1. CASE d = c BY <2>2, <2>4, <3>2, <4>1
      <4>2. CASE d # c
        <5>1. caller'[d] = caller[d] BY <2>4, <4>2
        <5>2. caller'[d].read \in [Usage!Names -> Usage!Entry]
          BY <3>3, <4>2, <5>1 DEF Usage!IInv, Usage!ReadingsAreHonest
        <5>3. ASSUME NEW m \in Usage!Names
              PROVE  /\ caller'[d].read[m].period <= period'[m]
                     /\ caller'[d].read[m].period = period'[m]
                          => caller'[d].read[m].count + Usage!Due(d, m)' <= made'[m].good
          <6>1. Usage!Honest(m, caller[d].read[m], Usage!Due(d, m))' BY <3>1, <3>3, <4>2
          <6> QED BY <6>1 DEF Usage!Honest
        <5> QED BY <5>2, <5>3
      <4> QED BY <4>1, <4>2
    <3> QED BY <3>3 DEF Usage!ReadingsAreHonest, Usage!Honest
  <2> QED BY <2>5, <2>7, <2>8 DEF Usage!IInv
<1> QED BY <1>1, <1>2

LEMMA RecordedEntries ==
  ASSUME NEW e \in Usage!Entry, NEW ok \in BOOLEAN
  PROVE  /\ Usage!Recorded(e, ok) \in Usage!Entry /\ Usage!Recorded(e, ok).period = e.period
         /\ Usage!Recorded(e, ok).count \in IF ok THEN {0, e.count + 1} ELSE {e.count}
<1>1. CASE ok BY <1>1 DEF Usage!Recorded, Usage!Entry
<1>2. CASE ~ok BY <1>2 DEF Usage!Recorded, Usage!Entry
<1> QED BY <1>1, <1>2

LEMMA RecordInv ==
  ASSUME ProvidersAreListed, Usage!IInv, NEW c \in Callers, Usage!Record(c)
  PROVE  Usage!IInv'
<1> DEFINE n == Providers[caller[c].turn]
<1>0. /\ caller[c].at = "read" /\ n \in Usage!Names /\ UNCHANGED <<period, made>>
      /\ caller[c].turn \in 1..Len(Providers) /\ caller[c].read \in [Usage!Names -> Usage!Entry]
      /\ period \in [Usage!Names -> Nat] /\ made \in [Usage!Names -> [calls : Nat, good : Nat]]
  BY TurnsAreProviders DEF Usage!Record, Usage!IInv, Usage!Counted, Usage!ReadingsAreHonest
<1>1. \A m \in Usage!Names : Usage!Honest(m, caller[c].read[m], Usage!Due(c, m))
  BY <1>0 DEF Usage!IInv, Usage!ReadingsAreHonest
<1>2. /\ usage' = [m \in Usage!Names |-> IF m = n THEN Usage!Recorded(caller[c].read[m], caller[c].ok)
                                         ELSE caller[c].read[m]]
      /\ \/ caller' = [caller EXCEPT ![c] = Usage!NotCalling]
         \/ /\ caller[c].turn < Len(Providers)
            /\ caller' = [caller EXCEPT ![c] = Usage!Calling(caller[c].turn + 1, TRUE)]
  BY DEF Usage!Record
<1>3. ASSUME NEW m \in Usage!Names
      PROVE  usage'[m] \in Usage!Entry /\ Usage!Honest(m, usage'[m], 0)
  <2> DEFINE e == caller[c].read[m]
  <2>1. e \in Usage!Entry /\ Usage!Honest(m, e, Usage!Due(c, m)) /\ caller[c].ok \in BOOLEAN
        /\ usage'[m] = IF m = n THEN Usage!Recorded(e, caller[c].ok) ELSE e
    BY <1>0, <1>1, <1>2 DEF Usage!IInv, Usage!Counted
  <2> HIDE DEF e
  <2>2. CASE m # n
    <3>1. usage'[m] = e /\ Usage!Due(c, m) = 0 BY <2>1, <2>2 DEF Usage!Due
    <3> QED BY <2>1, <3>1
  <2>3. CASE m = n /\ caller[c].ok
    <3>1. usage'[m] = Usage!Recorded(e, TRUE) /\ Usage!Due(c, m) = 1 BY <2>1, <2>3 DEF Usage!Due
    <3>2. /\ usage'[m] \in Usage!Entry /\ usage'[m].period = e.period
          /\ usage'[m].count \in {0, e.count + 1}
      BY <2>1, <3>1, RecordedEntries
    <3> QED BY <1>0, <2>1, <3>1, <3>2 DEF Usage!Honest, Usage!Entry
  <2>4. CASE m = n /\ ~caller[c].ok
    <3>1. usage'[m] = Usage!Recorded(e, FALSE) /\ Usage!Due(c, m) = 0 BY <2>1, <2>4 DEF Usage!Due
    <3>2. usage'[m] \in Usage!Entry /\ usage'[m].period = e.period /\ usage'[m].count = e.count
      BY <2>1, <3>1, RecordedEntries
    <3> QED BY <2>1, <3>1, <3>2 DEF Usage!Honest
  <2> QED BY <2>2, <2>3, <2>4
<1>4. /\ caller' \in [Callers -> [at : {"idle", "calling", "read"}, turn : 0..Len(Providers), ok : BOOLEAN,
                                  read : [Usage!Names -> Usage!Entry] \cup {<<>>}, lost : BOOLEAN]]
      /\ caller'[c].at # "read" /\ (caller'[c].at # "idle" => caller'[c].turn > 0)
      /\ \A d \in Callers : d # c => caller'[d] = caller[d]
  <2>1. CASE caller' = [caller EXCEPT ![c] = Usage!NotCalling]
    BY <2>1 DEF Usage!IInv, Usage!Counted, Usage!NotCalling, ProvidersAreListed
  <2>2. CASE /\ caller[c].turn < Len(Providers)
             /\ caller' = [caller EXCEPT ![c] = Usage!Calling(caller[c].turn + 1, TRUE)]
    <3>1. caller[c].turn + 1 \in 0..Len(Providers) /\ caller[c].turn + 1 > 0 BY <1>0, <2>2 DEF ProvidersAreListed
    <3> QED BY <2>2, <3>1 DEF Usage!IInv, Usage!Counted, Usage!Calling
  <2> QED BY <1>2, <2>1, <2>2
<1>5. Usage!Counted'
  <2>1. usage' \in [Usage!Names -> Usage!Entry] BY <1>2, <1>3
  <2> QED BY <1>0, <1>4, <2>1 DEF Usage!IInv, Usage!Counted
<1>6. Usage!EntriesAreHonest' BY <1>0, <1>3 DEF Usage!EntriesAreHonest, Usage!Honest
<1>7. Usage!ReadingsAreHonest'
  <2>1. \A d \in Callers, m \in Usage!Names : d # c => Usage!Due(d, m)' = Usage!Due(d, m)
    BY <1>4 DEF Usage!Due
  <2> QED BY <1>0, <1>4, <2>1 DEF Usage!IInv, Usage!ReadingsAreHonest, Usage!Honest
<1> QED BY <1>5, <1>6, <1>7 DEF Usage!IInv

LEMMA NewPeriodInv ==
  ASSUME Usage!IInv, NEW n \in Usage!Names, Usage!NewPeriod(n)
  PROVE  Usage!IInv'
<1>1. /\ period' \in [Usage!Names -> Nat] /\ made' \in [Usage!Names -> [calls : Nat, good : Nat]]
      /\ UNCHANGED <<usage, caller>>
      /\ \A m \in Usage!Names : /\ period'[m] >= period[m]
                                /\ period'[m] = period[m] => made'[m].good >= made[m].good
  <2>1. /\ period \in [Usage!Names -> Nat] /\ made \in [Usage!Names -> [calls : Nat, good : Nat]]
        /\ period' = [period EXCEPT ![n] = @ + 1] /\ made' = [made EXCEPT ![n].good = 0]
    BY DEF Usage!NewPeriod, Usage!IInv, Usage!Counted
  <2>2. UNCHANGED <<usage, caller>> BY DEF Usage!NewPeriod
  <2> QED BY <2>1, <2>2
<1>2. \A m \in Usage!Names, e \in Usage!Entry, more \in Nat :
         Usage!Honest(m, e, more) => Usage!Honest(m, e, more)'
  <2>1. \A m \in Usage!Names : period'[m] \in Nat /\ made'[m].good \in Nat BY <1>1
  <2> QED BY <1>1, <2>1, HonestyLasts DEF Usage!IInv
<1>3. Usage!Counted' BY <1>1 DEF Usage!IInv, Usage!Counted
<1>4. Usage!EntriesAreHonest'
  <2>1. \A m \in Usage!Names : usage[m] \in Usage!Entry BY DEF Usage!IInv, Usage!Counted
  <2> QED BY <1>1, <1>2, <2>1 DEF Usage!IInv, Usage!EntriesAreHonest, Usage!Honest
<1>5. Usage!ReadingsAreHonest'
  <2>1. \A c \in Callers, m \in Usage!Names : Usage!Due(c, m) \in Nat /\ Usage!Due(c, m)' = Usage!Due(c, m)
    BY <1>1 DEF Usage!Due
  <2> QED BY <1>1, <1>2, <2>1 DEF Usage!IInv, Usage!ReadingsAreHonest, Usage!Honest
<1> QED BY <1>3, <1>4, <1>5 DEF Usage!IInv

LEMMA UsageStepInv == ProvidersAreListed /\ Usage!IInv /\ [Usage!Next]_(Usage!vars) => Usage!IInv'
<1> SUFFICES ASSUME ProvidersAreListed, Usage!IInv, [Usage!Next]_(Usage!vars) PROVE Usage!IInv' OBVIOUS
<1>1. ASSUME NEW c \in Callers, Usage!Begin(c) PROVE Usage!IInv'
  <2>1. 1 \in 0..Len(Providers) BY <1>1 DEF Usage!Begin, ProvidersAreListed
  <2>2. Usage!Counted' BY <1>1, <2>1 DEF Usage!Begin, Usage!Calling, Usage!IInv, Usage!Counted
  <2>3. Usage!EntriesAreHonest' BY <1>1 DEF Usage!Begin, Usage!IInv, Usage!EntriesAreHonest, Usage!Honest
  <2>4. Usage!ReadingsAreHonest'
    BY <1>1 DEF Usage!Begin, Usage!Calling, Usage!IInv, Usage!Counted, Usage!ReadingsAreHonest, Usage!Honest,
       Usage!Due
  <2> QED BY <2>2, <2>3, <2>4 DEF Usage!IInv
<1>2. CASE UNCHANGED Usage!vars
  BY <1>2 DEF Usage!vars, Usage!IInv, Usage!Counted, Usage!EntriesAreHonest, Usage!ReadingsAreHonest, Usage!Honest,
              Usage!Due
<1> QED BY <1>1, <1>2, CalledInv, RecordInv, NewPeriodInv DEF Usage!Next

LEMMA UsageIsHonest == Usage!IInv => Usage!UsageIsNeverOverstated
BY DEF Usage!IInv, Usage!Counted, Usage!EntriesAreHonest, Usage!Honest, Usage!UsageIsNeverOverstated,
       Usage!LoadUsage, Usage!Fresh, Usage!Entry

\* However requests overlap and periods end, no provider's counter shows more calls than
\* succeeded in its period.
THEOREM UsageIsNeverOverstatedHolds ==
  ASSUME ProvidersAreListed PROVE Usage!Spec => []Usage!UsageIsNeverOverstated
BY UsageInitInv, UsageStepInv, UsageIsHonest, PTL DEF Usage!Spec

-----------------------------------------------------------------------------
(* The versions of a row.                                                  *)

CONSTANTS Clients, Priorities, MaxVersion, Nobody
VARIABLES row, seen, patch, holder, reposted
Versions == INSTANCE RowVersions

\* What the parameters are.
NobodyIsNoClient == Nobody \notin Clients /\ Priorities # {}

\* What a handler's transaction says.
RowRequests == [op : {"none", "patch", "orphan", "bumped", "post"}, body : Versions!Bodies, expected : Nat, version : Nat]

LEMMA GoneIsARow ==
  ASSUME NobodyIsNoClient
  PROVE  /\ Versions!Gone \in [version : Nat, body : Versions!Bodies]
         /\ Versions!Gone.version = 0
         /\ Versions!NoPatch \in RowRequests
         /\ Versions!NoPatch.op = "none" /\ Versions!NoPatch.expected = 0
<1>1. (CHOOSE p \in Priorities : TRUE) \in Priorities BY DEF NobodyIsNoClient
<1> QED BY <1>1 DEF Versions!Gone, Versions!Bodies, Versions!NoPatch, RowRequests

LEMMA VersionsInitInv == NobodyIsNoClient /\ Versions!Init => Versions!IInv
<1> SUFFICES ASSUME NobodyIsNoClient, Versions!Init PROVE Versions!IInv OBVIOUS
<1> QED BY GoneIsARow DEF Versions!Init, Versions!IInv, Versions!Versioned, Versions!PatchesNameWhatWasSeen,
                          Versions!BumpsHoldTheRow, RowRequests

\* A request begins, or ends without a write: the row and what was read of it stay.
LEMMA PatchInv ==
  ASSUME NobodyIsNoClient, Versions!IInv, NEW c \in Clients, UNCHANGED <<row, seen, reposted>>,
         NEW new \in RowRequests,
         patch' = [patch EXCEPT ![c] = new],
         new.expected # 0 => new.op # "none" /\ seen[c] # Versions!Gone /\ new.expected = seen[c].version,
         new.op = "patch" => row # Versions!Gone,
         new.op = "bumped" => /\ row # Versions!Gone /\ Versions!Matches(new.expected)
                              /\ new.version = row.version + 1 /\ holder' = c,
         \A d \in Clients : d # c /\ patch[d].op = "bumped" => holder' = d
  PROVE  Versions!IInv'
<1>1. patch' \in [Clients -> RowRequests]
      /\ patch'[c] = new /\ \A d \in Clients : d # c => patch'[d] = patch[d]
  BY DEF Versions!IInv, Versions!Versioned, RowRequests
<1>2. Versions!Versioned' BY <1>1 DEF Versions!IInv, Versions!Versioned, Versions!LaterThanSeen, RowRequests
<1>3. Versions!PatchesNameWhatWasSeen' BY <1>1 DEF Versions!IInv, Versions!PatchesNameWhatWasSeen
<1>4. Versions!BumpsHoldTheRow' BY <1>1 DEF Versions!IInv, Versions!BumpsHoldTheRow, Versions!Matches
<1> QED BY <1>2, <1>3, <1>4 DEF Versions!IInv

\* A row is written by c, as the later version of one there is, or where nobody holds it.
LEMMA WriteInv ==
  ASSUME NobodyIsNoClient, Versions!IInv, NEW c \in Clients, NEW new \in [version : Nat, body : Versions!Bodies],
         new.version > 0, row' = new, seen' = [seen EXCEPT ![c] = new], patch' = [patch EXCEPT ![c] = Versions!NoPatch],
         \A d \in Clients : d # c => patch[d].op # "bumped",
         \A d \in Clients : d # c /\ d \notin reposted' => d \notin reposted /\ row # Versions!Gone
                                                          /\ new.version > row.version
  PROVE  Versions!IInv'
<1>1. /\ patch' \in [Clients -> RowRequests]
      /\ patch'[c].op = "none" /\ patch'[c].expected = 0
      /\ seen' \in [Clients -> [version : Nat, body : Versions!Bodies]] /\ seen'[c] = row'
      /\ \A d \in Clients : d # c => patch'[d] = patch[d] /\ seen'[d] = seen[d]
  BY GoneIsARow DEF Versions!IInv, Versions!Versioned, RowRequests
<1>2. Versions!Versioned'
  <2>1. ASSUME NEW d \in Clients, d \notin reposted', seen'[d] # Versions!Gone PROVE Versions!LaterThanSeen(d)'
    <3>1. CASE d = c BY <1>1, <3>1 DEF Versions!LaterThanSeen
    <3>2. CASE d # c
      <4>1. /\ Versions!LaterThanSeen(d) /\ row # Versions!Gone /\ new.version > row.version
            /\ seen[d].version \in Nat /\ row.version \in Nat
        BY <1>1, <2>1, <3>2 DEF Versions!IInv, Versions!Versioned
      <4> QED BY <1>1, <3>2, <4>1 DEF Versions!LaterThanSeen
    <3> QED BY <3>1, <3>2
  <2> QED BY <1>1, <2>1 DEF Versions!Versioned, RowRequests
<1>3. Versions!PatchesNameWhatWasSeen' BY <1>1 DEF Versions!IInv, Versions!PatchesNameWhatWasSeen
<1>4. Versions!BumpsHoldTheRow' BY <1>1, GoneIsARow DEF Versions!BumpsHoldTheRow
<1> QED BY <1>2, <1>3, <1>4 DEF Versions!IInv

LEMMA VersionsStepInv == NobodyIsNoClient /\ Versions!IInv /\ [Versions!Next]_(Versions!vars) => Versions!IInv'
<1> SUFFICES ASSUME NobodyIsNoClient, Versions!IInv, [Versions!Next]_(Versions!vars) PROVE Versions!IInv' OBVIOUS
<1>0. /\ row \in [version : Nat, body : Versions!Bodies] /\ seen \in [Clients -> [version : Nat, body : Versions!Bodies]]
      /\ patch \in [Clients -> RowRequests]
      /\ holder = Nobody => \A d \in Clients : patch[d].op # "bumped"
  BY DEF Versions!IInv, Versions!Versioned, Versions!BumpsHoldTheRow, NobodyIsNoClient, RowRequests
<1>1. ASSUME NEW c \in Clients, Versions!Read(c) PROVE Versions!IInv'
  <2>1. /\ seen' = [seen EXCEPT ![c] = row] /\ reposted' = reposted \ {c} /\ UNCHANGED <<row, patch, holder>>
        /\ patch[c].op = "none"
    BY <1>1 DEF Versions!Read
  <2> QED
    BY <1>0, <2>1 DEF Versions!IInv, Versions!Versioned, Versions!LaterThanSeen, Versions!PatchesNameWhatWasSeen,
       Versions!BumpsHoldTheRow, Versions!Matches, RowRequests
<1>2. ASSUME NEW c \in Clients, NEW body \in Versions!Bodies, NEW checked \in BOOLEAN, Versions!Send(c, body, checked)
      PROVE  Versions!IInv'
  <2> DEFINE new == [op |-> "patch", body |-> body, version |-> 0, expected |-> IF checked THEN seen[c].version ELSE 0]
  <2>1. /\ new \in RowRequests
        /\ new.op = "patch" /\ new.expected \in {0, seen[c].version}
    BY <1>0 DEF RowRequests
  <2>2. /\ patch' = [patch EXCEPT ![c] = new] /\ UNCHANGED <<row, seen, holder, reposted>>
        /\ seen[c] # Versions!Gone /\ row # Versions!Gone
    BY <1>2 DEF Versions!Send
  <2> HIDE DEF new
  <2> QED BY <2>1, <2>2, PatchInv DEF Versions!IInv, Versions!BumpsHoldTheRow
<1>3. ASSUME NEW c \in Clients, Versions!CheckAndBump(c) PROVE Versions!IInv'
  <2>0. row # Versions!Gone BY <1>3 DEF Versions!CheckAndBump, Versions!IInv, Versions!BumpsHoldTheRow
  <2>1. CASE Versions!Matches(patch[c].expected)
    <3> DEFINE new == [op |-> "bumped", body |-> patch[c].body, version |-> row.version + 1,
                       expected |-> patch[c].expected]
    <3>1. /\ new \in RowRequests
          /\ new.op = "bumped" /\ new.expected = patch[c].expected /\ new.version = row.version + 1
      BY <1>0 DEF RowRequests
    <3>2. patch' = [patch EXCEPT ![c] = new] /\ UNCHANGED <<row, seen, reposted>> /\ holder = Nobody /\ holder' = c
      BY <1>0, <1>3, <2>1 DEF Versions!CheckAndBump, RowRequests
    <3> HIDE DEF new
    <3>3. patch[c].expected # 0 => seen[c] # Versions!Gone /\ patch[c].expected = seen[c].version
      BY DEF Versions!IInv, Versions!PatchesNameWhatWasSeen
    <3> QED BY <1>0, <2>0, <2>1, <3>1, <3>2, <3>3, PatchInv
  <2>2. CASE ~Versions!Matches(patch[c].expected)
    BY <1>3, <2>2, PatchInv, GoneIsARow DEF Versions!CheckAndBump, Versions!IInv, Versions!BumpsHoldTheRow
  <2> QED BY <2>1, <2>2
<1>4. ASSUME NEW c \in Clients, Versions!CommitPatch(c) PROVE Versions!IInv'
  <2> DEFINE new == [version |-> patch[c].version, body |-> patch[c].body]
  <2>1. /\ new \in [version : Nat, body : Versions!Bodies] /\ row # Versions!Gone
        /\ new.version > row.version /\ new.version > 0
        /\ \A d \in Clients : d # c => patch[d].op # "bumped"
    BY <1>0, <1>4 DEF Versions!CommitPatch, Versions!IInv, Versions!BumpsHoldTheRow, RowRequests
  <2>2. /\ row' = new /\ seen' = [seen EXCEPT ![c] = new] /\ patch' = [patch EXCEPT ![c] = Versions!NoPatch]
        /\ reposted' = reposted \ {c}
    BY <1>4 DEF Versions!CommitPatch
  <2> HIDE DEF new
  <2> QED BY <1>0, <2>1, <2>2, WriteInv
<1>5. ASSUME NEW c \in Clients, Versions!Rollback(c) PROVE Versions!IInv'
  BY <1>0, <1>5, PatchInv, GoneIsARow DEF Versions!Rollback, Versions!IInv, Versions!BumpsHoldTheRow
<1>6. ASSUME NEW c \in Clients, NEW p \in Priorities, Versions!Post(c, p) PROVE Versions!IInv'
  <2> DEFINE new == [op |-> "post", expected |-> 0, version |-> 0,
                     body |-> [priority |-> p, active |-> IF row = Versions!Gone THEN TRUE ELSE row.body.active]]
  <2>1. /\ new \in RowRequests
        /\ new.op = "post" /\ new.expected = 0
    BY <1>0 DEF Versions!Bodies, RowRequests
  <2>2. patch' = [patch EXCEPT ![c] = new] /\ UNCHANGED <<row, seen, holder, reposted>>
    BY <1>6 DEF Versions!Post
  <2> HIDE DEF new
  <2> QED BY <2>1, <2>2, PatchInv DEF Versions!IInv, Versions!BumpsHoldTheRow
<1>7. ASSUME NEW c \in Clients, Versions!Upsert(c) PROVE Versions!IInv'
  <2> DEFINE new == [version |-> IF row = Versions!Gone THEN 1 ELSE row.version, body |-> patch[c].body]
  <2>1. new \in [version : Nat, body : Versions!Bodies] /\ new.version > 0
    BY <1>0 DEF Versions!IInv, Versions!Versioned, RowRequests
  <2>2. /\ row' = new /\ seen' = [seen EXCEPT ![c] = new] /\ patch' = [patch EXCEPT ![c] = Versions!NoPatch]
        /\ reposted' = Clients \ {c} /\ holder = Nobody
    BY <1>7 DEF Versions!Upsert
  <2> HIDE DEF new
  <2> QED BY <1>0, <2>1, <2>2, WriteInv
<1>8. ASSUME NEW c \in Clients, Versions!Delete(c) PROVE Versions!IInv'
  <2>1. /\ row' = Versions!Gone /\ holder = Nobody /\ UNCHANGED <<seen, holder, reposted>>
        /\ patch' = [d \in Clients |-> IF patch[d].op = "patch" THEN [patch[d] EXCEPT !.op = "orphan"] ELSE patch[d]]
    BY <1>8 DEF Versions!Delete
  <2>2. ASSUME NEW d \in Clients
        PROVE  /\ patch'[d] \in RowRequests /\ patch'[d].expected = patch[d].expected
               /\ patch'[d].op \notin {"patch", "bumped"} /\ (patch'[d].op = "none" <=> patch[d].op = "none")
    <3>1. patch[d] \in RowRequests /\ patch[d].op # "bumped" BY <1>0, <2>1
    <3>2. CASE patch[d].op = "patch"
      <4>1. patch'[d] = [patch[d] EXCEPT !.op = "orphan"] BY <2>1, <3>2
      <4> QED BY <3>1, <3>2, <4>1 DEF RowRequests
    <3>3. CASE patch[d].op # "patch"
      <4>1. patch'[d] = patch[d] BY <2>1, <3>3
      <4> QED BY <3>1, <3>3, <4>1
    <3> QED BY <3>2, <3>3
  <2>3. patch' \in [Clients -> RowRequests] BY <2>1, <2>2
  <2>4. Versions!Versioned'
    BY <2>1, <2>3, GoneIsARow DEF Versions!IInv, Versions!Versioned, Versions!LaterThanSeen, RowRequests
  <2>5. Versions!PatchesNameWhatWasSeen' BY <2>1, <2>2 DEF Versions!IInv, Versions!PatchesNameWhatWasSeen
  <2>6. Versions!BumpsHoldTheRow' BY <2>2 DEF Versions!BumpsHoldTheRow
  <2> QED BY <2>4, <2>5, <2>6 DEF Versions!IInv
<1>9. CASE UNCHANGED Versions!vars
  BY <1>9 DEF Versions!vars, Versions!IInv, Versions!Versioned, Versions!LaterThanSeen,
     Versions!PatchesNameWhatWasSeen, Versions!BumpsHoldTheRow, Versions!Matches
<1> QED BY <1>1, <1>2, <1>3, <1>4, <1>5, <1>6, <1>7, <1>8, <1>9 DEF Versions!Next

LEMMA EditsFindWhatWasSeen == NobodyIsNoClient /\ Versions!IInv => Versions!EditsReplaceWhatWasSeen
<1> SUFFICES ASSUME NobodyIsNoClient, Versions!IInv, NEW c \in Clients, Versions!CommitPatch(c), patch[c].expected # 0,
                    c \notin reposted
             PROVE  row = seen[c]
  BY DEF Versions!EditsReplaceWhatWasSeen
<1>1. row # Versions!Gone /\ patch[c].expected = row.version
  BY DEF Versions!CommitPatch, Versions!IInv, Versions!BumpsHoldTheRow, Versions!Matches
<1>2. seen[c] # Versions!Gone /\ patch[c].expected = seen[c].version
  BY DEF Versions!IInv, Versions!PatchesNameWhatWasSeen
<1>3. Versions!LaterThanSeen(c) /\ row.version \in Nat BY <1>2 DEF Versions!IInv, Versions!Versioned
<1> QED BY <1>1, <1>2, <1>3 DEF Versions!LaterThanSeen

\* An edit that names a version replaces the very row its client read, unless the rule was
\* posted again in between.
THEOREM EditsReplaceWhatWasSeenHolds ==
  ASSUME NobodyIsNoClient PROVE Versions!Spec => [][Versions!EditsReplaceWhatWasSeen]_(Versions!vars)
<1>1. Versions!IInv /\ [Versions!Next]_(Versions!vars) => [Versions!EditsReplaceWhatWasSeen]_(Versions!vars)
  BY EditsFindWhatWasSeen
<1> QED BY <1>1, VersionsInitInv, VersionsStepInv, PTL DEF Versions!Spec


-----------------------------------------------------------------------------
(* The database backups.                                                   *)

CONSTANTS Jobs, MaxJobs, Retention, PageSize
VARIABLES remote, stored, clock, scratch, job, jobs, uploads
Dumps == INSTANCE Backups

\* What the parameter is.
RetentionIsCounted == Retention \in Nat

LEMMA SameSizes == /\ \A S : Dumps!IsFiniteSet(S) <=> IsFiniteSet(S)
                   /\ \A S : Dumps!Cardinality(S) = Cardinality(S)
BY DEF Dumps!IsFiniteSet, IsFiniteSet, Dumps!Cardinality, Cardinality

\* How many are later than t: more of a larger set.
Later(t, times) == Cardinality({u \in times : u > t})

LEMMA MoreAreLater ==
  ASSUME NEW few, NEW many, few \subseteq many, IsFiniteSet(many), NEW t
  PROVE  Later(t, few) \in Nat /\ Later(t, many) \in Nat /\ Later(t, few) <= Later(t, many)
<1>1. {u \in few : u > t} \subseteq {u \in many : u > t} OBVIOUS
<1>2. IsFiniteSet({u \in many : u > t}) BY FS_Subset
<1> QED BY <1>1, <1>2, FS_Subset, FS_CardinalityType DEF Later

LEMMA NewestAndOutlived ==
  /\ \A n, times : Dumps!Newest(n, times) = {t \in times : Later(t, times) < n}
  /\ Dumps!Outlived = {t \in uploads : Later(t, uploads) >= Retention}
BY SameSizes DEF Dumps!Newest, Dumps!Outlived, Later

LEMMA DumpsInitInv == RetentionIsCounted /\ Dumps!Init => Dumps!IInv
<1> SUFFICES ASSUME RetentionIsCounted, Dumps!Init PROVE Dumps!IInv OBVIOUS
<1>1. Dumps!IsFiniteSet({}) BY SameSizes, FS_EmptySet
<1>2. DOMAIN stored = {} BY DEF Dumps!Init
<1>3. Dumps!NewestBackupsAreKept BY <1>2 DEF Dumps!Init, Dumps!NewestBackupsAreKept, Dumps!Newest
<1> QED BY <1>1, <1>2, <1>3 DEF Dumps!Init, Dumps!NoJob, Dumps!IInv, Dumps!OnlyOutlivedAreDoomed,
                                Dumps!OnlyVerifiedAreStored, Dumps!NamesAreTaken

\* What the record of a job says.
JobRecords == [at : {"idle", "dumped", "restoring", "verified", "failed", "ready", "named", "writing", "stored",
                     "pruning"},
               good : BOOLEAN, name : Nat, doomed : SUBSET Nat]

\* A job stands: what it will delete is outlived, what it will store restores, under a
\* name that is taken.
Stands(new) ==
    /\ new \in JobRecords /\ new.doomed \subseteq Dumps!Outlived
    /\ new.at \in {"verified", "ready", "named", "writing"} => new.good
    /\ new.at \in {"named", "writing"} => new.name \in 1..clock
    /\ new.at = "writing" => ~remote

LEMMA JobsStand == ASSUME Dumps!IInv, NEW j \in Jobs PROVE Stands(job[j])
BY DEF Dumps!IInv, Stands, JobRecords, Dumps!OnlyOutlivedAreDoomed, Dumps!OnlyVerifiedAreStored, Dumps!NamesAreTaken

LEMMA NoJobStands == Stands(Dumps!NoJob) /\ Dumps!NoJob.at = "idle"
BY DEF Stands, Dumps!NoJob, JobRecords

\* The jobs of the next state stand, one of them as new.
LEMMA NextJobsStand ==
  ASSUME Dumps!IInv, NEW j \in Jobs, NEW new \in JobRecords, job' = [job EXCEPT ![j] = new], remote' = remote,
         clock' >= clock, clock \in Nat, clock' \in Nat, Dumps!Outlived \subseteq Dumps!Outlived',
         new.doomed \subseteq Dumps!Outlived', new.at \in {"verified", "ready", "named", "writing"} => new.good,
         new.at \in {"named", "writing"} => new.name \in 1..clock', new.at = "writing" => ~remote
  PROVE  /\ job' \in [Jobs -> JobRecords] /\ Dumps!OnlyOutlivedAreDoomed' /\ Dumps!OnlyVerifiedAreStored'
         /\ Dumps!NamesAreTaken'
<1>1. job' \in [Jobs -> JobRecords] /\ job'[j] = new /\ \A i \in Jobs : i # j => job'[i] = job[i]
  BY DEF Dumps!IInv, JobRecords
<1>2. Dumps!OnlyOutlivedAreDoomed' BY <1>1 DEF Dumps!IInv, Dumps!OnlyOutlivedAreDoomed
<1>3. Dumps!OnlyVerifiedAreStored' BY <1>1 DEF Dumps!IInv, Dumps!OnlyVerifiedAreStored
<1>4. Dumps!NamesAreTaken'
  <2>1. ASSUME NEW i \in Jobs
        PROVE  /\ job'[i].at \in {"named", "writing"} => job'[i].name \in 1..clock'
               /\ job'[i].at = "writing" => ~remote'
    <3>1. CASE i = j BY <1>1, <3>1
    <3>2. CASE i # j
      <4>1. job'[i] = job[i] BY <1>1, <3>2
      <4> QED BY <4>1 DEF Dumps!IInv, Dumps!NamesAreTaken
    <3> QED BY <3>1, <3>2
  <2> QED BY <2>1 DEF Dumps!NamesAreTaken
<1> QED BY <1>1, <1>2, <1>3, <1>4

\* A job moves, and nothing is stored or deleted; it may take a name.
LEMMA JobMoves ==
  ASSUME Dumps!IInv, NEW j \in Jobs, NEW new \in JobRecords, job' = [job EXCEPT ![j] = new],
         UNCHANGED <<remote, stored, uploads>>, clock' \in {clock, clock + 1}, new.doomed \subseteq Dumps!Outlived,
         new.at \in {"verified", "ready", "named", "writing"} => new.good,
         new.at \in {"named", "writing"} => new.name \in 1..clock', new.at = "writing" => ~remote
  PROVE  Dumps!IInv'
<1>1. clock \in Nat /\ clock' \in Nat /\ clock' >= clock /\ uploads' \subseteq 1..clock'
  BY DEF Dumps!IInv
<1>2. Dumps!Outlived' = Dumps!Outlived BY DEF Dumps!Outlived
<1>3. /\ job' \in [Jobs -> JobRecords] /\ Dumps!OnlyOutlivedAreDoomed' /\ Dumps!OnlyVerifiedAreStored'
      /\ Dumps!NamesAreTaken'
  BY <1>1, <1>2, NextJobsStand
<1>4. Dumps!NewestBackupsAreKept' BY DEF Dumps!IInv, Dumps!NewestBackupsAreKept, Dumps!Newest
<1> QED BY <1>1, <1>3, <1>4 DEF Dumps!IInv, JobRecords

\* What a page dooms is outlived in the bucket and so among all that was ever stored.
LEMMA ListInv ==
  ASSUME RetentionIsCounted, Dumps!IInv, NEW j \in Jobs, Dumps!List(j)
  PROVE  Dumps!IInv'
<1> DEFINE page == Dumps!Page(DOMAIN stored)
           new == [job[j] EXCEPT !.at = "pruning", !.doomed = Dumps!Doomed]
<1>1. page \subseteq uploads /\ uploads \subseteq Nat /\ IsFiniteSet(uploads)
  <2>1. page \subseteq DOMAIN stored BY DEF Dumps!Page
  <2> QED BY <2>1, SameSizes DEF Dumps!IInv
<1>2. Dumps!Doomed \subseteq Dumps!Outlived
  <2>1. ASSUME NEW t \in Dumps!Doomed PROVE t \in Dumps!Outlived
    <3>1. t \in page /\ ~(Later(t, page) < Retention) BY NewestAndOutlived DEF Dumps!Doomed
    <3>2. Later(t, page) \in Nat /\ Later(t, uploads) \in Nat /\ Later(t, page) <= Later(t, uploads)
      BY <1>1, MoreAreLater
    <3> QED BY <1>1, <3>1, <3>2, NewestAndOutlived DEF RetentionIsCounted
  <2> QED BY <2>1
<1>3. Dumps!Doomed \subseteq Nat BY <1>1, <1>2 DEF Dumps!Outlived
<1>4. new \in JobRecords /\ new.at = "pruning" /\ new.doomed = Dumps!Doomed
  BY <1>3 DEF Dumps!IInv, JobRecords
<1>5. job' = [job EXCEPT ![j] = new] /\ UNCHANGED <<remote, stored, clock, uploads>>
  BY DEF Dumps!List
<1> HIDE DEF new
<1> QED BY <1>2, <1>4, <1>5, JobMoves

\* One more name is stored: what was outlived stays so.
LEMMA OutlivedLasts ==
  ASSUME RetentionIsCounted, Dumps!IInv, NEW time \in 1..clock, uploads' = uploads \cup {time}
  PROVE  /\ uploads' \subseteq 1..clock /\ IsFiniteSet(uploads')
         /\ \A t : Later(t, uploads) \in Nat /\ Later(t, uploads') \in Nat /\ Later(t, uploads) <= Later(t, uploads')
         /\ Dumps!Outlived \subseteq Dumps!Outlived'
<1>1. uploads \subseteq 1..clock /\ IsFiniteSet(uploads) BY SameSizes DEF Dumps!IInv
<1>2. uploads' \subseteq 1..clock /\ IsFiniteSet(uploads') BY <1>1, FS_AddElement
<1>3. \A t : Later(t, uploads) \in Nat /\ Later(t, uploads') \in Nat /\ Later(t, uploads) <= Later(t, uploads')
  BY <1>2, MoreAreLater
<1>4. ASSUME NEW t \in Dumps!Outlived PROVE t \in Dumps!Outlived'
  <2>1. t \in uploads /\ Later(t, uploads) >= Retention BY NewestAndOutlived
  <2>2. t \in uploads' /\ Later(t, uploads') >= Retention BY <1>3, <2>1 DEF RetentionIsCounted
  <2>3. Dumps!Outlived' = {u \in uploads' : Later(u, uploads') >= Retention}
    BY SameSizes DEF Dumps!Outlived, Later
  <2> QED BY <2>2, <2>3
<1> QED BY <1>2, <1>3, <1>4

\* A job opens its file or puts its object: under its name stands what may stand there.
LEMMA StoreInv ==
  ASSUME RetentionIsCounted, Dumps!IInv, NEW j \in Jobs, NEW content \in {"whole", "cut", "mixed"},
         remote => content = "whole", Dumps!Put(j, content), NEW at \in {"writing", "stored"},
         job' = [job EXCEPT ![j].at = at], job[j].at = "named", at = "writing" => ~remote
  PROVE  Dumps!IInv'
<1> DEFINE time == job[j].name
           new == [job[j] EXCEPT !.at = at]
<1>1. /\ job[j] \in JobRecords /\ job[j].good /\ time \in 1..clock /\ job[j].doomed \subseteq Dumps!Outlived
      /\ clock \in Nat
  BY JobsStand DEF Stands, Dumps!IInv
<1>2. /\ stored' = [t \in DOMAIN stored \cup {time} |-> IF t = time THEN content ELSE stored[t]]
      /\ uploads' = uploads \cup {time} /\ UNCHANGED <<remote, clock>>
  BY DEF Dumps!Put
<1>3. /\ new \in JobRecords /\ new.at = at /\ new.good = job[j].good /\ new.name = time
      /\ new.doomed = job[j].doomed /\ job' = [job EXCEPT ![j] = new]
  BY <1>1 DEF JobRecords
<1> HIDE DEF time, new
<1>4. /\ uploads' \subseteq 1..clock /\ IsFiniteSet(uploads')
      /\ \A t : Later(t, uploads) \in Nat /\ Later(t, uploads') \in Nat /\ Later(t, uploads) <= Later(t, uploads')
      /\ Dumps!Outlived \subseteq Dumps!Outlived'
  BY <1>1, <1>2, OutlivedLasts
<1>5. /\ job' \in [Jobs -> JobRecords] /\ Dumps!OnlyOutlivedAreDoomed' /\ Dumps!OnlyVerifiedAreStored'
      /\ Dumps!NamesAreTaken'
  <2>1. clock' >= clock /\ clock' \in Nat /\ new.doomed \subseteq Dumps!Outlived' /\ time \in 1..clock'
    BY <1>1, <1>2, <1>3, <1>4
  <2> QED BY <1>1, <1>2, <1>3, <1>4, <2>1, NextJobsStand
<1>6. Dumps!NewestBackupsAreKept'
  <2>1. ASSUME NEW t \in uploads', Later(t, uploads') < Retention PROVE t \in DOMAIN stored'
    <3>1. CASE t \in uploads
      <4>1. Later(t, uploads) < Retention BY <1>4, <2>1 DEF RetentionIsCounted
      <4>2. t \in DOMAIN stored BY <3>1, <4>1, NewestAndOutlived DEF Dumps!IInv, Dumps!NewestBackupsAreKept
      <4> QED BY <1>2, <4>2
    <3>2. CASE t \notin uploads BY <1>2, <3>2
    <3> QED BY <3>1, <3>2
  <2>2. Dumps!Newest(Retention, uploads') \subseteq DOMAIN stored' BY <2>1, NewestAndOutlived
  <2>3. \A t \in DOMAIN stored' : stored'[t] # "broken" /\ (remote' => stored'[t] = "whole")
    BY <1>2 DEF Dumps!IInv, Dumps!NewestBackupsAreKept
  <2> QED BY <2>2, <2>3 DEF Dumps!NewestBackupsAreKept, Dumps!Newest
<1>7. DOMAIN stored' \subseteq uploads' BY <1>2 DEF Dumps!IInv
<1> QED BY <1>1, <1>2, <1>4, <1>5, <1>6, <1>7, SameSizes DEF Dumps!IInv, JobRecords

\* A local file is written: what is in it may not be whole, but it is not broken.
LEMMA EndWriteInv ==
  ASSUME Dumps!IInv, NEW j \in Jobs, Dumps!EndWrite(j)
  PROVE  Dumps!IInv'
<1>1. /\ job[j].at = "writing" /\ job' = [job EXCEPT ![j].at = "stored"] /\ UNCHANGED <<remote, clock, uploads>>
      /\ \/ stored' = [u \in DOMAIN stored |-> IF u = job[j].name THEN Dumps!Content(j) ELSE stored[u]]
         \/ stored' = [stored EXCEPT ![job[j].name] = "mixed"]
  BY DEF Dumps!EndWrite, Dumps!Step
<1>2. job[j] \in JobRecords /\ Dumps!Content(j) = "whole" /\ ~remote /\ job[j].doomed \subseteq Dumps!Outlived
  BY <1>1, JobsStand DEF Stands, Dumps!Content
<1> DEFINE new == [job[j] EXCEPT !.at = "stored"]
<1>3. /\ new \in JobRecords /\ new.at = "stored" /\ new.doomed = job[j].doomed /\ job' = [job EXCEPT ![j] = new]
  BY <1>1, <1>2 DEF JobRecords
<1> HIDE DEF new
<1>4. /\ job' \in [Jobs -> JobRecords] /\ Dumps!OnlyOutlivedAreDoomed' /\ Dumps!OnlyVerifiedAreStored'
      /\ Dumps!NamesAreTaken'
  <2>1. clock \in Nat /\ clock' \in Nat /\ clock' >= clock BY <1>1 DEF Dumps!IInv
  <2>2. Dumps!Outlived' = Dumps!Outlived BY <1>1 DEF Dumps!Outlived
  <2> QED BY <1>1, <1>2, <1>3, <2>1, <2>2, NextJobsStand
<1>5. DOMAIN stored' = DOMAIN stored /\ \A t \in DOMAIN stored' : stored'[t] # "broken"
  BY <1>1, <1>2 DEF Dumps!IInv, Dumps!NewestBackupsAreKept
<1>6. Dumps!NewestBackupsAreKept'
  BY <1>1, <1>2, <1>5 DEF Dumps!IInv, Dumps!NewestBackupsAreKept, Dumps!Newest
<1> QED BY <1>1, <1>4, <1>5, <1>6 DEF Dumps!IInv, JobRecords

\* A job deletes only what it doomed, and that is not among the newest.
LEMMA DeleteOneInv ==
  ASSUME RetentionIsCounted, Dumps!IInv, NEW j \in Jobs, Dumps!DeleteOne(j)
  PROVE  Dumps!IInv'
<1>1. PICK t \in job[j].doomed : /\ stored' = [u \in DOMAIN stored \ {t} |-> stored[u]]
                                 /\ job' = [job EXCEPT ![j].doomed = @ \ {t}]
                                 /\ UNCHANGED <<remote, clock, uploads>>
  BY DEF Dumps!DeleteOne
<1> DEFINE new == [job[j] EXCEPT !.doomed = @ \ {t}]
<1>2. Stands(job[j]) BY JobsStand
<1>3. /\ new \in JobRecords /\ new.at = job[j].at /\ new.good = job[j].good /\ new.name = job[j].name
      /\ new.doomed \subseteq Dumps!Outlived /\ job' = [job EXCEPT ![j] = new]
  BY <1>1, <1>2 DEF JobRecords, Stands
<1> HIDE DEF new
<1>4. /\ job' \in [Jobs -> JobRecords] /\ Dumps!OnlyOutlivedAreDoomed' /\ Dumps!OnlyVerifiedAreStored'
      /\ Dumps!NamesAreTaken'
  <2>1. clock \in Nat /\ clock' \in Nat /\ clock' >= clock BY <1>1 DEF Dumps!IInv
  <2>2. Dumps!Outlived' = Dumps!Outlived BY <1>1 DEF Dumps!Outlived
  <2> QED BY <1>1, <1>2, <1>3, <2>1, <2>2, NextJobsStand DEF Stands
<1>5. t \notin Dumps!Newest(Retention, uploads)
  <2>1. t \in Dumps!Outlived BY DEF Dumps!IInv, Dumps!OnlyOutlivedAreDoomed
  <2>2. Later(t, uploads) \in Nat BY MoreAreLater, SameSizes DEF Dumps!IInv
  <2> QED BY <2>1, <2>2, NewestAndOutlived DEF RetentionIsCounted
<1>6. Dumps!NewestBackupsAreKept'
  BY <1>1, <1>5 DEF Dumps!IInv, Dumps!NewestBackupsAreKept, Dumps!Newest
<1> QED BY <1>1, <1>4, <1>6 DEF Dumps!IInv, JobRecords

LEMMA DumpsStepInv == RetentionIsCounted /\ Dumps!IInv /\ [Dumps!Next]_(Dumps!vars) => Dumps!IInv'
<1> SUFFICES ASSUME RetentionIsCounted, Dumps!IInv, [Dumps!Next]_(Dumps!vars) PROVE Dumps!IInv' OBVIOUS
<1> DEFINE At(j, at) == [job[j] EXCEPT !.at = at]
<1>1. ASSUME NEW j \in Jobs, NEW at \in {"restoring", "verified", "failed", "ready"}, at \in {"verified", "ready"} => job[j].good,
             job' = [job EXCEPT ![j] = At(j, at)], UNCHANGED <<remote, stored, clock, uploads>>
      PROVE  Dumps!IInv'
  <2>1. Stands(job[j]) BY JobsStand
  <2>2. /\ At(j, at) \in JobRecords /\ At(j, at).at = at /\ At(j, at).doomed = job[j].doomed
        /\ At(j, at).good = job[j].good
    BY <2>1 DEF JobRecords, Stands
  <2> HIDE DEF At
  <2> QED BY <1>1, <2>1, <2>2, JobMoves DEF Stands
<1>2. ASSUME NEW j \in Jobs, job' = [job EXCEPT ![j] = Dumps!NoJob], UNCHANGED <<remote, stored, clock, uploads>>
      PROVE  Dumps!IInv'
  BY <1>2, NoJobStands, JobMoves DEF Stands
<1>3. ASSUME NEW j \in Jobs, NEW good \in BOOLEAN, Dumps!Dump(j, good) PROVE Dumps!IInv'
  <2> DEFINE new == [Dumps!NoJob EXCEPT !.at = "dumped", !.good = good]
  <2>1. new \in JobRecords /\ new.at = "dumped" /\ new.doomed = {} BY DEF JobRecords, Dumps!NoJob
  <2>2. job' = [job EXCEPT ![j] = new] /\ UNCHANGED <<remote, stored, clock, uploads>> BY <1>3 DEF Dumps!Dump
  <2> HIDE DEF new
  <2>3. clock' \in {clock, clock + 1} BY <2>2
  <2> QED BY <2>1, <2>2, <2>3, JobMoves
<1>4. ASSUME NEW j \in Jobs, Dumps!CreateScratch(j) PROVE Dumps!IInv'
  BY <1>1, <1>4 DEF Dumps!CreateScratch, Dumps!Step
<1>5. ASSUME NEW j \in Jobs, Dumps!Restore(j) PROVE Dumps!IInv'
  BY <1>1, <1>5 DEF Dumps!Restore, Dumps!Step
<1>6. ASSUME NEW j \in Jobs, Dumps!DropScratch(j) PROVE Dumps!IInv'
  <2>1. CASE job[j].at = "verified"
    <3>1. job[j].good BY <2>1, JobsStand DEF Stands
    <3> QED BY <1>1, <1>6, <2>1, <3>1 DEF Dumps!DropScratch
  <2>2. CASE job[j].at # "verified" BY <1>2, <1>6, <2>2 DEF Dumps!DropScratch
  <2> QED BY <2>1, <2>2
<1>7. ASSUME NEW j \in Jobs, Dumps!Finish(j) \/ Dumps!Crash(j) PROVE Dumps!IInv'
  BY <1>2, <1>7 DEF Dumps!Finish, Dumps!Crash
<1>8. ASSUME NEW j \in Jobs, Dumps!Name(j) PROVE Dumps!IInv'
  <2>1. PICK time \in {clock, clock + 1} \ {0} :
           /\ job[j].at = "ready" /\ job' = [job EXCEPT ![j].at = "named", ![j].name = time] /\ clock' = time
           /\ UNCHANGED <<remote, stored, uploads>>
    BY <1>8 DEF Dumps!Name
  <2>2. Stands(job[j]) /\ job[j].good /\ clock \in Nat BY <2>1, JobsStand DEF Stands, Dumps!IInv
  <2> DEFINE new == [job[j] EXCEPT !.at = "named", !.name = time]
  <2>3. time \in Nat /\ time \in 1..time /\ job[j] \in JobRecords BY <2>1, <2>2 DEF Stands
  <2>4. /\ new \in JobRecords /\ new.at = "named" /\ new.name = time /\ new.good = job[j].good
        /\ new.doomed = job[j].doomed
    BY <2>3 DEF JobRecords
  <2>5. job' = [job EXCEPT ![j] = new] BY <2>1
  <2> HIDE DEF new
  <2>6. new.doomed \subseteq Dumps!Outlived /\ clock' \in {clock, clock + 1} BY <2>1, <2>2, <2>4 DEF Stands
  <2> QED BY <2>1, <2>2, <2>3, <2>4, <2>5, <2>6, JobMoves
<1>9. ASSUME NEW j \in Jobs, Dumps!PutObject(j) PROVE Dumps!IInv'
  <2>1. job[j].at = "named" /\ job' = [job EXCEPT ![j].at = "stored"] /\ Dumps!Put(j, Dumps!Content(j))
    BY <1>9 DEF Dumps!PutObject, Dumps!Step
  <2>2. Dumps!Content(j) = "whole" BY <2>1, JobsStand DEF Stands, Dumps!Content
  <2> QED BY <2>1, <2>2, StoreInv
<1>10. ASSUME NEW j \in Jobs, Dumps!BeginWrite(j) PROVE Dumps!IInv'
  <2>1. PICK content \in {"cut", "mixed"} : Dumps!Put(j, content) BY <1>10 DEF Dumps!BeginWrite
  <2>2. ~remote /\ job[j].at = "named" /\ job' = [job EXCEPT ![j].at = "writing"]
    BY <1>10 DEF Dumps!BeginWrite, Dumps!Step
  <2> QED BY <2>1, <2>2, StoreInv
<1>11. CASE UNCHANGED Dumps!vars
  BY <1>11 DEF Dumps!vars, Dumps!IInv, Dumps!OnlyOutlivedAreDoomed, Dumps!Outlived, Dumps!OnlyVerifiedAreStored,
               Dumps!NamesAreTaken, Dumps!NewestBackupsAreKept, Dumps!Newest
<1> QED BY <1>3, <1>4, <1>5, <1>6, <1>7, <1>8, <1>9, <1>10, <1>11, ListInv, EndWriteInv, DeleteOneInv DEF Dumps!Next

\* Wherever jobs end and however they overlap, none of the newest Retention backups ever
\* stored is deleted, no dump that failed to restore is stored, and what the bucket has is
\* whole; a local file may have been cut short.
THEOREM NewestBackupsAreKeptHolds ==
  ASSUME RetentionIsCounted PROVE Dumps!Spec => []Dumps!NewestBackupsAreKept
<1>1. Dumps!IInv => Dumps!NewestBackupsAreKept BY DEF Dumps!IInv
<1> QED BY <1>1, DumpsInitInv, DumpsStepInv, PTL DEF Dumps!Spec


-----------------------------------------------------------------------------
(* The cached prices.                                                      *)

CONSTANTS LastDay, Holidays, Buffer, VersionsKept, Runs, MaxRuns
VARIABLES today, closed, file, readable, backups, taken, run, started, clean, disturbed
Market == INSTANCE PriceCache WITH Retention <- VersionsKept

\* What the parameters are.
DaysAreCounted == LastDay \in Nat \ {0} /\ Buffer \in Nat

LEMMA IdleIsARun == today \in Market!Days => Market!IsARun(Market!Idle)
BY DEF Market!IsARun, Market!Idle, Market!Days

LEMMA MarketInitInv == DaysAreCounted /\ Market!Init => Market!IInv
<1> SUFFICES ASSUME DaysAreCounted, Market!Init PROVE Market!IInv OBVIOUS
<1>1. today \in Market!Days BY DEF Market!Init, Market!Days, DaysAreCounted
<1>2. \A r \in Runs : Market!IsARun(run[r])
  <2>1. \A r \in Runs : run[r] = Market!Idle BY DEF Market!Init
  <2> QED BY <1>1, <2>1, IdleIsARun
<1>3. Market!FetchedHasSettled
  BY DEF Market!Init, Market!Idle, Market!FetchedHasSettled, Market!Settled, Market!Empty
<1> QED BY <1>1, <1>2, <1>3 DEF Market!Init, Market!IInv, Market!Idle

\* What a run fetched: the days after the settled ones, whatever the cache holds of them.
LEMMA RecentDaysAreMissing ==
  ASSUME DaysAreCounted, Market!IInv, NEW existing, NEW d \in 1..today, d > today - Buffer
  PROVE  d \in Market!Missing(existing)
BY DEF DaysAreCounted, Market!IInv, Market!Days, Market!Missing, Market!SettledIn, Market!Cached

\* What is to be written has settled if what was read had.
LEMMA MergedHasSettled ==
  ASSUME DaysAreCounted, Market!IInv, NEW withheld, Market!Settled(file, clean)
  PROVE  LET fetched == Market!Missing(file) \ withheld
             whole   == withheld \cap Market!Missing(file) = {}
         IN  Market!Settled(Market!Merged(file, fetched), clean \cup (IF whole THEN {today} ELSE {}))
<1> DEFINE fetched == Market!Missing(file) \ withheld
           whole   == withheld \cap Market!Missing(file) = {}
           new     == Market!Merged(file, fetched)
           days    == clean \cup (IF whole THEN {today} ELSE {})
<1>0. today \in 1..LastDay /\ LastDay \in Nat /\ Buffer \in Nat /\ clean \subseteq 1..today
  BY DEF DaysAreCounted, Market!IInv, Market!Days
<1>1. SUFFICES ASSUME NEW d \in 1..LastDay, new[d] = "live", NEW c \in days
               PROVE  d \notin Holidays /\ c \notin d + 1 .. d + Buffer - 1
  <2>1. ASSUME NEW d \in 1..LastDay, new[d] = "live" PROVE d \notin Holidays
    <3>1. new[d] = IF d \in fetched /\ Market!Offered(d) # "none" THEN Market!Offered(d) ELSE file[d]
      BY DEF Market!Merged, Market!Days
    <3>2. CASE Market!Offered(d) = "live" BY <3>2 DEF Market!Offered
    <3>3. CASE file[d] = "live" BY <3>3 DEF Market!Settled, Market!Days
    <3> QED BY <2>1, <3>1, <3>2, <3>3
  <2> QED BY <2>1 DEF Market!Settled, Market!Days
<1>2. new[d] = IF d \in fetched /\ Market!Offered(d) # "none" THEN Market!Offered(d) ELSE file[d]
  BY DEF Market!Merged, Market!Days
<1>3. CASE d \in fetched /\ Market!Offered(d) # "none"
  <2>1. Market!Offered(d) = "live" BY <1>1, <1>2, <1>3
  <2>2. d \notin Holidays /\ d = today BY <1>0, <2>1 DEF Market!Offered
  <2>3. c <= today /\ c \in Nat BY <1>0, <1>1
  <2> QED BY <1>0, <2>2, <2>3
<1>4. CASE ~(d \in fetched /\ Market!Offered(d) # "none")
  <2>1. file[d] = "live" BY <1>1, <1>2, <1>4
  <2>2. d \notin Holidays /\ clean \cap (d + 1 .. d + Buffer - 1) = {}
    BY <2>1 DEF Market!Settled, Market!Days
  <2>3. CASE c \in clean BY <2>2, <2>3
  <2>4. CASE c = today /\ whole
    <3>1. SUFFICES ASSUME today \in d + 1 .. d + Buffer - 1 PROVE FALSE BY <2>2, <2>4
    <3>2. d \in 1..today /\ d > today - Buffer /\ d < today BY <1>0, <3>1
    <3>3. d \in fetched BY <2>4, <3>2, RecentDaysAreMissing
    <3>4. Market!Offered(d) = "close" BY <1>0, <2>2, <3>2 DEF Market!Offered
    <3> QED BY <1>4, <3>3, <3>4
  <2> QED BY <1>1, <2>3, <2>4
<1> QED BY <1>3, <1>4

\* What is settled does not become unsettled while nothing is written.
LEMMA RunsMove ==
  ASSUME Market!IInv, UNCHANGED <<today, closed, file, clean, disturbed>>,
         DOMAIN run' = Runs, run' = [r \in Runs |-> run'[r]],
         \A r \in Runs : run'[r] = run[r] \/ run'[r] = Market!Idle
  PROVE  Market!IInv'
<1>1. ASSUME NEW r \in Runs PROVE Market!IsARun(run[r])'
  <2>1. CASE run'[r] = run[r] BY <2>1 DEF Market!IInv, Market!IsARun
  <2>2. CASE run'[r] = Market!Idle
    <3>1. Market!IsARun(Market!Idle) BY IdleIsARun DEF Market!IInv
    <3> QED BY <2>2, <3>1 DEF Market!IsARun
  <2> QED BY <2>1, <2>2
<1>2. \A r \in Runs : run'[r].at = "fetched" => run'[r] = run[r] BY DEF Market!Idle
<1>3. Market!FetchedHasSettled'
  BY <1>2 DEF Market!IInv, Market!FetchedHasSettled, Market!Settled, Market!Visits
<1> QED BY <1>1, <1>2, <1>3 DEF Market!IInv

LEMMA RefreshInv ==
  ASSUME DaysAreCounted, Market!IInv, NEW r \in Runs, NEW withheld, Market!Refresh(r, withheld)
  PROVE  Market!IInv'
<1> DEFINE existing == IF readable THEN file ELSE backups[Market!Newest]
           fetched  == Market!Missing(existing) \ withheld
           whole    == withheld \cap Market!Missing(existing) = {}
           new      == [at |-> "fetched", day |-> today, new |-> Market!Merged(existing, fetched),
                        whole |-> whole, stale |-> FALSE]
<1>0. /\ run = [s \in Runs |-> run[s]] /\ DOMAIN run = Runs /\ today \in 1..LastDay /\ LastDay \in Nat
      /\ disturbed \in BOOLEAN
  BY DEF Market!IInv, Market!Days, DaysAreCounted
<1>1. /\ file' = existing /\ disturbed' = (disturbed \/ existing # file)
      /\ run' = run \/ run' = [run EXCEPT ![r] = new]
      /\ UNCHANGED <<today, closed, clean>>
  BY DEF Market!Refresh
<1>2. new = [at |-> new.at, day |-> new.day, new |-> new.new, whole |-> new.whole, stale |-> new.stale]
      /\ new.at = "fetched" /\ new.day = today /\ new.whole = whole /\ new.new = Market!Merged(existing, fetched)
      /\ new.stale = FALSE /\ new.whole \in BOOLEAN
  OBVIOUS
<1> HIDE DEF new
<1>3. /\ DOMAIN run' = Runs /\ run' = [s \in Runs |-> run'[s]]
      /\ \A s \in Runs : run'[s] = run[s] \/ (s = r /\ run'[s] = new)
  BY <1>0, <1>1
<1>4. \A s \in Runs : Market!IsARun(run[s])'
  <2>1. new.day \in 0..today' /\ new.whole \in BOOLEAN /\ new.stale \in BOOLEAN
    <3>1. new.day \in 0..today' BY <1>0, <1>1, <1>2
    <3> QED BY <1>2, <3>1
  <2>2. ASSUME NEW s \in Runs PROVE Market!IsARun(run[s])'
    <3>1. CASE run'[s] = run[s] BY <1>1, <3>1 DEF Market!IInv, Market!IsARun
    <3>2. CASE run'[s] = new BY <1>2, <2>1, <3>2 DEF Market!IsARun
    <3> QED BY <1>3, <3>1, <3>2
  <2> QED BY <2>2
<1>5. \A s \in Runs : run'[s].at = "fetched" => run'[s].day > 0
  BY <1>0, <1>2, <1>3 DEF Market!IInv
<1>6. Market!FetchedHasSettled'
  <2>1. SUFFICES ASSUME ~disturbed'
                 PROVE  /\ Market!Settled(file, clean)'
                        /\ \A s \in Runs : run'[s].at = "fetched" /\ ~run'[s].stale
                                             => Market!Settled(run[s].new, Market!Visits(s))'
    BY DEF Market!FetchedHasSettled
  <2>2. existing = file /\ ~disturbed BY <1>0, <1>1, <2>1
  <2>3. Market!Settled(file, clean) BY <2>2 DEF Market!IInv, Market!FetchedHasSettled
  <2>4. Market!Settled(file, clean)' BY <1>1, <2>2, <2>3 DEF Market!Settled
  <2>5. ASSUME NEW s \in Runs, run'[s].at = "fetched", ~run'[s].stale
        PROVE  Market!Settled(run[s].new, Market!Visits(s))'
    <3>1. CASE run'[s] = run[s]
      BY <1>1, <2>2, <2>5, <3>1 DEF Market!IInv, Market!FetchedHasSettled, Market!Settled, Market!Visits
    <3>2. CASE run'[s] = new
      <4>1. Market!Settled(Market!Merged(file, fetched), clean \cup (IF whole THEN {today} ELSE {}))
        BY <2>2, <2>3, MergedHasSettled
      <4> HIDE DEF fetched, whole
      <4>2. run'[s].new = Market!Merged(file, fetched) /\ run'[s].whole = whole /\ run'[s].day = today
        BY <1>2, <2>2, <3>2
      <4>3. Market!Visits(s)' = clean \cup (IF whole THEN {today} ELSE {}) BY <1>1, <4>2 DEF Market!Visits
      <4> QED BY <1>1, <4>1, <4>2, <4>3 DEF Market!Settled
    <3> QED BY <1>3, <3>1, <3>2
  <2> QED BY <2>4, <2>5
<1> QED BY <1>0, <1>1, <1>3, <1>4, <1>5, <1>6 DEF Market!IInv

LEMMA WriteCacheInv ==
  ASSUME DaysAreCounted, Market!IInv, NEW r \in Runs, Market!Write(r)
  PROVE  Market!IInv'
<1>0. /\ run = [s \in Runs |-> run[s]] /\ DOMAIN run = Runs /\ today \in 1..LastDay /\ LastDay \in Nat
      /\ disturbed \in BOOLEAN /\ \A s \in Runs : Market!IsARun(run[s])
  BY DEF Market!IInv, Market!Days, DaysAreCounted
<1>1. /\ run[r].at = "fetched" /\ file' = run[r].new /\ clean' = Market!Visits(r)
      /\ disturbed' = (disturbed \/ run[r].stale)
      /\ run' = [s \in Runs |-> IF s = r THEN [run[r] EXCEPT !.at = "written"] ELSE [run[s] EXCEPT !.stale = TRUE]]
      /\ UNCHANGED <<today, closed>>
  BY DEF Market!Write, Market!Visits
<1>2. ASSUME NEW s \in Runs
      PROVE  /\ Market!IsARun(run[s])' /\ run'[s].day = run[s].day
             /\ run'[s].at = IF s = r THEN "written" ELSE run[s].at
             /\ s # r => run'[s].stale
  <2>1. CASE s = r
    <3>1. run'[s] = [run[s] EXCEPT !.at = "written"] BY <1>1, <2>1
    <3>2. run'[s] = [at |-> "written", day |-> run[s].day, new |-> run[s].new, whole |-> run[s].whole,
                     stale |-> run[s].stale]
      BY <1>0, <3>1 DEF Market!IsARun
    <3> QED BY <1>0, <1>1, <2>1, <3>2 DEF Market!IsARun
  <2>2. CASE s # r
    <3>1. run'[s] = [run[s] EXCEPT !.stale = TRUE] BY <1>1, <2>2
    <3>2. run'[s] = [at |-> run[s].at, day |-> run[s].day, new |-> run[s].new, whole |-> run[s].whole,
                     stale |-> TRUE]
      BY <1>0, <3>1 DEF Market!IsARun
    <3> QED BY <1>0, <1>1, <2>2, <3>2 DEF Market!IsARun
  <2> QED BY <2>1, <2>2
<1>3. clean' \subseteq 1..today'
  BY <1>0, <1>1 DEF Market!IInv, Market!IsARun, Market!Visits
<1>4. \A s \in Runs : run'[s].at = "fetched" => run'[s].day > 0 BY <1>2 DEF Market!IInv
<1>5. Market!FetchedHasSettled'
  <2>1. \A s \in Runs : run'[s].at = "fetched" => run'[s].stale BY <1>2
  <2>2. ~disturbed' => Market!Settled(file, clean)'
    BY <1>0, <1>1 DEF Market!IInv, Market!IsARun, Market!FetchedHasSettled, Market!Settled
  <2> QED BY <2>1, <2>2 DEF Market!FetchedHasSettled
<1>6. disturbed' \in BOOLEAN BY <1>0, <1>1 DEF Market!IsARun
<1> QED BY <1>0, <1>1, <1>2, <1>3, <1>4, <1>5, <1>6 DEF Market!IInv

LEMMA MarketStepInv == DaysAreCounted /\ Market!IInv /\ [Market!Next]_(Market!vars) => Market!IInv'
<1> SUFFICES ASSUME DaysAreCounted, Market!IInv, [Market!Next]_(Market!vars) PROVE Market!IInv' OBVIOUS
<1>1. ASSUME NEW r \in Runs, Market!Backup(r) \/ Market!Abort(r) PROVE Market!IInv'
  <2>1. run' = [run EXCEPT ![r] = Market!Idle] /\ UNCHANGED <<today, closed, file, clean, disturbed>>
    BY <1>1 DEF Market!Backup, Market!Abort, Market!fileVars
  <2> QED BY <2>1, RunsMove DEF Market!IInv
<1>2. CASE Market!Close \/ Market!Corrupt \/ UNCHANGED Market!vars
  BY <1>2 DEF Market!Close, Market!Corrupt, Market!vars, Market!fileVars, Market!IInv, Market!IsARun,
              Market!FetchedHasSettled, Market!Settled, Market!Visits
<1>3. CASE Market!NextDay
  <2>1. /\ today' = today + 1 /\ today' \in 1..LastDay /\ today \in Nat /\ UNCHANGED <<file, clean, disturbed, run>>
        /\ closed' = FALSE
    BY <1>3 DEF Market!NextDay, Market!fileVars, Market!IInv, Market!Days, DaysAreCounted
  <2>2. 1..today \subseteq 1..today' /\ 0..today \subseteq 0..today' BY <2>1
  <2>3. \A r \in Runs : Market!IsARun(run[r])' BY <2>1, <2>2 DEF Market!IInv, Market!IsARun
  <2>4. Market!FetchedHasSettled'
    BY <2>1 DEF Market!IInv, Market!FetchedHasSettled, Market!Settled, Market!Visits
  <2> QED BY <2>1, <2>2, <2>3, <2>4 DEF Market!IInv, Market!Days
<1> QED BY <1>1, <1>2, <1>3, RefreshInv, WriteCacheInv DEF Market!Next

LEMMA PricesHaveSettled == Market!IInv => Market!LivePricesSettle
BY DEF Market!IInv, Market!FetchedHasSettled, Market!Settled, Market!LivePricesSettle

\* A price that was still moving when it was cached does not outlive a run that gets all it
\* asks for on one of the Buffer - 1 days after its own, whatever the buffer, the holidays
\* and the runs that fail or end.
THEOREM LivePricesSettleHolds ==
  ASSUME DaysAreCounted PROVE Market!Spec => []Market!LivePricesSettle
BY MarketInitInv, MarketStepInv, PricesHaveSettled, PTL DEF Market!Spec

-----------------------------------------------------------------------------
(* The automation rules of goals.                                          *)

CONSTANTS Additions, Withdrawals, Requests, MaxWrites
VARIABLES rules, minted, call, writes
Goal == INSTANCE GoalAutomations

\* No rule is of both directions.
DirectionsAreApart == Additions \cap Withdrawals = {}

LEMMA IdleCalls == Goal!IsACall(Goal!Idle) /\ Goal!Idle.overtaken = FALSE /\ Goal!Idle.at = "idle"
<1> DEFINE new == <<>>
<1>1. Goal!Idle = [at |-> "idle", op |-> "none", id |-> "none", new |-> new, overtaken |-> FALSE] BY DEF Goal!Idle
<1> HIDE DEF new
<1> QED BY <1>1 DEF Goal!IsACall

LEMMA AutomationsInitInv == Goal!Init => Goal!IInv
<1> SUFFICES ASSUME Goal!Init PROVE Goal!IInv OBVIOUS
<1>1. rules = Goal!Of(rules, Goal!Ids)
  <2>1. rules = <<>> BY DEF Goal!Init
  <2>2. <<>> = [x \in {} |-> rules[x]] OBVIOUS
  <2>3. DOMAIN rules \cap Goal!Ids = {} BY <2>1
  <2> QED BY <2>1, <2>2, <2>3 DEF Goal!Of
<1>2. DOMAIN call = Requests /\ \A r \in Requests : call[r] = Goal!Idle BY DEF Goal!Init
<1> QED BY <1>1, <1>2, IdleCalls DEF Goal!IInv

LEMMA SameRules ==
  rules' = rules => \A c : /\ Goal!ChecksStillHold(c) <=> Goal!ChecksStillHold(c)'
                           /\ Goal!OrdersAreWhole(c) <=> Goal!OrdersAreWhole(c)'
BY DEF Goal!ChecksStillHold, Goal!OrdersAreWhole, Goal!Ordered, Goal!Of, Goal!Valid, Goal!Remainders, Goal!With

\* What a call that was checked says does not depend on how far the others got.
LEMMA OvertakenCalls ==
  ASSUME Goal!IInv, NEW r \in Requests, Goal!Overtake(r), rules' = Goal!Of(rules', Goal!Ids)
  PROVE  Goal!IInv'
<1> DEFINE later(s) == IF s = r THEN Goal!Idle ELSE IF call[s].at = "idle" THEN call[s]
                       ELSE [call[s] EXCEPT !.overtaken = TRUE]
<1>1. DOMAIN call' = Requests /\ \A s \in Requests : call'[s] = later(s) BY DEF Goal!Overtake
<1>2. ASSUME NEW s \in Requests
      PROVE  /\ Goal!IsACall(call'[s]) /\ call'[s].overtaken \in BOOLEAN
             /\ call'[s].at = "checked" => (Goal!ChecksStillHold(call[s]) \/ Goal!OrdersAreWhole(call[s]))'
  <2>1. CASE s = r BY <1>1, <2>1, IdleCalls DEF Goal!IsACall
  <2>2. CASE s # r /\ call[s].at = "idle" BY <1>1, <2>2 DEF Goal!IInv, Goal!IsACall
  <2>3. CASE s # r /\ call[s].at # "idle"
    <3> DEFINE c == call[s]
    <3>1. Goal!IsACall(c) BY DEF Goal!IInv
    <3>2. call'[s] = [at |-> c.at, op |-> c.op, id |-> c.id, new |-> c.new, overtaken |-> TRUE]
      BY <1>1, <2>3, <3>1 DEF Goal!IsACall
    <3>3. c.at = "checked" => Goal!ChecksStillHold(c) \/ Goal!OrdersAreWhole(c) BY DEF Goal!IInv
    <3> HIDE DEF c
    <3>4. /\ call'[s].at = c.at /\ call'[s].op = c.op /\ call'[s].id = c.id /\ call'[s].new = c.new
          /\ call'[s].overtaken = TRUE
      BY <3>2
    <3>5. Goal!IsACall(call'[s]) BY <3>2 DEF Goal!IsACall
    <3>6. c.at = "checked" => (Goal!ChecksStillHold(call[s]) \/ Goal!OrdersAreWhole(call[s]))'
      BY <3>3, <3>4 DEF Goal!ChecksStillHold, Goal!OrdersAreWhole, Goal!Ordered, Goal!Of, Goal!Valid, Goal!Remainders
    <3> QED BY <3>4, <3>5, <3>6
  <2> QED BY <2>1, <2>2, <2>3
<1> QED BY <1>1, <1>2 DEF Goal!IInv

LEMMA LoadedCalls ==
  ASSUME Goal!IInv, NEW r \in Requests, NEW op, NEW id, NEW new, Goal!Load(r, op, id, new),
         \A c : (/\ c.op = op /\ c.id = id /\ c.new = new /\ c.overtaken = FALSE)
                  => Goal!ChecksStillHold(c) \/ Goal!OrdersAreWhole(c)
  PROVE  Goal!IInv'
<1> DEFINE c == [at |-> "checked", op |-> op, id |-> id, new |-> new, overtaken |-> FALSE]
<1>1. call' = [call EXCEPT ![r] = c] /\ rules' = rules BY DEF Goal!Load
<1>2. Goal!IsACall(c) /\ c.overtaken \in BOOLEAN BY DEF Goal!IsACall
<1>3. Goal!ChecksStillHold(c) \/ Goal!OrdersAreWhole(c) OBVIOUS
<1> HIDE DEF c
<1>4. \A x : /\ Goal!ChecksStillHold(x) <=> Goal!ChecksStillHold(x)'
             /\ Goal!OrdersAreWhole(x) <=> Goal!OrdersAreWhole(x)'
  BY <1>1, SameRules
<1>5. DOMAIN call' = Requests /\ call'[r] = c /\ \A s \in Requests : s # r => call'[s] = call[s] BY <1>1 DEF Goal!IInv
<1> QED BY <1>1, <1>2, <1>3, <1>4, <1>5 DEF Goal!IInv, Goal!Of

LEMMA AutomationsStepInv == DirectionsAreApart /\ Goal!IInv /\ [Goal!Next]_(Goal!vars) => Goal!IInv'
<1> SUFFICES ASSUME DirectionsAreApart, Goal!IInv, [Goal!Next]_(Goal!vars) PROVE Goal!IInv' OBVIOUS
<1> USE DEF DirectionsAreApart
<1>1. ASSUME NEW r \in Requests, NEW id \in Additions, NEW mode, Goal!Post(r, id, mode) PROVE Goal!IInv'
  <2> DEFINE new == Goal!Row(Goal!Append(Additions), mode)
  <2>1. Goal!Valid(Goal!With(Goal!Of(rules, Additions), id, new)) /\ Goal!Load(r, "post", id, new)
    BY <1>1 DEF Goal!Post
  <2> HIDE DEF new
  <2> QED BY <2>1, LoadedCalls DEF Goal!ChecksStillHold, Goal!Ids
<1>2. ASSUME NEW r \in Requests, NEW id \in Withdrawals, Goal!PostWithdrawal(r, id) PROVE Goal!IInv'
  <2>1. PICK new : Goal!Load(r, "post", id, new) BY <1>2 DEF Goal!PostWithdrawal
  <2> QED BY <2>1, LoadedCalls DEF Goal!ChecksStillHold, Goal!Ids
<1>3. ASSUME NEW r \in Requests, NEW id \in Additions, NEW new, Goal!Patch(r, id, new) PROVE Goal!IInv'
  <2>1. Goal!Valid(Goal!With(Goal!Of(rules, Additions), id, new)) /\ Goal!Load(r, "patch", id, new)
    BY <1>3 DEF Goal!Patch
  <2> QED BY <2>1, LoadedCalls DEF Goal!ChecksStillHold, Goal!Ids
<1>4. ASSUME NEW r \in Requests, NEW direction \in {Additions, Withdrawals},
             NEW order \in Goal!Orders(DOMAIN rules \cap direction), Goal!Reorder(r, direction, order)
      PROVE  Goal!IInv'
  <2> DEFINE new == [id \in DOMAIN order |-> Goal!Row(order[id], rules[id].mode)]
             id == IF direction = Additions THEN "additions" ELSE "withdrawals"
  <2>1. Goal!Valid(new) /\ Goal!Load(r, "reorder", id, new) BY <1>4 DEF Goal!Reorder
  <2>2. DOMAIN new = DOMAIN rules \cap direction /\ \A x \in DOMAIN new : new[x].mode = rules[x].mode
    BY DEF Goal!Orders, Goal!Row
  <2>3. new = [x \in DOMAIN new |-> new[x]] OBVIOUS
  <2> HIDE DEF new
  <2>4. (IF id = "additions" THEN Additions ELSE Withdrawals) = direction OBVIOUS
  <2>5. Goal!Of(new, direction) = new BY <2>2, <2>3 DEF Goal!Of
  <2> HIDE DEF id
  <2> QED BY <2>1, <2>2, <2>4, <2>5, LoadedCalls DEF Goal!OrdersAreWhole, Goal!Ordered
<1>5. ASSUME NEW r \in Requests, Goal!Upsert(r) PROVE Goal!IInv'
  <2>1. rules' = Goal!With(rules, call[r].id, call[r].new) /\ Goal!Overtake(r) /\ call[r].at = "checked"
        /\ call[r].op \in {"post", "patch"}
    BY <1>5 DEF Goal!Upsert
  <2>2. call[r].id \in Goal!Ids BY <2>1 DEF Goal!IInv, Goal!ChecksStillHold, Goal!OrdersAreWhole
  <2>3. DOMAIN rules \subseteq Goal!Ids BY DEF Goal!IInv, Goal!Of
  <2>4. rules' = Goal!Of(rules', Goal!Ids) BY <2>1, <2>2, <2>3 DEF Goal!With, Goal!Of
  <2> QED BY <2>1, <2>4, OvertakenCalls
<1>6. ASSUME NEW r \in Requests, Goal!Replace(r) PROVE Goal!IInv'
  <2> DEFINE kept == Goal!Of(rules, IF call[r].id = "additions" THEN Withdrawals ELSE Additions)
  <2>1. /\ rules' = [id \in DOMAIN kept \cup DOMAIN call[r].new |->
                       IF id \in DOMAIN kept THEN kept[id] ELSE call[r].new[id]]
        /\ Goal!Overtake(r) /\ call[r].at = "checked" /\ call[r].op = "reorder"
    BY <1>6 DEF Goal!Replace
  <2>5. Goal!OrdersAreWhole(call[r]) BY <2>1 DEF Goal!IInv, Goal!ChecksStillHold
  <2>2. DOMAIN call[r].new \subseteq Goal!Ids BY <2>1, <2>5 DEF Goal!OrdersAreWhole, Goal!Ordered, Goal!Of, Goal!Ids
  <2>3. DOMAIN kept \subseteq Goal!Ids BY DEF Goal!Of, Goal!Ids
  <2> HIDE DEF kept
  <2>4. rules' = Goal!Of(rules', Goal!Ids) BY <2>1, <2>2, <2>3 DEF Goal!Of
  <2> QED BY <2>1, <2>4, OvertakenCalls
<1>7. ASSUME NEW r \in Requests, Goal!Refused(r) PROVE Goal!IInv'
  <2>1. call' = [call EXCEPT ![r] = Goal!Idle] /\ rules' = rules BY <1>7 DEF Goal!Refused
  <2>2. DOMAIN call' = Requests /\ call'[r] = Goal!Idle /\ \A s \in Requests : s # r => call'[s] = call[s]
    BY <2>1 DEF Goal!IInv
  <2>3. \A c : /\ Goal!ChecksStillHold(c) <=> Goal!ChecksStillHold(c)'
               /\ Goal!OrdersAreWhole(c) <=> Goal!OrdersAreWhole(c)'
    BY <2>1, SameRules
  <2>4. \A s \in Requests : Goal!IsACall(call'[s]) /\ call'[s].overtaken \in BOOLEAN
    BY <2>2, IdleCalls DEF Goal!IInv
  <2>5. \A s \in Requests :
           call'[s].at = "checked" => (Goal!ChecksStillHold(call[s]) \/ Goal!OrdersAreWhole(call[s]))'
    BY <2>2, <2>3, IdleCalls DEF Goal!IInv
  <2> QED BY <2>1, <2>2, <2>4, <2>5 DEF Goal!IInv, Goal!IsACall, Goal!Of
<1>8. ASSUME NEW r \in Requests, NEW id \in Goal!Ids, Goal!Remove(r, id) PROVE Goal!IInv'
  <2>1. rules' = Goal!Of(rules, Goal!Ids \ {id}) /\ Goal!Overtake(r) BY <1>8 DEF Goal!Remove
  <2>2. rules' = Goal!Of(rules', Goal!Ids) BY <2>1 DEF Goal!Of
  <2> QED BY <2>1, <2>2, OvertakenCalls
<1>9. CASE UNCHANGED Goal!vars
  <2>1. call' = call /\ rules' = rules BY <1>9 DEF Goal!vars
  <2>2. \A c : /\ Goal!ChecksStillHold(c) <=> Goal!ChecksStillHold(c)'
               /\ Goal!OrdersAreWhole(c) <=> Goal!OrdersAreWhole(c)'
    BY <2>1, SameRules
  <2> QED BY <2>1, <2>2 DEF Goal!IInv, Goal!IsACall, Goal!Of
<1> QED BY <1>1, <1>2, <1>3, <1>4, <1>5, <1>6, <1>7, <1>8, <1>9 DEF Goal!Next

\* Why a write keeps the list.
LEMMA WritesAreNarrow == DirectionsAreApart /\ Goal!IInv => Goal!WritesKeepTheList
<1> SUFFICES ASSUME DirectionsAreApart, Goal!IInv, NEW r \in Requests, Goal!Upsert(r) \/ Goal!Replace(r)
             PROVE  /\ Goal!Of(rules', Goal!Ids \ Goal!Written(r)) = Goal!Of(rules, Goal!Ids \ Goal!Written(r))
                    /\ ~call[r].overtaken /\ Goal!Valid(Goal!Of(rules, Additions))
                          => Goal!Valid(Goal!Of(rules', Additions))
                    /\ ~call[r].overtaken /\ call[r].op = "reorder" =>
                         /\ DOMAIN rules' = DOMAIN rules
                         /\ \A id \in DOMAIN rules : rules'[id].mode = rules[id].mode
  BY DEF Goal!WritesKeepTheList
<1> USE DEF DirectionsAreApart
<1>0. DOMAIN rules \subseteq Goal!Ids BY DEF Goal!IInv, Goal!Of
<1>1. CASE Goal!Upsert(r)
  <2> DEFINE id == call[r].id
             new == call[r].new
  <2>1. rules' = Goal!With(rules, id, new) /\ call[r].op \in {"post", "patch"} /\ Goal!ChecksStillHold(call[r])
    BY <1>1 DEF Goal!Upsert, Goal!IInv, Goal!OrdersAreWhole
  <2>2. Goal!Written(r) = {id} BY <2>1 DEF Goal!Written
  <2>3. ~call[r].overtaken /\ id \in Additions => Goal!Valid(Goal!With(Goal!Of(rules, Additions), id, new))
    BY <2>1 DEF Goal!ChecksStillHold
  <2> HIDE DEF id, new
  <2>4. Goal!Of(rules', Goal!Ids \ {id}) = Goal!Of(rules, Goal!Ids \ {id}) BY <2>1 DEF Goal!With, Goal!Of
  <2>5. id \in Additions => Goal!Of(rules', Additions) = Goal!With(Goal!Of(rules, Additions), id, new)
    BY <2>1 DEF Goal!With, Goal!Of
  <2>6. id \notin Additions => Goal!Of(rules', Additions) = Goal!Of(rules, Additions) BY <2>1 DEF Goal!With, Goal!Of
  <2> QED BY <2>1, <2>2, <2>3, <2>4, <2>5, <2>6
<1>2. CASE Goal!Replace(r)
  <2> DEFINE own == Goal!Ordered(call[r])
             other == IF call[r].id = "additions" THEN Withdrawals ELSE Additions
             kept == Goal!Of(rules, other)
             new == call[r].new
  <2>1. /\ rules' = [id \in DOMAIN kept \cup DOMAIN new |-> IF id \in DOMAIN kept THEN kept[id] ELSE new[id]]
        /\ call[r].op = "reorder" /\ Goal!OrdersAreWhole(call[r])
    BY <1>2 DEF Goal!Replace, Goal!IInv, Goal!ChecksStillHold
  <2>2. Goal!Written(r) = own /\ own \cap other = {} /\ own \cup other = Goal!Ids /\ Additions \in {own, other}
    BY <2>1 DEF Goal!Written, Goal!Ordered, Goal!Ids
  <2>3. /\ new = Goal!Of(new, own) /\ Goal!Valid(new)
        /\ ~call[r].overtaken => /\ DOMAIN new = DOMAIN rules \cap own
                                 /\ \A id \in DOMAIN new : new[id].mode = rules[id].mode
    BY <2>1 DEF Goal!OrdersAreWhole
  <2> HIDE DEF own, other, new
  <2>4. DOMAIN new \subseteq own /\ DOMAIN kept = DOMAIN rules \cap other
        /\ \A id \in DOMAIN kept : kept[id] = rules[id]
    BY <2>3 DEF Goal!Of
  <2> HIDE DEF kept
  <2>5. Goal!Of(rules', Goal!Ids \ own) = Goal!Of(rules, Goal!Ids \ own) BY <1>0, <2>1, <2>2, <2>4 DEF Goal!Of
  <2>6. Goal!Of(rules', other) = Goal!Of(rules, other) BY <1>0, <2>1, <2>2, <2>4 DEF Goal!Of
  <2>7. Goal!Of(rules', own) = new
    <3>1. DOMAIN Goal!Of(rules', own) = DOMAIN new BY <2>1, <2>2, <2>4 DEF Goal!Of
    <3>2. \A id \in DOMAIN new : Goal!Of(rules', own)[id] = new[id] BY <2>1, <2>2, <2>4 DEF Goal!Of
    <3>3. new = [id \in DOMAIN new |-> new[id]] BY <2>3, <2>4 DEF Goal!Of
    <3>4. Goal!Of(rules', own) = [id \in DOMAIN new |-> Goal!Of(rules', own)[id]] BY <3>1 DEF Goal!Of
    <3> QED BY <3>2, <3>3, <3>4
  <2>8. ~call[r].overtaken => /\ DOMAIN rules' = DOMAIN rules
                              /\ \A id \in DOMAIN rules : rules'[id].mode = rules[id].mode
    BY <1>0, <2>1, <2>2, <2>3, <2>4
  <2> QED BY <2>1, <2>2, <2>3, <2>5, <2>6, <2>7, <2>8
<1> QED BY <1>1, <1>2

\* Every write leaves the rules it is not about as they are, a write that no other write
\* overtook leaves a list the checks accept if it found one, and a reorder keeps every rule.
THEOREM WritesKeepTheListHolds ==
  ASSUME DirectionsAreApart PROVE Goal!Spec => [][Goal!WritesKeepTheList]_(Goal!vars)
<1>1. Goal!IInv /\ [Goal!Next]_(Goal!vars) => [Goal!WritesKeepTheList]_(Goal!vars) BY WritesAreNarrow
<1> QED BY <1>1, AutomationsInitInv, AutomationsStepInv, PTL DEF Goal!Spec

-----------------------------------------------------------------------------
(* What is said about postings.                                            *)

CONSTANTS Postings, Categories, NoCategory, MaxReviews
VARIABLES enforced, rule, override, suggestion, request, reviews, before
Say == INSTANCE PostingReview

LEMMA SuggestionFields ==
  /\ \A s \in Say!Suggestions : /\ s.pending \in BOOLEAN /\ s.selected \in BOOLEAN /\ s.previous \in Say!MaybeCategory
                            /\ s = [pending |-> s.pending, selected |-> s.selected, previous |-> s.previous]
  /\ \A b \in BOOLEAN, c \in Say!MaybeCategory :
         [pending |-> TRUE, selected |-> b, previous |-> c] \in Say!Suggestions
  /\ Say!NoSuggestion \in Say!Suggestions /\ Say!NoSuggestion.pending = FALSE
<1>1. Say!NoSuggestion.previous \in Say!MaybeCategory BY DEF Say!NoSuggestion, Say!MaybeCategory
<1>2. ASSUME NEW s \in Say!Suggestions
      PROVE  /\ s.pending \in BOOLEAN /\ s.selected \in BOOLEAN /\ s.previous \in Say!MaybeCategory
             /\ s = [pending |-> s.pending, selected |-> s.selected, previous |-> s.previous]
  <2>1. CASE s = Say!NoSuggestion BY <1>1, <2>1 DEF Say!NoSuggestion
  <2>2. CASE s \in [pending : {TRUE}, selected : BOOLEAN, previous : Say!MaybeCategory] BY <2>2
  <2> QED BY <2>1, <2>2 DEF Say!Suggestions
<1> QED BY <1>2 DEF Say!Suggestions, Say!NoSuggestion

LEMMA EntryFields ==
  ASSUME NEW e \in Say!Entries
  PROVE  /\ e.own \in Say!Overrides /\ e.staged \in Say!Suggestions /\ e = [own |-> e.own, staged |-> e.staged]
         /\ e.own = [category |-> e.own.category, other |-> e.own.other]
         /\ e.own.category \in Say!MaybeCategory /\ e.own.other \in BOOLEAN
         /\ e.staged = [pending |-> e.staged.pending, selected |-> e.staged.selected, previous |-> e.staged.previous]
         /\ e.staged.pending \in BOOLEAN /\ e.staged.selected \in BOOLEAN /\ e.staged.previous \in Say!MaybeCategory
<1>1. e.own \in Say!Overrides /\ e.staged \in Say!Suggestions /\ e = [own |-> e.own, staged |-> e.staged]
  BY DEF Say!Entries
<1> QED BY <1>1, SuggestionFields DEF Say!Overrides

\* The entries the handlers compute are entries, and differ from what was loaded only in
\* what the handler is about.
LEMMA MergedEntries ==
  ASSUME NEW e \in Say!Entries, NEW change \in Say!Changes
  PROVE  /\ Say!Merged(e, change) \in Say!Entries
         /\ change.field \in {"category", "other", "selected"}
         /\ change.field # "other" => Say!Merged(e, change).own.other = e.own.other
         /\ change.field # "category" => Say!Merged(e, change).own.category = e.own.category
         /\ change.field # "selected" => Say!Merged(e, change).staged = e.staged
         /\ Say!Merged(e, change).staged.pending = e.staged.pending
         /\ Say!Merged(e, change).staged.previous = e.staged.previous
<1>0. /\ e.own \in Say!Overrides /\ e.staged \in Say!Suggestions /\ e = [own |-> e.own, staged |-> e.staged]
      /\ e.own = [category |-> e.own.category, other |-> e.own.other]
      /\ e.staged = [pending |-> e.staged.pending, selected |-> e.staged.selected, previous |-> e.staged.previous]
      /\ e.own.category \in Say!MaybeCategory /\ e.own.other \in BOOLEAN
      /\ e.staged.pending \in BOOLEAN /\ e.staged.selected \in BOOLEAN /\ e.staged.previous \in Say!MaybeCategory
  BY EntryFields
<1>1. CASE change.field = "category"
  <2>1. change.value \in Say!MaybeCategory BY <1>1 DEF Say!Changes
  <2>2. Say!Merged(e, change) = [own |-> [category |-> change.value, other |-> e.own.other], staged |-> e.staged]
    BY <1>0, <1>1 DEF Say!Merged
  <2> QED BY <1>0, <1>1, <2>1, <2>2 DEF Say!Entries, Say!Overrides
<1>2. CASE change.field = "other"
  <2>1. change.value \in BOOLEAN BY <1>2 DEF Say!Changes
  <2>2. Say!Merged(e, change) = [own |-> [category |-> e.own.category, other |-> change.value], staged |-> e.staged]
    BY <1>0, <1>2 DEF Say!Merged
  <2> QED BY <1>0, <1>2, <2>1, <2>2 DEF Say!Entries, Say!Overrides
<1>3. CASE change.field = "selected" /\ e.staged.pending
  <2>1. change.value \in BOOLEAN BY <1>3 DEF Say!Changes
  <2>2. Say!Merged(e, change) = [own |-> e.own, staged |-> [pending |-> e.staged.pending, selected |-> change.value,
                                                          previous |-> e.staged.previous]]
    BY <1>0, <1>3 DEF Say!Merged
  <2> DEFINE staged == [pending |-> e.staged.pending, selected |-> change.value, previous |-> e.staged.previous]
  <2>3. staged \in Say!Suggestions
    <3>1. e.staged.pending = TRUE BY <1>0, <1>3
    <3> QED BY <1>0, <2>1, <3>1, SuggestionFields
  <2>4. staged.pending = e.staged.pending /\ staged.previous = e.staged.previous OBVIOUS
  <2>5. Say!Merged(e, change) = [own |-> e.own, staged |-> staged] BY <2>2
  <2> HIDE DEF staged
  <2> DEFINE new == Say!Merged(e, change)
  <2>6. new \in Say!Entries /\ new.own = e.own /\ new.staged = staged BY <1>0, <2>3, <2>5 DEF Say!Entries
  <2> HIDE DEF new
  <2>7. /\ new \in Say!Entries /\ new.own.other = e.own.other /\ new.own.category = e.own.category
        /\ new.staged.pending = e.staged.pending /\ new.staged.previous = e.staged.previous
    BY <2>4, <2>6
  <2> QED BY <1>3, <2>7 DEF new
<1>4. CASE change.field = "selected" /\ ~e.staged.pending
  <2>1. Say!Merged(e, change) = e BY <1>4 DEF Say!Merged
  <2> QED BY <1>0, <1>4, <2>1
<1> QED BY <1>1, <1>2, <1>3, <1>4 DEF Say!Changes

LEMMA ResolvedEntries ==
  ASSUME NEW e \in Say!Entries
  PROVE  /\ Say!Resolved(e) \in Say!Entries /\ Say!Resolved(e).own.other = e.own.other
         /\ Say!Resolved(e).staged = Say!NoSuggestion
         /\ e.staged.pending /\ ~e.staged.selected => Say!Resolved(e).own.category = e.staged.previous
         /\ ~e.staged.pending => Say!Resolved(e).own = e.own
<1>0. /\ e.own \in Say!Overrides /\ e.staged \in Say!Suggestions /\ e.staged.previous \in Say!MaybeCategory
      /\ e.own = [category |-> e.own.category, other |-> e.own.other]
      /\ e.own.category \in Say!MaybeCategory /\ e.own.other \in BOOLEAN
  BY EntryFields
<1>1. CASE e.staged.pending /\ ~e.staged.selected
  <2>1. Say!Resolved(e) = [own |-> [category |-> e.staged.previous, other |-> e.own.other],
                           staged |-> Say!NoSuggestion]
    BY <1>0, <1>1 DEF Say!Resolved
  <2> QED BY <1>0, <1>1, <2>1 DEF Say!Entries, Say!Overrides, Say!Suggestions
<1>2. CASE ~(e.staged.pending /\ ~e.staged.selected)
  <2>1. Say!Resolved(e) = [own |-> e.own, staged |-> Say!NoSuggestion] BY <1>2 DEF Say!Resolved
  <2> QED BY <1>0, <1>2, <2>1 DEF Say!Entries, Say!Suggestions
<1> QED BY <1>1, <1>2

LEMMA StagedEntries ==
  ASSUME NEW e \in Say!Entries, NEW c \in Categories, NEW shown \in Say!MaybeCategory
  PROVE  /\ Say!Staged(e, c, shown) \in Say!Entries /\ Say!Staged(e, c, shown).own.other = e.own.other
         /\ Say!Staged(e, c, shown).staged.previous = shown
<1>0. e.own = [category |-> e.own.category, other |-> e.own.other] /\ e.own.other \in BOOLEAN
  BY EntryFields
<1>2. [e.own EXCEPT !.category = c] = [category |-> c, other |-> e.own.other] BY <1>0
<1>1. Say!Staged(e, c, shown) = [own |-> [category |-> c, other |-> e.own.other],
                             staged |-> [pending |-> TRUE, selected |-> TRUE, previous |-> shown]]
  BY <1>2 DEF Say!Staged
<1> QED BY <1>0, <1>1 DEF Say!Entries, Say!Overrides, Say!Suggestions, Say!MaybeCategory

LEMMA LoadedEntries ==
  ASSUME Say!IInv, NEW p \in Postings
  PROVE  Say!Loaded(p) \in Say!Entries /\ Say!Loaded(p).own = override[p] /\ Say!Loaded(p).staged = suggestion[p]
         /\ Say!Shown(p) \in Say!MaybeCategory
BY DEF Say!IInv, Say!Loaded, Say!Entries, Say!Shown, Say!Overrides, Say!MaybeCategory

LEMMA Requested ==
  ASSUME NEW at, NEW op, NEW ps, NEW target, NEW entry, NEW q, q = Say!Request(at, op, ps, target, entry)
  PROVE  /\ q.at = at /\ q.op = op /\ q.postings = ps /\ q.target = target /\ q.entry = entry /\ q.overtaken = {}
         /\ Say!IsARequest(q)
BY DEF Say!Request, Say!IsARequest

LEMMA IdleRequests == Say!IsARequest(Say!Idle) /\ Say!Idle.at = "idle" /\ Say!RequestStands(Say!Idle)
<1>1. DOMAIN Say!NoEntry = {} BY DEF Say!NoEntry
<1> QED BY <1>1, Requested DEF Say!Idle, Say!RequestStands, Say!MaybeCategory

\* While no row changes, what a request means to save stays what it is.
LEMMA SameRows ==
  UNCHANGED <<override, suggestion, rule>> => \A q : Say!RequestStands(q) <=> Say!RequestStands(q)'
BY DEF Say!RequestStands, Say!Keeps, Say!Loaded, Say!Shown, Say!Resolved

LEMMA SetRequest ==
  ASSUME Say!IInv, NEW r \in Requests, NEW q, request' = [request EXCEPT ![r] = q],
         Say!IsARequest(q), Say!RequestStands(q),
         UNCHANGED <<override, suggestion, rule, before>>
  PROVE  Say!IInv'
<1>1. DOMAIN request' = Requests /\ request'[r] = q /\ \A s \in Requests : s # r => request'[s] = request[s]
  BY DEF Say!IInv
<1>2. \A x : Say!RequestStands(x) <=> Say!RequestStands(x)' BY SameRows
<1>3. \A s \in Requests : Say!IsARequest(request'[s]) /\ Say!RequestStands(request[s])' BY <1>1, <1>2 DEF Say!IInv
<1>4. \A p \in Postings : Say!Remembers(p)' BY DEF Say!IInv, Say!Remembers
<1> QED BY <1>1, <1>3, <1>4 DEF Say!IInv, Say!IsARequest

LEMMA Started ==
  ASSUME Say!IInv, NEW r \in Requests, NEW op, NEW ps \in SUBSET Postings, NEW entry, Say!Start(r, op, ps, entry),
         op \in {"category", "other", "selected", "validate", "suggest"}, DOMAIN entry = ps,
         \A p \in ps : entry[p] \in Say!Entries,
         \A q : q.op = op => \A p \in ps : Say!Keeps(q, p, entry[p]),
         UNCHANGED <<override, suggestion, rule, before>>
  PROVE  Say!IInv'
<1> DEFINE q == Say!Request("loaded", op, ps, NoCategory, entry)
<1>1. request' = [request EXCEPT ![r] = q] BY DEF Say!Start
<1> HIDE DEF q
<1>2. /\ q.at = "loaded" /\ q.op = op /\ q.postings = ps
      /\ q.target = NoCategory /\ q.entry = entry /\ q.overtaken = {}
      /\ Say!IsARequest(q)
  BY Requested DEF q
<1>3. Say!RequestStands(q) BY <1>2 DEF Say!RequestStands, Say!MaybeCategory
<1> QED BY <1>1, <1>2, <1>3, SetRequest

LEMMA ReviewsInitInv == Say!Init => Say!IInv
<1> SUFFICES ASSUME Say!Init PROVE Say!IInv OBVIOUS
<1>1. DOMAIN request = Requests /\ \A r \in Requests : request[r] = Say!Idle BY DEF Say!Init
<1>2. /\ rule \in [Postings -> Say!MaybeCategory] /\ override \in [Postings -> Say!Overrides]
      /\ suggestion \in [Postings -> Say!Suggestions]
      /\ before \in [Postings -> [fresh : BOOLEAN, category : Say!MaybeCategory]]
  BY DEF Say!Init, Say!NoOverride, Say!Overrides, Say!NoSuggestion, Say!Suggestions, Say!Unknown, Say!MaybeCategory
<1>3. \A p \in Postings : Say!Remembers(p) BY DEF Say!Init, Say!Remembers, Say!Unknown
<1> QED BY <1>1, <1>2, <1>3, IdleRequests DEF Say!IInv

LEMMA SavedInv ==
  ASSUME Say!IInv, NEW r \in Requests, Say!Save(r)
  PROVE  Say!IInv'
<1> DEFINE q == request[r]
           ps == q.postings
           new(p) == q.entry[p]
           isNew(p) == new(p).staged.pending /\ q.op = "suggest" /\ new(p) # Say!Loaded(p)
           was(p) == IF isNew(p) THEN [fresh |-> ~suggestion[p].pending /\ p \notin q.overtaken,
                                              category |-> Say!Shown(p)]
                     ELSE IF p \in q.overtaken THEN Say!Unknown ELSE before[p]
           later(s) == IF s = r THEN Say!Idle ELSE IF request[s].at = "idle" THEN request[s]
                       ELSE [request[s] EXCEPT !.overtaken = @ \cup (ps \cap request[s].postings)]
<1>1. /\ q.at = "loaded" /\ rule' = rule
      /\ override' = [p \in Postings |-> IF p \in ps THEN new(p).own ELSE override[p]]
      /\ suggestion' = [p \in Postings |-> IF p \in ps THEN new(p).staged ELSE suggestion[p]]
      /\ request' = [s \in Requests |-> later(s)]
  BY DEF Say!Save
<1>2. before' = [p \in Postings |-> IF p \notin ps THEN before[p] ELSE was(p)] BY DEF Say!Save
<1>3. /\ ps \subseteq Postings /\ \A p \in ps : new(p) \in Say!Entries
      /\ \A p \in ps \ q.overtaken : Say!Keeps(q, p, new(p))
  BY <1>1 DEF Say!IInv, Say!RequestStands
<1>4. /\ override' \in [Postings -> Say!Overrides] /\ suggestion' \in [Postings -> Say!Suggestions]
      /\ rule' \in [Postings -> Say!MaybeCategory]
  BY <1>1, <1>3 DEF Say!IInv, Say!Entries
<1>5. before' \in [Postings -> [fresh : BOOLEAN, category : Say!MaybeCategory]]
  <2>1. \A p \in Postings : was(p) \in [fresh : BOOLEAN, category : Say!MaybeCategory]
    BY LoadedEntries DEF Say!IInv, Say!Unknown, Say!MaybeCategory
  <2> HIDE DEF was
  <2> QED BY <1>2, <2>1 DEF Say!IInv
<1>6. ASSUME NEW p \in Postings PROVE Say!Remembers(p)'
  <2>0. Say!Remembers(p) /\ rule'[p] = rule[p] BY <1>1 DEF Say!IInv
  <2>1. CASE p \notin ps BY <1>1, <1>2, <2>0, <2>1 DEF Say!Remembers
  <2>2. CASE p \in ps /\ isNew(p)
    <3>1. before'[p].fresh => p \notin q.overtaken /\ ~suggestion[p].pending BY <1>2, <2>2
    <3>2. before'[p].category = Say!Shown(p) BY <1>2, <2>2
    <3>3. before'[p].fresh => suggestion'[p].previous = Say!Shown(p) BY <1>1, <1>3, <2>2, <3>1 DEF Say!Keeps
    <3>4. Say!Shown(p) = NoCategory => rule[p] = NoCategory BY DEF Say!Shown
    <3> QED BY <2>0, <3>2, <3>3, <3>4 DEF Say!Remembers
  <2>3. CASE p \in ps /\ ~isNew(p) /\ p \in q.overtaken
    <3>1. before'[p] = Say!Unknown BY <1>2, <2>3
    <3> QED BY <3>1 DEF Say!Remembers, Say!Unknown
  <2>4. CASE p \in ps /\ ~isNew(p) /\ p \notin q.overtaken
    <3>1. before'[p] = before[p] /\ suggestion'[p] = new(p).staged BY <1>1, <1>2, <2>4
    <3>2. Say!Keeps(q, p, new(p)) /\ Say!Loaded(p).staged = suggestion[p] /\ Say!Loaded(p) \in Say!Entries
      BY <1>3, <2>4, LoadedEntries
    <3>3. q.op \in {"category", "other", "selected", "validate", "suggest"} BY <1>1 DEF Say!IInv, Say!RequestStands
    <3>4. suggestion'[p].pending => suggestion[p].pending /\ suggestion'[p].previous = suggestion[p].previous
      <4>1. CASE q.op \in {"category", "other", "selected"} BY <3>1, <3>2, <4>1 DEF Say!Keeps
      <4>2. CASE q.op = "validate" BY <3>1, <3>2, <4>2, ResolvedEntries, SuggestionFields DEF Say!Keeps
      <4>3. CASE q.op = "suggest"
        <5>1. ~new(p).staged.pending \/ new(p) = Say!Loaded(p) BY <2>4, <4>3
        <5> QED BY <3>1, <3>2, <5>1
      <4> QED BY <3>3, <4>1, <4>2, <4>3
    <3> QED BY <2>0, <3>1, <3>4 DEF Say!Remembers
  <2> QED BY <2>1, <2>2, <2>3, <2>4
<1>7. ASSUME NEW s \in Requests PROVE Say!IsARequest(request'[s]) /\ Say!RequestStands(request[s])'
  <2>1. CASE s = r
    <3>1. request'[s] = Say!Idle BY <1>1, <2>1
    <3> QED BY <3>1, IdleRequests DEF Say!RequestStands, Say!Idle
  <2>2. CASE s # r /\ request[s].at = "idle"
    <3>1. request'[s] = request[s] BY <1>1, <2>2
    <3> QED BY <2>2, <3>1 DEF Say!IInv, Say!IsARequest, Say!RequestStands
  <2>3. CASE s # r /\ request[s].at # "idle"
    <3> DEFINE x == request[s]
               y == [at |-> x.at, op |-> x.op, postings |-> x.postings, target |-> x.target, entry |-> x.entry,
                     overtaken |-> x.overtaken \cup (ps \cap x.postings)]
    <3>1. Say!IsARequest(x) /\ Say!RequestStands(x) BY DEF Say!IInv
    <3>2. request'[s] = y BY <1>1, <2>3, <3>1 DEF Say!IsARequest
    <3>3. /\ y.at = x.at /\ y.op = x.op /\ y.postings = x.postings /\ y.target = x.target /\ y.entry = x.entry
          /\ y.overtaken = x.overtaken \cup (ps \cap x.postings) /\ Say!IsARequest(y)
      BY DEF Say!IsARequest
    <3> HIDE DEF x, y
    <3>4. \A p \in Postings \ ps : /\ Say!Loaded(p)' = Say!Loaded(p) /\ Say!Shown(p)' = Say!Shown(p)
                                   /\ override'[p] = override[p] /\ suggestion'[p] = suggestion[p]
      BY <1>1 DEF Say!Loaded, Say!Shown
    <3>5. x.postings \subseteq Postings BY <3>1 DEF Say!RequestStands
    <3>6. \A p \in y.postings \ y.overtaken : p \in Postings \ ps /\ p \in x.postings \ x.overtaken BY <3>3, <3>5
    <3>7. ASSUME NEW p \in y.postings \ y.overtaken, NEW e, Say!Keeps(x, p, e) PROVE Say!Keeps(request[s], p, e)'
      <4>1. p \in Postings \ ps BY <3>6
      <4>2. /\ Say!Loaded(p)' = Say!Loaded(p) /\ Say!Shown(p)' = Say!Shown(p)
            /\ override'[p] = override[p] /\ suggestion'[p] = suggestion[p]
        BY <3>4, <4>1
      <4> QED BY <3>2, <3>3, <3>7, <4>2 DEF Say!Keeps, Say!Resolved
    <3>8. Say!RequestStands(request[s])'
      BY <3>1, <3>2, <3>3, <3>4, <3>6, <3>7 DEF Say!RequestStands
    <3> QED BY <3>2, <3>3, <3>8
  <2> QED BY <2>1, <2>2, <2>3
<1>8. DOMAIN request' = Requests BY <1>1
<1> QED BY <1>4, <1>5, <1>6, <1>7, <1>8 DEF Say!IInv

LEMMA ReviewsStepInv == Say!IInv /\ [Say!Next]_(Say!vars) => Say!IInv'
<1> SUFFICES ASSUME Say!IInv, [Say!Next]_(Say!vars) PROVE Say!IInv' OBVIOUS
<1>1. ASSUME NEW r \in Requests, NEW p \in Postings, NEW change \in Say!Changes, Say!Put(r, p, change) PROVE Say!IInv'
  <2> DEFINE entry == [x \in {p} |-> Say!Merged(Say!Loaded(p), change)]
  <2>1. Say!Start(r, change.field, {p}, entry) /\ UNCHANGED <<override, suggestion, rule, before>>
    BY <1>1 DEF Say!Put, Say!rowVars
  <2>2. DOMAIN entry = {p} /\ \A x \in {p} : entry[x] = Say!Merged(Say!Loaded(p), change) OBVIOUS
  <2> HIDE DEF entry
  <2>3. \A x \in {p} : entry[x] \in Say!Entries BY <2>2, LoadedEntries, MergedEntries
  <2>4. \A q : q.op = change.field => \A x \in {p} : Say!Keeps(q, x, entry[x])
    BY <2>2, LoadedEntries, MergedEntries DEF Say!Keeps
  <2>5. change.field \in {"category", "other", "selected"} BY DEF Say!Changes
  <2> QED BY <2>1, <2>2, <2>3, <2>4, <2>5, Started
<1>2. ASSUME NEW r \in Requests, NEW ps \in SUBSET Postings, Say!Validate(r, ps) PROVE Say!IInv'
  <2> DEFINE entry == [p \in ps |-> Say!Resolved(Say!Loaded(p))]
  <2>1. Say!Start(r, "validate", ps, entry) /\ UNCHANGED <<override, suggestion, rule, before>>
    BY <1>2 DEF Say!Validate, Say!rowVars
  <2>2. DOMAIN entry = ps /\ \A p \in ps : entry[p] = Say!Resolved(Say!Loaded(p)) OBVIOUS
  <2> HIDE DEF entry
  <2>3. \A p \in ps : entry[p] \in Say!Entries BY <2>2, LoadedEntries, ResolvedEntries
  <2>4. \A q : q.op = "validate" => \A p \in ps : Say!Keeps(q, p, entry[p])
    BY <2>2, LoadedEntries, ResolvedEntries DEF Say!Keeps
  <2> QED BY <2>1, <2>2, <2>3, <2>4, Started
<1>3. ASSUME NEW r \in Requests, NEW p \in Postings, Say!Ask(r, p) PROVE Say!IInv'
  <2> DEFINE q == Say!Request("asking", "suggest", {p}, Say!Shown(p), Say!NoEntry)
  <2>2. request' = [request EXCEPT ![r] = q] /\ UNCHANGED <<override, suggestion, rule, before>>
    BY <1>3 DEF Say!Ask, Say!rowVars
  <2> HIDE DEF q
  <2>3. /\ q.at = "asking" /\ q.op = "suggest" /\ q.postings = {p} /\ q.target = Say!Shown(p) /\ q.entry = Say!NoEntry
        /\ q.overtaken = {} /\ Say!IsARequest(q)
    BY Requested DEF q
  <2>5. DOMAIN Say!NoEntry = {} BY DEF Say!NoEntry
  <2>4. Say!RequestStands(q) BY <2>3, <2>5, LoadedEntries DEF Say!RequestStands
  <2> QED BY <2>2, <2>3, <2>4, SetRequest
<1>4. ASSUME NEW r \in Requests, NEW c \in Categories, Say!Answer(r, c) PROVE Say!IInv'
  <2> DEFINE p == CHOOSE x \in request[r].postings : TRUE
             x == request[r]
             entry == [y \in {p} |-> Say!Staged(Say!Loaded(p), c, x.target)]
             q == [at |-> "loaded", op |-> x.op, postings |-> x.postings, target |-> x.target, entry |-> entry,
                   overtaken |-> x.overtaken]
  <2>1. x.at = "asking" /\ UNCHANGED <<override, suggestion, rule, before>> BY <1>4 DEF Say!Answer, Say!rowVars
  <2>2. Say!IsARequest(x) /\ Say!RequestStands(x) BY DEF Say!IInv
  <2>3. /\ x.op = "suggest" /\ x.postings = {p} /\ p \in Postings /\ x.target \in Say!MaybeCategory
        /\ p \notin x.overtaken => x.target = Say!Shown(p)
    BY <2>1, <2>2 DEF Say!RequestStands
  <2>4. CASE enforced
    <3>1. request' = [request EXCEPT ![r] = Say!Idle] BY <1>4, <2>4 DEF Say!Answer
    <3> QED BY <2>1, <3>1, SetRequest, IdleRequests
  <2>5. CASE ~enforced
    <3>1. request' = [request EXCEPT ![r] = [x EXCEPT !.at = "loaded", !.entry = entry]] BY <1>4, <2>5 DEF Say!Answer
    <3>2. [x EXCEPT !.at = "loaded", !.entry = entry] = q
      <4> HIDE DEF x, entry
      <4> DEFINE y == [x EXCEPT !.at = "loaded"]
      <4>1. [x EXCEPT !.at = "loaded", !.entry = entry] = [y EXCEPT !.entry = entry] OBVIOUS
      <4>2. y = [at |-> "loaded", op |-> x.op, postings |-> x.postings, target |-> x.target, entry |-> x.entry,
                 overtaken |-> x.overtaken]
        BY <2>2 DEF Say!IsARequest
      <4> HIDE DEF y
      <4> QED BY <4>1, <4>2
    <3>3. DOMAIN entry = {p} /\ entry[p] = Say!Staged(Say!Loaded(p), c, x.target) OBVIOUS
    <3>4. /\ q.at = "loaded" /\ q.op = x.op /\ q.postings = x.postings /\ q.target = x.target /\ q.entry = entry
          /\ q.overtaken = x.overtaken /\ Say!IsARequest(q)
      BY DEF Say!IsARequest
    <3> HIDE DEF entry, x, p, q
    <3>5. /\ entry[p] \in Say!Entries /\ entry[p].own.other = Say!Loaded(p).own.other
          /\ entry[p].staged.previous = x.target
          /\ Say!Loaded(p).own = override[p]
      BY <2>3, <3>3, LoadedEntries, StagedEntries
    <3>6. Say!RequestStands(q) BY <2>3, <3>3, <3>4, <3>5 DEF Say!RequestStands, Say!Keeps
    <3> QED BY <2>1, <3>1, <3>2, <3>4, <3>6, SetRequest
  <2> QED BY <2>4, <2>5
<1>5. ASSUME NEW r \in Requests, NEW ps \in SUBSET Postings, NEW c \in Categories, Say!Match(r, ps, c) PROVE Say!IInv'
  <2> DEFINE entry == [p \in ps |-> IF Say!Shown(p) \in {NoCategory, c}
                                    THEN Say!Staged(Say!Loaded(p), c, Say!Shown(p)) ELSE Say!Loaded(p)]
  <2>1. Say!Start(r, "suggest", ps, entry) /\ UNCHANGED <<override, suggestion, rule, before>>
    BY <1>5 DEF Say!Match, Say!rowVars
  <2>2. DOMAIN entry = ps /\ \A p \in ps :
           entry[p] \in {Say!Staged(Say!Loaded(p), c, Say!Shown(p)), Say!Loaded(p)} OBVIOUS
  <2> HIDE DEF entry
  <2>3. \A p \in ps : entry[p] \in Say!Entries BY <2>2, LoadedEntries, StagedEntries
  <2>4. \A p \in ps : entry[p].own.other = override[p].other
                      /\ (entry[p] = Say!Loaded(p) \/ entry[p].staged.previous = Say!Shown(p))
    BY <2>2, LoadedEntries, StagedEntries
  <2>5. \A q : q.op = "suggest" => \A p \in ps : Say!Keeps(q, p, entry[p]) BY <2>4 DEF Say!Keeps
  <2> QED BY <2>1, <2>2, <2>3, <2>5, Started
<1>6. ASSUME NEW r \in Requests, Say!Save(r) PROVE Say!IInv' BY <1>6, SavedInv
<1>7. ASSUME NEW r \in Requests, Say!Abandon(r) PROVE Say!IInv'
  BY <1>7, SetRequest, IdleRequests DEF Say!Abandon, Say!rowVars
<1>8. CASE UNCHANGED Say!vars
  <2>1. UNCHANGED <<override, suggestion, rule, before, request>> BY <1>8 DEF Say!vars, Say!rowVars
  <2>2. \A x : Say!RequestStands(x) <=> Say!RequestStands(x)' BY <2>1, SameRows
  <2>3. \A s \in Requests : Say!IsARequest(request'[s]) /\ Say!RequestStands(request[s])' BY <2>1, <2>2 DEF Say!IInv
  <2>4. \A p \in Postings : Say!Remembers(p)' BY <2>1 DEF Say!IInv, Say!Remembers
  <2> QED BY <2>1, <2>3, <2>4 DEF Say!IInv
<1> QED BY <1>1, <1>2, <1>3, <1>4, <1>5, <1>6, <1>7, <1>8 DEF Say!Next

LEMMA SavesTouchTheirOwn == Say!IInv => Say!RejectionRestores /\ Say!SavesAreNarrow
<1> SUFFICES ASSUME Say!IInv, NEW r \in Requests, NEW p \in Postings, Say!Save(r),
                    p \in request[r].postings \ request[r].overtaken
             PROVE  /\ (/\ request[r].op = "validate" /\ suggestion[p].pending /\ ~suggestion[p].selected
                        /\ before[p].fresh) => Say!Shown(p)' = before[p].category
                    /\ request[r].op # "other" => override'[p].other = override[p].other
                    /\ request[r].op \in {"other", "selected"} => override'[p].category = override[p].category
                    /\ request[r].op \in {"category", "other"} => suggestion'[p] = suggestion[p]
                    /\ ~suggestion[p].pending /\ request[r].op # "suggest" => ~suggestion'[p].pending
                    /\ request[r].op = "validate" /\ ~suggestion[p].pending => override'[p] = override[p]
  BY DEF Say!RejectionRestores, Say!SavesAreNarrow
<1> DEFINE e == request[r].entry[p]
<1>1. override'[p] = e.own /\ suggestion'[p] = e.staged /\ request[r].at = "loaded" /\ rule' = rule BY DEF Say!Save
<1>2. Say!Keeps(request[r], p, e) /\ request[r].op \in {"category", "other", "selected", "validate", "suggest"}
  BY <1>1 DEF Say!IInv, Say!RequestStands
<1>3. Say!Loaded(p) \in Say!Entries /\ Say!Loaded(p).own = override[p] /\ Say!Loaded(p).staged = suggestion[p]
  BY LoadedEntries
<1> HIDE DEF e
<1>4. ASSUME request[r].op = "validate", suggestion[p].pending, ~suggestion[p].selected, before[p].fresh
      PROVE  Say!Shown(p)' = before[p].category
  <2>1. override'[p].category = suggestion[p].previous BY <1>1, <1>2, <1>3, <1>4, ResolvedEntries DEF Say!Keeps
  <2>2. /\ suggestion[p].previous = before[p].category
        /\ suggestion[p].previous = NoCategory => rule[p] = NoCategory
    BY <1>4 DEF Say!IInv, Say!Remembers
  <2> QED BY <1>1, <2>1, <2>2 DEF Say!Shown
<1>5. ~suggestion[p].pending /\ request[r].op # "suggest" => ~suggestion'[p].pending
  BY <1>1, <1>2, <1>3, ResolvedEntries DEF Say!Keeps, Say!NoSuggestion
<1>6. request[r].op = "validate" /\ ~suggestion[p].pending => override'[p] = override[p]
  BY <1>1, <1>2, <1>3, ResolvedEntries DEF Say!Keeps
<1> QED BY <1>1, <1>2, <1>3, <1>4, <1>5, <1>6 DEF Say!Keeps

\* Rejecting a suggestion puts back what the posting showed, and a save changes only what
\* its request is about.
THEOREM ReviewsTouchTheirOwnHolds == Say!Spec => [][Say!RejectionRestores /\ Say!SavesAreNarrow]_(Say!vars)
<1>1. Say!IInv /\ [Say!Next]_(Say!vars) => [Say!RejectionRestores /\ Say!SavesAreNarrow]_(Say!vars)
  BY SavesTouchTheirOwn
<1> QED BY <1>1, ReviewsInitInv, ReviewsStepInv, PTL DEF Say!Spec

-----------------------------------------------------------------------------
(* The accounts of a user and their postings.                              *)

CONSTANTS Ids, Initial, Terms, Moves, Days, MaxRequests
VARIABLES account, opening, posted, transfer, asked, served, raced
Book == INSTANCE AccountBook

LEMMA FiniteIsFinite == \A S : Book!IsFiniteSet(S) <=> IsFiniteSet(S) BY DEF Book!IsFiniteSet, IsFiniteSet

FirstAccounts == IsFiniteSet(Initial)

LEMMA OnAccounts ==
  \A a : Book!HasPostings(a) <=> \/ \E x \in posted : x[1] = a
                            \/ \E i \in DOMAIN transfer : transfer[i].from.account = a \/ transfer[i].to.account = a
<1> DEFINE fromImport(x) == [of |-> <<"import", "once">>,
                             leg |-> [account |-> x[1], currency |-> x[2], amount |-> 1, day |-> 1]]
           fromTransfer(i, side) == [of |-> <<i, side>>, leg |-> transfer[i][side]]
<1>1. Book!Postings = {fromImport(x) : x \in posted}
                        \cup {fromTransfer(i, side) : i \in DOMAIN transfer, side \in {"from", "to"}}
  BY DEF Book!Postings
<1>2. \A x : fromImport(x).leg.account = x[1] OBVIOUS
<1>3. \A i, side : fromTransfer(i, side).leg = transfer[i][side] OBVIOUS
<1> HIDE DEF fromImport, fromTransfer
<1> SUFFICES ASSUME NEW a
             PROVE  Book!HasPostings(a) <=>
                      \/ \E x \in posted : x[1] = a
                      \/ \E i \in DOMAIN transfer : transfer[i].from.account = a \/ transfer[i].to.account = a
  OBVIOUS
<1>4. ASSUME NEW x \in posted, x[1] = a PROVE Book!HasPostings(a) BY <1>1, <1>2, <1>4 DEF Book!HasPostings
<1>5. ASSUME NEW i \in DOMAIN transfer, NEW side \in {"from", "to"}, transfer[i][side].account = a
      PROVE  Book!HasPostings(a)
  <2>1. fromTransfer(i, side) \in Book!Postings BY <1>1
  <2> QED BY <1>3, <1>5, <2>1 DEF Book!HasPostings
<1>6. ASSUME NEW i \in DOMAIN transfer, transfer[i].from.account = a \/ transfer[i].to.account = a
      PROVE  Book!HasPostings(a)
  BY <1>5, <1>6
<1>7. ASSUME NEW p \in Book!Postings, p.leg.account = a
      PROVE  \/ \E x \in posted : x[1] = a
             \/ \E i \in DOMAIN transfer : transfer[i].from.account = a \/ transfer[i].to.account = a
  <2>1. CASE p \in {fromImport(x) : x \in posted} BY <1>2, <1>7, <2>1
  <2>2. CASE p \in {fromTransfer(i, side) : i \in DOMAIN transfer, side \in {"from", "to"}}
    <3>1. PICK i \in DOMAIN transfer, side \in {"from", "to"} : p = fromTransfer(i, side) BY <2>2
    <3>2. transfer[i][side].account = a BY <1>3, <1>7, <3>1
    <3> QED BY <3>2
  <2> QED BY <1>1, <2>1, <2>2
<1> QED BY <1>4, <1>6, <1>7 DEF Book!HasPostings

LEMMA NobodyAsks ==
  Book!IsARequest(Book!Idle) /\ Book!RequestStands(Book!Idle) /\ Book!Idle.at = "idle"
BY DEF Book!IsARequest, Book!RequestStands, Book!Idle

LEMMA AccountsInitInv == FirstAccounts /\ Book!Init => Book!IInv
<1> SUFFICES ASSUME FirstAccounts, Book!Init PROVE Book!IInv OBVIOUS
<1>1. Book!Postings = {} BY DEF Book!Init, Book!Postings
<1>2. IsFiniteSet(Book!Postings) BY <1>1, FS_EmptySet
<1>3. IsFiniteSet(DOMAIN account) /\ account \in [DOMAIN account -> [terms : Terms, closed : BOOLEAN]]
  BY DEF Book!Init, FirstAccounts
<1>4. posted = {} /\ DOMAIN transfer = {} BY DEF Book!Init
<1>5. DOMAIN asked = Requests /\ \A q \in Requests : asked[q] = Book!Idle BY DEF Book!Init
<1> QED BY <1>2, <1>3, <1>4, <1>5, NobodyAsks, FiniteIsFinite DEF Book!IInv

\* What the others found holds as long as nobody touches the account they looked at.
Untouched(as) ==
  \A b : b \notin as => /\ b \in DOMAIN account => b \in DOMAIN account' /\ account'[b].terms = account[b].terms
                        /\ Book!HasPostings(b)' => Book!HasPostings(b)
RequestsStand ==
  DOMAIN asked = Requests /\ \A q \in Requests : Book!IsARequest(asked[q]) /\ Book!RequestStands(asked[q])

LEMMA OthersStand ==
  ASSUME NEW c, Book!IsARequest(c), Book!RequestStands(c), NEW as, Untouched(as), c.id \notin as
  PROVE  Book!RequestStands(c)'
BY DEF Book!RequestStands, Untouched, Book!Locked

LEMMA OvertakenStand ==
  ASSUME NEW c, Book!IsARequest(c), Book!RequestStands(c)
  PROVE  Book!IsARequest([c EXCEPT !.overtaken = TRUE]) /\ Book!RequestStands([c EXCEPT !.overtaken = TRUE])'
<1> DEFINE d == [c EXCEPT !.overtaken = TRUE]
<1>1. /\ d.op = c.op /\ d.terms = c.terms /\ d.closed = c.closed /\ d.moves = c.moves /\ d.id = c.id /\ d.at = c.at
      /\ d.overtaken = TRUE /\ DOMAIN d = DOMAIN c
  BY DEF Book!IsARequest
<1> HIDE DEF d
<1> QED BY <1>1 DEF Book!RequestStands, Book!IsARequest, d

LEMMA Touched ==
  ASSUME RequestsStand, NEW as, Untouched(as), DOMAIN asked' = Requests,
         \A r \in Requests : \/ asked'[r] = Book!Idle
                             \/ asked[r].id \in as /\ asked'[r] = [asked[r] EXCEPT !.overtaken = TRUE]
                             \/ asked[r].id \notin as /\ asked'[r] = asked[r]
  PROVE  RequestsStand'
<1>1. ASSUME NEW r \in Requests PROVE Book!IsARequest(asked'[r]) /\ (Book!RequestStands(asked[r]))'
  <2> DEFINE c == asked[r]
             d == asked'[r]
  <2>1. Book!IsARequest(c) /\ Book!RequestStands(c) BY DEF RequestsStand
  <2>2. CASE d = Book!Idle
    <3>1. Book!IsARequest(d) BY <2>2, NobodyAsks
    <3>2. d.op = "none" /\ d.at = "idle" /\ d.closed = FALSE BY <2>2 DEF Book!Idle
    <3>3. (Book!RequestStands(asked[r]))' BY <3>2 DEF Book!RequestStands
    <3> QED BY <3>1, <3>3
  <2>3. CASE c.id \in as /\ d = [c EXCEPT !.overtaken = TRUE]
    <3>1. Book!IsARequest(d) /\ Book!RequestStands([c EXCEPT !.overtaken = TRUE])' BY <2>1, <2>3, OvertakenStand
    <3> QED BY <2>3, <3>1 DEF Book!RequestStands
  <2>4. CASE c.id \notin as /\ d = c
    <3>1. Book!RequestStands(c)' BY <2>1, <2>4, OthersStand
    <3> QED BY <2>1, <2>4, <3>1 DEF Book!RequestStands
  <2> QED BY <2>2, <2>3, <2>4
<1> QED BY <1>1 DEF RequestsStand

\* Looking changes nothing but the request.
LEMMA Looked ==
  ASSUME Book!IInv, NEW q \in Requests, UNCHANGED <<Book!rowVars, raced>>, NEW c, asked' = [asked EXCEPT ![q] = c],
         Book!IsARequest(c), Book!RequestStands(c)
  PROVE  Book!IInv'
<1>1. account' = account /\ posted' = posted /\ transfer' = transfer /\ raced' = raced BY DEF Book!rowVars
<1>2. Book!Postings' = Book!Postings BY <1>1 DEF Book!Postings
<1>3. \A d : Book!RequestStands(d) => Book!RequestStands(d)' BY <1>1, <1>2 DEF Book!RequestStands, Book!HasPostings
<1>4. DOMAIN asked' = Requests /\ asked'[q] = c /\ \A r \in Requests : r # q => asked'[r] = asked[r]
  <2>1. DOMAIN asked = Requests BY DEF Book!IInv
  <2> QED BY <2>1
<1>5. ASSUME NEW r \in Requests PROVE Book!IsARequest(asked'[r]) /\ (Book!RequestStands(asked[r]))'
  <2> PICK d : d = asked'[r] OBVIOUS
  <2>1. Book!IsARequest(d) /\ Book!RequestStands(d) BY <1>4 DEF Book!IInv
  <2>2. Book!RequestStands(d)' BY <1>3, <2>1
  <2> QED BY <2>1, <2>2 DEF Book!RequestStands
<1>6. \A a, currency : Book!Stands(a, currency) => Book!Stands(a, currency)' BY <1>1 DEF Book!Stands
<1>7. IsFiniteSet(Book!Postings') /\ IsFiniteSet(DOMAIN account') BY <1>1, <1>2, FiniteIsFinite DEF Book!IInv
<1>8. \A x \in posted' : Book!Stands(x[1], x[2])' BY <1>1, <1>6 DEF Book!IInv
<1>9. \A i \in DOMAIN transfer' : /\ (Book!Stands(transfer[i].from.account, transfer[i].from.currency))'
                                  /\ (Book!Stands(transfer[i].to.account, transfer[i].to.currency))'
                                  /\ \E mv \in Moves : (Book!Tells(transfer[i], mv))'
  BY <1>1 DEF Book!IInv, Book!Stands, Book!Tells
<1> QED BY <1>1, <1>4, <1>5, <1>7, <1>8, <1>9, FiniteIsFinite DEF Book!IInv, Book!Stands

LEMMA LooksStand ==
  ASSUME Book!IInv, NEW q \in Requests, NEW op, NEW a, NEW terms, NEW moves, Book!Look(q, op, a, terms, moves),
         op = "put" => terms \in Terms /\ (Book!Locked(account[a].terms, terms) => ~Book!HasPostings(a)),
         op = "import" => terms = account[a].terms,
         op = "close" => \A mv \in moves : mv.from = a /\ moves = {mv} /\ mv \in Moves
  PROVE  Book!IInv'
<1> DEFINE c == [at |-> "looked", op |-> op, id |-> a, terms |-> terms, closed |-> account[a].closed,
                 moves |-> moves, overtaken |-> FALSE]
<1>1. asked' = [asked EXCEPT ![q] = c] /\ UNCHANGED <<Book!rowVars, raced>> /\ a \in DOMAIN account BY DEF Book!Look
<1>2. Book!IsARequest(c) BY DEF Book!IsARequest
<1>3. /\ c.op = op /\ c.id = a /\ c.terms = terms /\ c.closed = account[a].closed /\ c.moves = moves
      /\ c.at = "looked" /\ c.overtaken = FALSE
  OBVIOUS
<1>4. account[a].closed \in BOOLEAN BY <1>1 DEF Book!IInv
<1> HIDE DEF c
<1>5. Book!RequestStands(c) BY <1>1, <1>3, <1>4 DEF Book!RequestStands
<1> QED BY <1>1, <1>2, <1>5, Looked

\* One account changes, or none: the rest of the invariant.
LEMMA Kept ==
  ASSUME Book!IInv, IsFiniteSet(DOMAIN account'), account' \in [DOMAIN account' -> [terms : Terms, closed : BOOLEAN]],
         posted' = posted, DOMAIN transfer' = DOMAIN transfer, \A i \in DOMAIN transfer : transfer'[i] = transfer[i],
         raced \subseteq raced', RequestsStand',
         \A a \in DOMAIN account : Book!HasPostings(a) /\ a \notin raced' =>
             a \in DOMAIN account' /\ account'[a].terms.currency = account[a].terms.currency,
         \A a \in DOMAIN account : Book!HasPostings(a) => a \in DOMAIN account'
  PROVE  Book!IInv'
<1>1. Book!Postings' = Book!Postings BY DEF Book!Postings
<1>2. IsFiniteSet(Book!Postings)' BY <1>1, FiniteIsFinite DEF Book!IInv
<1>3. ASSUME NEW a, NEW currency, Book!HasPostings(a), Book!Stands(a, currency) PROVE Book!Stands(a, currency)'
  BY <1>3 DEF Book!Stands
<1>4. \A x \in posted : Book!Stands(x[1], x[2])' BY <1>3, OnAccounts DEF Book!IInv
<1>5. ASSUME NEW i \in DOMAIN transfer
      PROVE  /\ Book!Stands(transfer[i].from.account, transfer[i].from.currency)'
             /\ Book!Stands(transfer[i].to.account, transfer[i].to.currency)'
             /\ \E mv \in Moves : Book!Tells(transfer[i], mv)'
  BY <1>3, OnAccounts DEF Book!IInv, Book!Tells
<1> QED BY <1>2, <1>4, <1>5, FiniteIsFinite DEF Book!IInv, RequestsStand

LEMMA Written ==
  ASSUME Book!IInv, NEW q \in Requests, NEW as, Book!Wrote(q, as), Untouched(as)
  PROVE  RequestsStand' /\ raced \subseteq raced' /\ (asked[q].overtaken => as \subseteq raced')
<1>1. RequestsStand BY DEF Book!IInv, RequestsStand
<1>2. DOMAIN asked' = Requests /\ raced \subseteq raced' /\ (asked[q].overtaken => as \subseteq raced')
  BY DEF Book!Wrote
<1>3. \A r \in Requests : \/ asked'[r] = Book!Idle
                          \/ asked[r].id \in as /\ asked'[r] = [asked[r] EXCEPT !.overtaken = TRUE]
                          \/ asked[r].id \notin as /\ asked'[r] = asked[r]
  BY DEF Book!Wrote
<1>4. RequestsStand' BY <1>1, <1>2, <1>3, Touched
<1> QED BY <1>2, <1>4

LEMMA SamePostings ==
  ASSUME posted' = posted, DOMAIN transfer' = DOMAIN transfer, \A i \in DOMAIN transfer : transfer'[i] = transfer[i]
  PROVE  Book!Postings' = Book!Postings /\ \A a : Book!HasPostings(a)' <=> Book!HasPostings(a)
<1>1. Book!Postings' = Book!Postings BY DEF Book!Postings
<1> QED BY <1>1 DEF Book!HasPostings

LEMMA PutInv == ASSUME Book!IInv, NEW q \in Requests, Book!Put(q) PROVE Book!IInv'
<1> DEFINE c == asked[q]
           a == c.id
<1>1. /\ c.at = "looked" /\ c.op = "put" /\ a \in DOMAIN account
      /\ account' = [account EXCEPT ![a] = [terms |-> c.terms, closed |-> c.closed]]
      /\ Book!Wrote(q, {a}) /\ UNCHANGED <<posted, transfer>>
  BY DEF Book!Put, Book!Due
<1>2. Book!RequestStands(c) BY DEF Book!IInv
<1>3. c.terms \in Terms /\ c.closed \in BOOLEAN
      /\ (~c.overtaken /\ Book!Locked(account[a].terms, c.terms) => ~Book!HasPostings(a))
  BY <1>1, <1>2 DEF Book!RequestStands
<1> HIDE DEF c
<1>4. /\ DOMAIN account' = DOMAIN account /\ account'[a].terms = c.terms
      /\ \A b \in DOMAIN account : b # a => account'[b] = account[b]
      /\ account' \in [DOMAIN account' -> [terms : Terms, closed : BOOLEAN]]
  BY <1>1, <1>3 DEF Book!IInv
<1>5. Book!Postings' = Book!Postings /\ \A b : Book!HasPostings(b)' <=> Book!HasPostings(b) BY <1>1, SamePostings
<1>6. Untouched({a}) BY <1>4, <1>5 DEF Untouched
<1>7. RequestsStand' /\ raced \subseteq raced' /\ (c.overtaken => a \in raced') BY <1>1, <1>6, Written DEF c
<1>8. \A b \in DOMAIN account : Book!HasPostings(b) /\ b \notin raced' =>
             b \in DOMAIN account' /\ account'[b].terms.currency = account[b].terms.currency
  BY <1>3, <1>4, <1>7 DEF Book!Locked
<1>9. IsFiniteSet(DOMAIN account') BY <1>4, FiniteIsFinite DEF Book!IInv
<1> HIDE DEF a
<1> QED BY <1>1, <1>4, <1>7, <1>8, <1>9, Kept

LEMMA DeleteInv == ASSUME Book!IInv, NEW q \in Requests, Book!Delete(q) PROVE Book!IInv'
<1> DEFINE a == asked[q].id
<1>1. /\ ~Book!HasPostings(a) /\ account' = [x \in DOMAIN account \ {a} |-> account[x]]
      /\ Book!Wrote(q, {a}) /\ UNCHANGED <<posted, transfer>>
  BY DEF Book!Delete
<1> HIDE DEF a
<1>2. DOMAIN account' \subseteq DOMAIN account /\ \A b \in DOMAIN account : b # a => b \in DOMAIN account'
      /\ account'[b] = account[b]
  BY <1>1
<1>3. IsFiniteSet(DOMAIN account') BY <1>2, FS_Subset, FiniteIsFinite DEF Book!IInv
<1>4. account' \in [DOMAIN account' -> [terms : Terms, closed : BOOLEAN]] BY <1>1 DEF Book!IInv
<1>5. Book!Postings' = Book!Postings /\ \A b : Book!HasPostings(b)' <=> Book!HasPostings(b) BY <1>1, SamePostings
<1>6. Untouched({a}) BY <1>2, <1>5 DEF Untouched
<1>7. RequestsStand' /\ raced \subseteq raced' BY <1>1, <1>6, Written
<1> QED BY <1>1, <1>2, <1>3, <1>4, <1>7, Kept

\* One account is touched, and keeps its terms.
LEMMA AtOnceStand ==
  ASSUME Book!IInv, NEW a, Book!AtOnce(a), Untouched({a})
  PROVE  RequestsStand' /\ raced' = raced
<1>1. RequestsStand BY DEF Book!IInv, RequestsStand
<1>2. DOMAIN asked' = Requests /\ raced' = raced BY DEF Book!AtOnce
<1>3. \A r \in Requests : \/ asked'[r] = Book!Idle
                          \/ asked[r].id \in {a} /\ asked'[r] = [asked[r] EXCEPT !.overtaken = TRUE]
                          \/ asked[r].id \notin {a} /\ asked'[r] = asked[r]
  BY DEF Book!AtOnce
<1> QED BY <1>1, <1>2, <1>3, Touched

LEMMA AtOnceInv ==
  ASSUME Book!IInv, NEW a, Book!AtOnce(a), UNCHANGED <<posted, transfer>>,
         account' = account \/ account' = [account EXCEPT ![a].closed = FALSE]
  PROVE  Book!IInv'
<1>1. a \in DOMAIN account BY DEF Book!AtOnce
<1>2. account \in [DOMAIN account -> [terms : Terms, closed : BOOLEAN]] BY DEF Book!IInv
<1>3. /\ DOMAIN account' = DOMAIN account /\ account' \in [DOMAIN account' -> [terms : Terms, closed : BOOLEAN]]
      /\ \A b \in DOMAIN account : account'[b].terms = account[b].terms
  BY <1>1, <1>2
<1>4. Book!Postings' = Book!Postings /\ \A b : Book!HasPostings(b)' <=> Book!HasPostings(b) BY SamePostings
<1>5. Untouched({a}) BY <1>3, <1>4 DEF Untouched
<1>6. RequestsStand' /\ raced' = raced BY <1>5, AtOnceStand
<1>7. IsFiniteSet(DOMAIN account') BY <1>3, FiniteIsFinite DEF Book!IInv
<1> QED BY <1>3, <1>6, <1>7, Kept

LEMMA PostInv == ASSUME Book!IInv, NEW a, NEW terms \in Terms, Book!Post(a, terms) PROVE Book!IInv'
<1>1. /\ a \notin DOMAIN account
      /\ account' = [x \in DOMAIN account \cup {a} |->
                       IF x = a THEN [terms |-> terms, closed |-> FALSE] ELSE account[x]]
      /\ UNCHANGED <<posted, transfer, asked, raced>>
  BY DEF Book!Post
<1>2. DOMAIN account' = DOMAIN account \cup {a} /\ \A b \in DOMAIN account : account'[b] = account[b] BY <1>1
<1>3. account' \in [DOMAIN account' -> [terms : Terms, closed : BOOLEAN]] BY <1>1 DEF Book!IInv
<1>4. IsFiniteSet(DOMAIN account') BY <1>2, FS_AddElement, FiniteIsFinite DEF Book!IInv
<1>5. Book!Postings' = Book!Postings /\ \A b : Book!HasPostings(b)' <=> Book!HasPostings(b) BY <1>1, SamePostings
<1>6. Untouched({}) BY <1>2, <1>5 DEF Untouched
<1>7. RequestsStand BY DEF Book!IInv, RequestsStand
<1>8. RequestsStand' BY <1>1, <1>6, <1>7, Touched DEF RequestsStand
<1> QED BY <1>1, <1>2, <1>3, <1>4, <1>8, Kept

Side(i, side, leg) == [of |-> <<i, side>>, leg |-> leg]
Others(i) == {p \in Book!Postings : p.of # <<i, "from">> /\ p.of # <<i, "to">>}

\* A transfer recorded again is the two postings it is now, beside those of the others.
LEMMA Replaced ==
  ASSUME posted' = posted, NEW i, NEW legs, DOMAIN transfer' = DOMAIN transfer \cup {i}, transfer'[i] = legs,
         \A j \in DOMAIN transfer : j # i => transfer'[j] = transfer[j]
  PROVE  Book!Postings' = Others(i) \cup {Side(i, "from", legs.from), Side(i, "to", legs.to)}
<1> DEFINE imports == {[of |-> <<"import", "once">>,
                        leg |-> [account |-> x[1], currency |-> x[2], amount |-> 1, day |-> 1]] : x \in posted}
           sides(f) == {Side(j, side, f[j][side]) : j \in DOMAIN f, side \in {"from", "to"}}
<1>1. Book!Postings = imports \cup sides(transfer) BY DEF Book!Postings, Side
<1>2. Book!Postings' = imports \cup sides(transfer') BY DEF Book!Postings, Side
<1>3. \A p \in imports : p.of # <<i, "from">> /\ p.of # <<i, "to">> OBVIOUS
<1>4. \A j, side, leg : Side(j, side, leg).of = <<j, side>> BY DEF Side
<1> HIDE DEF imports
<1>5. ASSUME NEW p \in Book!Postings' PROVE p \in Others(i) \cup {Side(i, "from", legs.from), Side(i, "to", legs.to)}
  <2>1. CASE p \in imports BY <1>1, <1>3, <2>1 DEF Others
  <2>2. CASE p \in sides(transfer')
    <3>1. PICK j \in DOMAIN transfer', side \in {"from", "to"} : p = Side(j, side, transfer'[j][side]) BY <2>2
    <3>2. CASE j = i BY <3>1, <3>2
    <3>3. CASE j # i
      <4>1. j \in DOMAIN transfer /\ p = Side(j, side, transfer[j][side]) BY <3>1, <3>3
      <4>2. p \in Book!Postings BY <1>1, <4>1
      <4>3. p.of = <<j, side>> BY <1>4, <4>1
      <4> QED BY <3>3, <4>2, <4>3 DEF Others
    <3> QED BY <3>2, <3>3
  <2> QED BY <1>2, <2>1, <2>2
<1>6. ASSUME NEW p \in Others(i) PROVE p \in Book!Postings'
  <2>1. CASE p \in imports BY <1>2, <2>1
  <2>2. CASE p \in sides(transfer)
    <3>1. PICK j \in DOMAIN transfer, side \in {"from", "to"} : p = Side(j, side, transfer[j][side]) BY <2>2
    <3>2. j # i BY <1>4, <3>1 DEF Others
    <3>3. j \in DOMAIN transfer' /\ p = Side(j, side, transfer'[j][side]) BY <3>1, <3>2
    <3> QED BY <1>2, <3>3
  <2> QED BY <1>1, <2>1, <2>2 DEF Others
<1>7. ASSUME NEW side \in {"from", "to"} PROVE Side(i, side, legs[side]) \in Book!Postings'
  <2>1. i \in DOMAIN transfer' /\ transfer'[i][side] = legs[side] OBVIOUS
  <2>2. Side(i, side, transfer'[i][side]) \in sides(transfer') BY <2>1
  <2> QED BY <1>2, <2>1, <2>2
<1>8. Side(i, "from", legs.from) \in Book!Postings' /\ Side(i, "to", legs.to) \in Book!Postings' BY <1>7
<1> QED BY <1>5, <1>6, <1>8

\* A transfer there is is the two postings it says, beside those of the others.
LEMMA Parted ==
  ASSUME NEW i
  PROVE  Book!Postings = Others(i) \cup IF i \in DOMAIN transfer
                                   THEN {Side(i, "from", transfer[i].from), Side(i, "to", transfer[i].to)} ELSE {}
<1> DEFINE imports == {[of |-> <<"import", "once">>,
                        leg |-> [account |-> x[1], currency |-> x[2], amount |-> 1, day |-> 1]] : x \in posted}
           sides(f) == {Side(j, side, f[j][side]) : j \in DOMAIN f, side \in {"from", "to"}}
<1>1. Book!Postings = imports \cup sides(transfer) BY DEF Book!Postings, Side
<1>2. \A p \in imports : p.of # <<i, "from">> /\ p.of # <<i, "to">> OBVIOUS
<1>3. \A j, side, leg : Side(j, side, leg).of = <<j, side>> BY DEF Side
<1> HIDE DEF imports
<1>4. ASSUME NEW p \in Book!Postings, p \notin Others(i)
      PROVE  i \in DOMAIN transfer /\ p \in {Side(i, "from", transfer[i].from), Side(i, "to", transfer[i].to)}
  <2>1. p \in sides(transfer) BY <1>1, <1>2, <1>4 DEF Others
  <2>2. PICK j \in DOMAIN transfer, side \in {"from", "to"} : p = Side(j, side, transfer[j][side]) BY <2>1
  <2>3. j = i BY <1>3, <1>4, <2>2 DEF Others
  <2> QED BY <2>2, <2>3
<1>5. ASSUME i \in DOMAIN transfer, NEW side \in {"from", "to"}
      PROVE  Side(i, side, transfer[i][side]) \in Book!Postings
  <2>1. Side(i, side, transfer[i][side]) \in sides(transfer) BY <1>5
  <2> QED BY <1>1, <2>1
<1>6. i \in DOMAIN transfer => Side(i, "from", transfer[i].from) \in Book!Postings
                              /\ Side(i, "to", transfer[i].to) \in Book!Postings
  BY <1>5
<1>7. Others(i) \subseteq Book!Postings BY DEF Others
<1> QED BY <1>4, <1>6, <1>7

LEMMA ImportInv == ASSUME Book!IInv, NEW q \in Requests, Book!Import(q) PROVE Book!IInv'
<1> PICK c : c = asked[q] OBVIOUS
<1> PICK a : a = c.id OBVIOUS
<1> PICK x : x = <<a, c.terms.currency>> OBVIOUS
<1> DEFINE fromImport(y) == [of |-> <<"import", "once">>,
                             leg |-> [account |-> y[1], currency |-> y[2], amount |-> 1, day |-> 1]]
           p == fromImport(x)
<1>1. /\ c.at = "looked" /\ c.op = "import" /\ a \in DOMAIN account /\ posted' = posted \cup {x}
      /\ Book!Wrote(q, {a}) /\ UNCHANGED <<account, transfer>>
  BY DEF Book!Import, Book!Due
<1>2. Book!RequestStands(c) BY DEF Book!IInv
<1>3. ~c.overtaken => c.terms = account[a].terms BY <1>1, <1>2 DEF Book!RequestStands
<1>4. Book!Postings' = Book!Postings \cup {p}
  <2> DEFINE sides == {[of |-> <<i, side>>, leg |-> transfer[i][side]] :
                          i \in DOMAIN transfer, side \in {"from", "to"}}
  <2>1. Book!Postings = {fromImport(y) : y \in posted} \cup sides BY DEF Book!Postings
  <2>2. Book!Postings' = {fromImport(y) : y \in posted'} \cup sides BY <1>1 DEF Book!Postings
  <2> HIDE DEF sides, fromImport
  <2> QED BY <1>1, <2>1, <2>2
<1>5. p.leg.account = a OBVIOUS
<1> HIDE DEF p
<1>6. \A b : b # a => (Book!HasPostings(b)' => Book!HasPostings(b)) BY <1>4, <1>5 DEF Book!HasPostings
<1>7. Untouched({a}) BY <1>1, <1>6 DEF Untouched
<1>8. RequestsStand' /\ raced \subseteq raced' /\ (c.overtaken => a \in raced') BY <1>1, <1>7, Written
<1>9. IsFiniteSet(Book!Postings') BY <1>4, FS_AddElement, FiniteIsFinite DEF Book!IInv
<1>10. \A b, currency : Book!Stands(b, currency) => Book!Stands(b, currency)' BY <1>1, <1>8 DEF Book!Stands
<1>11. x[1] = a /\ x[2] = c.terms.currency OBVIOUS
<1>12. Book!Stands(x[1], x[2])' BY <1>1, <1>3, <1>8, <1>11 DEF Book!Stands
<1>13. \A y \in posted' : Book!Stands(y[1], y[2])' BY <1>1, <1>10, <1>12 DEF Book!IInv
<1>14. ASSUME NEW i \in DOMAIN transfer
       PROVE  /\ (Book!Stands(transfer[i].from.account, transfer[i].from.currency))'
              /\ (Book!Stands(transfer[i].to.account, transfer[i].to.currency))'
              /\ \E mv \in Moves : (Book!Tells(transfer[i], mv))'
  BY <1>1, <1>8 DEF Book!IInv, Book!Stands, Book!Tells
<1> QED BY <1>1, <1>8, <1>9, <1>13, <1>14, FiniteIsFinite DEF Book!IInv, RequestsStand

LEMMA Moved ==
  ASSUME NEW mv, transfer' = Book!Recorded({mv})
  PROVE  /\ DOMAIN transfer' = DOMAIN transfer \cup {mv.id} /\ transfer'[mv.id] = Book!Legs(mv)
         /\ \A j \in DOMAIN transfer : j # mv.id => transfer'[j] = transfer[j]
<1>1. Book!Changed({mv}) = {mv.id} BY DEF Book!Changed
<1>2. Book!Of(mv.id, {mv}) = mv BY DEF Book!Of
<1> QED BY <1>1, <1>2 DEF Book!Recorded

\* What a close records is where the user said the money went.
LEMMA CloseInv == ASSUME Book!IInv, NEW q \in Requests, Book!Close(q) PROVE Book!IInv'
<1> PICK c : c = asked[q] OBVIOUS
<1> PICK a, moves, as : a = c.id /\ moves = c.moves /\ as = {a} \cup {mv.to : mv \in moves} OBVIOUS
<1>1. /\ c.at = "looked" /\ c.op = "close" /\ a \in DOMAIN account /\ \A mv \in moves : mv.to \in DOMAIN account
      /\ account' = [account EXCEPT ![a].closed = TRUE] /\ transfer' = Book!Recorded(moves) /\ posted' = posted
      /\ Book!Wrote(q, as)
  BY DEF Book!Close, Book!Due
<1>2. Book!RequestStands(c) BY DEF Book!IInv
<1>3. \A mv \in moves : mv.from = a /\ moves = {mv} /\ mv \in Moves BY <1>1, <1>2 DEF Book!RequestStands
<1>4. /\ DOMAIN account' = DOMAIN account /\ account' \in [DOMAIN account' -> [terms : Terms, closed : BOOLEAN]]
      /\ \A b \in DOMAIN account : account'[b].terms = account[b].terms
  BY <1>1 DEF Book!IInv
<1>5. IsFiniteSet(DOMAIN account') BY <1>4, FiniteIsFinite DEF Book!IInv
<1>6. CASE moves = {}
  <2>1. DOMAIN transfer' = DOMAIN transfer /\ \A i \in DOMAIN transfer : transfer'[i] = transfer[i]
    BY <1>1, <1>6 DEF Book!Recorded, Book!Changed
  <2>2. Book!Postings' = Book!Postings /\ \A b : Book!HasPostings(b)' <=> Book!HasPostings(b)
    BY <1>1, <2>1, SamePostings
  <2>3. Untouched(as) BY <1>4, <2>2 DEF Untouched
  <2>4. RequestsStand' /\ raced \subseteq raced' BY <1>1, <2>3, Written
  <2> QED BY <1>1, <1>4, <1>5, <2>1, <2>4, Kept
<1>7. CASE moves # {}
  <2> PICK mv \in moves : TRUE BY <1>7
  <2>1. mv.from = a /\ moves = {mv} /\ mv \in Moves /\ mv.to \in DOMAIN account BY <1>1, <1>3
  <2> PICK legs : legs = Book!Legs(mv) OBVIOUS
  <2>2. /\ DOMAIN transfer' = DOMAIN transfer \cup {mv.id} /\ transfer'[mv.id] = legs
        /\ \A j \in DOMAIN transfer : j # mv.id => transfer'[j] = transfer[j]
    BY <1>1, <2>1, Moved
  <2>3. /\ legs.from.account = a /\ legs.from.currency = account[a].terms.currency
        /\ legs.to.account = mv.to /\ legs.to.currency = account[mv.to].terms.currency
        /\ Book!Tells(legs, mv)
    BY <2>1 DEF Book!Legs, Book!Leg, Book!Tells
  <2> DEFINE p1 == Side(mv.id, "from", legs.from)
             p2 == Side(mv.id, "to", legs.to)
  <2>4. Book!Postings' = Others(mv.id) \cup {p1, p2} BY <1>1, <2>2, Replaced
  <2>5. p1.leg = legs.from /\ p2.leg = legs.to BY DEF Side
  <2>6. Others(mv.id) \subseteq Book!Postings BY DEF Others
  <2> HIDE DEF p1, p2
  <2>7. IsFiniteSet(Book!Postings')
    <3>1. IsFiniteSet(Others(mv.id)) BY <2>6, FS_Subset, FiniteIsFinite DEF Book!IInv
    <3>2. Book!Postings' = (Others(mv.id) \cup {p1}) \cup {p2} BY <2>4
    <3> QED BY <3>1, <3>2, FS_AddElement
  <2>8. as = {a, mv.to} BY <2>1
  <2>9. \A b : b \notin as => (Book!HasPostings(b)' => Book!HasPostings(b))
    BY <2>3, <2>4, <2>5, <2>6, <2>8 DEF Book!HasPostings
  <2>10. Untouched(as) BY <1>4, <2>9 DEF Untouched
  <2>11. RequestsStand' /\ raced \subseteq raced' BY <1>1, <2>10, Written
  <2>12. \A b, currency : Book!Stands(b, currency) => Book!Stands(b, currency)' BY <1>4, <2>11 DEF Book!Stands
  <2>13. \A y \in posted' : Book!Stands(y[1], y[2])' BY <1>1, <2>12 DEF Book!IInv
  <2>14. ASSUME NEW i \in DOMAIN transfer'
         PROVE  /\ (Book!Stands(transfer[i].from.account, transfer[i].from.currency))'
                /\ (Book!Stands(transfer[i].to.account, transfer[i].to.currency))'
                /\ \E m \in Moves : (Book!Tells(transfer[i], m))'
    <3>1. CASE i = mv.id
      <4>1. transfer'[i] = legs BY <2>2, <3>1
      <4>2. (Book!Tells(transfer[i], mv))' BY <2>3, <4>1 DEF Book!Tells
      <4>3. Book!Stands(legs.from.account, legs.from.currency)' /\ Book!Stands(legs.to.account, legs.to.currency)'
        BY <1>1, <1>4, <2>1, <2>3 DEF Book!Stands
      <4>4. (Book!Stands(transfer[i].from.account, transfer[i].from.currency))'
        BY <4>1, <4>3 DEF Book!Stands
      <4>5. (Book!Stands(transfer[i].to.account, transfer[i].to.currency))'
        BY <4>1, <4>3 DEF Book!Stands
      <4> QED BY <2>1, <4>2, <4>4, <4>5
    <3>2. CASE i # mv.id
      <4>1. i \in DOMAIN transfer /\ transfer'[i] = transfer[i] BY <2>2, <3>2
      <4> PICK old : old = transfer[i] OBVIOUS
      <4>2. PICK m \in Moves : Book!Tells(old, m) BY <4>1 DEF Book!IInv
      <4>3. (Book!Tells(transfer[i], m))' BY <4>1, <4>2 DEF Book!Tells
      <4>4. Book!Stands(old.from.account, old.from.currency)' /\ Book!Stands(old.to.account, old.to.currency)'
        BY <2>12, <4>1 DEF Book!IInv
      <4>5. (Book!Stands(transfer[i].from.account, transfer[i].from.currency))' BY <4>1, <4>4 DEF Book!Stands
      <4>6. (Book!Stands(transfer[i].to.account, transfer[i].to.currency))' BY <4>1, <4>4 DEF Book!Stands
      <4> QED BY <4>2, <4>3, <4>5, <4>6
    <3> QED BY <3>1, <3>2
  <2> QED BY <1>4, <1>5, <2>7, <2>11, <2>13, <2>14, FiniteIsFinite DEF Book!IInv, RequestsStand
<1> QED BY <1>6, <1>7

LEMMA AccountsStepInv == Book!IInv /\ [Book!Next]_(Book!vars) => Book!IInv'
<1> SUFFICES ASSUME Book!IInv, [Book!Next]_(Book!vars) PROVE Book!IInv' OBVIOUS
<1>1. ASSUME NEW q \in Requests, NEW a, NEW t \in Terms, Book!LookPut(q, a, t) PROVE Book!IInv'
  <2>1. Book!Look(q, "put", a, t, {}) /\ (Book!Locked(account[a].terms, t) => ~Book!HasPostings(a))
    BY <1>1 DEF Book!LookPut
  <2> QED BY <2>1, LooksStand
<1>2. ASSUME NEW q \in Requests, NEW a, Book!LookDelete(q, a) PROVE Book!IInv'
  <2>1. Book!Look(q, "delete", a, Book!Idle.terms, {}) BY <1>2 DEF Book!LookDelete
  <2> QED BY <2>1, LooksStand
<1>3. ASSUME NEW q \in Requests, NEW a, Book!LookImport(q, a) PROVE Book!IInv'
  <2>1. Book!Look(q, "import", a, account[a].terms, {}) BY <1>3 DEF Book!LookImport
  <2> QED BY <2>1, LooksStand
<1>4. ASSUME NEW q \in Requests, NEW a, NEW moves \in {{}} \cup {{mv} : mv \in Moves}, Book!LookClose(q, a, moves)
      PROVE  Book!IInv'
  <2>1. Book!Look(q, "close", a, Book!Idle.terms, moves) /\ \A mv \in moves : mv.from = a BY <1>4 DEF Book!LookClose
  <2>2. \A mv \in moves : moves = {mv} /\ mv \in Moves OBVIOUS
  <2> QED BY <2>1, <2>2, LooksStand
<1>5. ASSUME NEW q \in Requests, Book!Fail(q) PROVE Book!IInv'
  <2>1. UNCHANGED <<Book!rowVars, raced>> /\ asked' = [asked EXCEPT ![q] = Book!Idle] BY <1>5 DEF Book!Fail
  <2> QED BY <2>1, NobodyAsks, Looked
<1>6. ASSUME NEW a, Book!Reopen(a) \/ Book!DeleteOpening(a) \/ (\E day \in Days : Book!PutOpening(a, day))
      PROVE  Book!IInv'
  <2>1. /\ Book!AtOnce(a) /\ UNCHANGED <<posted, transfer>>
        /\ account' = account \/ account' = [account EXCEPT ![a].closed = FALSE]
    BY <1>6 DEF Book!Reopen, Book!DeleteOpening, Book!PutOpening
  <2> QED BY <2>1, AtOnceInv
<1>7. CASE UNCHANGED Book!vars
  <2>1. /\ DOMAIN account' = DOMAIN account /\ Book!Postings' = Book!Postings
        /\ account' = account /\ posted' = posted
        /\ transfer' = transfer /\ raced' = raced /\ asked' = asked
    BY <1>7 DEF Book!vars, Book!rowVars, Book!Postings
  <2> QED BY <2>1 DEF Book!IInv, Book!Stands, Book!Tells, Book!RequestStands, Book!IsARequest, Book!HasPostings
<1> QED BY <1>1, <1>2, <1>3, <1>4, <1>5, <1>6, <1>7, PutInv, DeleteInv, CloseInv, ImportInv, PostInv DEF Book!Next

\* What the invariant says of postings.
LEMMA AccountsHaveTheirCurrency == Book!IInv => Book!CurrenciesAgree
<1> SUFFICES ASSUME Book!IInv, NEW p \in Book!Postings, p.leg.account \notin raced
             PROVE  p.leg.currency = account[p.leg.account].terms.currency
  BY DEF Book!CurrenciesAgree
<1> DEFINE fromImport(y) == [of |-> <<"import", "once">>,
                             leg |-> [account |-> y[1], currency |-> y[2], amount |-> 1, day |-> 1]]
<1>1. CASE \E y \in posted : p = fromImport(y) BY <1>1 DEF Book!IInv, Book!Stands
<1>2. CASE \E i \in DOMAIN transfer, side \in {"from", "to"} : p.leg = transfer[i][side]
  BY <1>2 DEF Book!IInv, Book!Stands
<1> QED BY <1>1, <1>2 DEF Book!Postings

\* What the postings say is counted in whole numbers.
MovesAreCounted == Days \subseteq Int /\ \A mv \in Moves : mv.gave \in Int /\ mv.got \in Int /\ mv.day \in Int

Whole(ps) == \A x \in ps : x.leg.amount \in Int
Counted(f, S) == \A x \in S : f[x] \in Int
OnAccount(ps, a, day) == {p \in ps : p.leg.account = a /\ p.leg.day <= day}
Amounts(ps) == [p \in ps |-> p.leg.amount]
Extra(a, day) == IF a \in DOMAIN opening /\ opening[a] <= day THEN 1 ELSE 0
OwnIn(currency) == {a \in DOMAIN account : account[a].terms.currency = currency /\ ~account[a].terms.linked}

\* The net worth of accounts that hold postings ps.
Worth(ps, own, extra, day) == Total([a \in own |-> Total(Amounts(ps), OnAccount(ps, a, day)) + extra[a]], own)

LEMMA BalanceIsTotal ==
  ASSUME IsFiniteSet(Book!Postings), NEW a, NEW day
  PROVE  Book!Balance(a, day) = Total(Amounts(Book!Postings), OnAccount(Book!Postings, a, day))
<1> DEFINE S == OnAccount(Book!Postings, a, day)
           f == Amounts(Book!Postings)
           chosen == CHOOSE sum : sum = [s \in SUBSET S |-> IF s = {} THEN 0
                                                            ELSE Chosen(s).leg.amount + sum[s \ {Chosen(s)}]]
           adds(sum) == sum = [s \in SUBSET S |-> IF s = {} THEN 0 ELSE Chosen(s).leg.amount + sum[s \ {Chosen(s)}]]
<1>1. Book!Balance(a, day) = chosen[S] BY DEF Book!Balance, Book!MapThenSumSet, Book!MapThenFoldSet, Chosen, OnAccount
<1>2. S \subseteq Book!Postings BY DEF OnAccount
<1>3. IsFiniteSet(S) BY <1>2, FS_Subset
<1>4. \A s \in SUBSET S : s # {} => Chosen(s) \in s BY DEF Chosen
<1>5. \A s \in SUBSET S : s # {} => Chosen(s).leg.amount = f[Chosen(s)] BY <1>2, <1>4 DEF Amounts
<1> HIDE DEF S, f
<1>6. \A sum : adds(sum) <=> IsSum(sum, f, S) BY <1>5 DEF IsSum
<1>7. \E sum : IsSum(sum, f, S) BY <1>3, SumExists
<1>8. \E sum : adds(sum) BY <1>6, <1>7
<1>9. adds(chosen) BY <1>8
<1> HIDE DEF chosen
<1>10. IsSum(chosen, f, S) BY <1>6, <1>9
<1> DEFINE own == CHOOSE sum : IsSum(sum, f, S)
<1>11. IsSum(own, f, S) BY <1>3, SumExists
<1>12. Total(f, S) = own[S] BY DEF Total
<1>13. Alike(f, f, S) /\ S \in SUBSET S BY DEF Alike
<1> HIDE DEF own
<1>14. chosen[S] = own[S] BY <1>3, <1>10, <1>11, <1>13, SumsAgree
<1> QED BY <1>1, <1>12, <1>14 DEF S, f

NetWorthAdds ==
  \A currency, day :
     Book!NetWorth(currency, day)
        = Worth(Book!Postings, OwnIn(currency), [a \in OwnIn(currency) |-> Extra(a, day)], day)

LEMMA NetWorthIsTotal == Book!IInv => NetWorthAdds
<1> SUFFICES ASSUME Book!IInv, NEW currency, NEW day
             PROVE  Book!NetWorth(currency, day)
                      = Worth(Book!Postings, OwnIn(currency), [a \in OwnIn(currency) |-> Extra(a, day)], day)
  BY DEF NetWorthAdds
<1> DEFINE S == OwnIn(currency)
           value(a) == Book!Balance(a, day) + Extra(a, day)
           f == [a \in S |-> value(a)]
           chosen == CHOOSE sum : sum = [s \in SUBSET S |-> IF s = {} THEN 0
                                                            ELSE value(Chosen(s)) + sum[s \ {Chosen(s)}]]
           adds(sum) == sum = [s \in SUBSET S |-> IF s = {} THEN 0 ELSE value(Chosen(s)) + sum[s \ {Chosen(s)}]]
<1>1. Book!NetWorth(currency, day) = chosen[S]
  BY DEF Book!NetWorth, Book!MapThenSumSet, Book!MapThenFoldSet, Chosen, OwnIn, Extra
<1>2. IsFiniteSet(S)
  <2>1. S \subseteq DOMAIN account BY DEF OwnIn
  <2> QED BY <2>1, FS_Subset, FiniteIsFinite DEF Book!IInv
<1>3. f = [a \in S |-> Total(Amounts(Book!Postings), OnAccount(Book!Postings, a, day))
                        + [b \in S |-> Extra(b, day)][a]]
  BY BalanceIsTotal, FiniteIsFinite DEF Book!IInv
<1>4. \A s \in SUBSET S : s # {} => Chosen(s) \in s BY DEF Chosen
<1>5. \A s \in SUBSET S : s # {} => value(Chosen(s)) = f[Chosen(s)] BY <1>4
<1> HIDE DEF S, f, value
<1>6. \A sum : adds(sum) <=> IsSum(sum, f, S) BY <1>5 DEF IsSum
<1>7. \E sum : IsSum(sum, f, S) BY <1>2, SumExists
<1>8. \E sum : adds(sum) BY <1>6, <1>7
<1>9. adds(chosen) BY <1>8
<1> HIDE DEF chosen
<1>10. IsSum(chosen, f, S) BY <1>6, <1>9
<1> DEFINE own == CHOOSE sum : IsSum(sum, f, S)
<1>11. IsSum(own, f, S) BY <1>2, SumExists
<1>12. Total(f, S) = own[S] BY DEF Total
<1>13. Alike(f, f, S) /\ S \in SUBSET S BY DEF Alike
<1> HIDE DEF own
<1>14. chosen[S] = own[S] BY <1>2, <1>10, <1>11, <1>13, SumsAgree
<1>15. Book!NetWorth(currency, day) = Total(f, S) BY <1>1, <1>12, <1>14
<1> QED BY <1>3, <1>15 DEF Worth, S

\* What a posting adds to the net worth of these accounts.
Adds(p, own, day) == IF p.leg.account \in own /\ p.leg.day <= day THEN p.leg.amount ELSE 0

\* A posting more adds its amount, if it is on an account of one's own by that day.
LEMMA OnePostingMore ==
  ASSUME NEW ps, IsFiniteSet(ps), NEW p, p \notin ps, Whole(ps \cup {p}),
         NEW own, IsFiniteSet(own), NEW extra, Counted(extra, own), NEW day
  PROVE  /\ Worth(ps, own, extra, day) \in Int
         /\ Worth(ps \cup {p}, own, extra, day)
              = Worth(ps, own, extra, day) + Adds(p, own, day)
<1> DEFINE more == ps \cup {p}
           f == Amounts(ps)
           h == Amounts(more)
           was(a) == Total(f, OnAccount(ps, a, day))
           comes(a) == Total(h, OnAccount(more, a, day))
           g == [a \in own |-> was(a) + extra[a]]
           k == [a \in own |-> comes(a) + extra[a]]
           adds == p.leg.account \in own /\ p.leg.day <= day
<1>1. Worth(ps, own, extra, day) = Total(g, own) /\ Worth(more, own, extra, day) = Total(k, own) BY DEF Worth
<1>2. IsFiniteSet(more) BY FS_AddElement
<1>3. ASSUME NEW a
      PROVE  /\ OnAccount(ps, a, day) \subseteq ps /\ OnAccount(more, a, day) \subseteq more
             /\ IsFiniteSet(OnAccount(ps, a, day)) /\ IsFiniteSet(OnAccount(more, a, day))
  <2>1. OnAccount(ps, a, day) \subseteq ps /\ OnAccount(more, a, day) \subseteq more BY DEF OnAccount
  <2> HIDE DEF more
  <2> QED BY <1>2, <2>1, FS_Subset
<1>4. /\ \A x \in ps : f[x] = x.leg.amount /\ h[x] = x.leg.amount /\ f[x] \in Int
      /\ h[p] = p.leg.amount /\ h[p] \in Int
  BY DEF Amounts, Whole
<1>5. ASSUME NEW a PROVE was(a) \in Int /\ comes(a) \in Int
  <2>1. (\A x \in OnAccount(ps, a, day) : f[x] \in Int) /\ (\A x \in OnAccount(more, a, day) : h[x] \in Int)
    BY <1>3, <1>4
  <2> HIDE DEF f, h
  <2> QED BY <1>3, <2>1, TotalTakes
<1>6. ASSUME NEW a, OnAccount(more, a, day) = OnAccount(ps, a, day) PROVE comes(a) = was(a)
  <2>1. Alike(f, h, OnAccount(ps, a, day)) BY <1>3, <1>4 DEF Alike
  <2> HIDE DEF f, h
  <2> QED BY <1>3, <1>6, <2>1, TotalsAgree
<1>7. \A a : ~(a = p.leg.account /\ p.leg.day <= day) => OnAccount(more, a, day) = OnAccount(ps, a, day)
  BY DEF OnAccount
<1>8. adds => comes(p.leg.account) = p.leg.amount + was(p.leg.account)
  <2> SUFFICES ASSUME adds PROVE comes(p.leg.account) = p.leg.amount + was(p.leg.account) OBVIOUS
  <2> DEFINE a == p.leg.account
             T == OnAccount(more, a, day)
  <2>1. p \in T /\ T \ {p} = OnAccount(ps, a, day) BY DEF OnAccount
  <2>2. \A x \in T : h[x] \in Int BY <1>3, <1>4
  <2>3. IsFiniteSet(T) BY <1>3
  <2>4. Alike(f, h, OnAccount(ps, a, day)) BY <1>3, <1>4 DEF Alike
  <2> HIDE DEF f, h, T
  <2>5. Total(h, T) = h[p] + Total(h, T \ {p}) BY <2>1, <2>2, <2>3, TotalTakes
  <2>6. Total(h, OnAccount(ps, a, day)) = Total(f, OnAccount(ps, a, day)) BY <1>3, <2>4, TotalsAgree
  <2> QED BY <1>4, <2>1, <2>5, <2>6 DEF T
<1> HIDE DEF f, h, was, comes, more
<1>9. \A a \in own : g[a] \in Int /\ k[a] \in Int BY <1>5 DEF Counted
<1>10. Total(g, own) \in Int
  <2> HIDE DEF g
  <2> QED BY <1>9, TotalTakes
<1>11. CASE ~adds
  <2>1. Alike(g, k, own) BY <1>6, <1>7, <1>11 DEF Alike
  <2> HIDE DEF g, k
  <2>2. Total(g, own) = Total(k, own) BY <2>1, TotalsAgree
  <2> QED BY <1>1, <1>10, <1>11, <2>2 DEF more, Adds
<1>12. CASE adds
  <2> DEFINE a == p.leg.account
  <2>1. a \in own /\ k[a] = p.leg.amount + g[a] /\ g[a] \in Int
    BY <1>4, <1>5, <1>8, <1>12 DEF Counted
  <2>2. Alike(g, k, own \ {a}) BY <1>6, <1>7 DEF Alike
  <2>3. IsFiniteSet(own \ {a}) BY FS_Subset
  <2> HIDE DEF g, k, a
  <2>4. Total(g, own) = g[a] + Total(g, own \ {a}) /\ Total(g, own \ {a}) \in Int BY <1>9, <2>1, TotalTakes
  <2>5. Total(k, own) = k[a] + Total(k, own \ {a}) BY <1>9, <2>1, TotalTakes
  <2>6. Total(g, own \ {a}) = Total(k, own \ {a}) BY <2>2, <2>3, TotalsAgree
  <2>7. p.leg.amount \in Int BY <1>4
  <2>8. Total(k, own) = Total(g, own) + p.leg.amount BY <2>1, <2>4, <2>5, <2>6, <2>7
  <2> QED BY <1>1, <1>10, <1>12, <2>8 DEF more, Adds
<1> QED BY <1>1, <1>10, <1>11, <1>12

\* What leaves one account and comes to another of the kind leaves the net worth alone.
Opposite(p, r, own) ==
    /\ p.leg.amount \in Int /\ r.leg.amount = -p.leg.amount /\ r.leg.day = p.leg.day
    /\ p.leg.account \in own <=> r.leg.account \in own

LEMMA TwoSidesCancel ==
  ASSUME NEW ps, IsFiniteSet(ps), NEW p, NEW r, p \notin ps, r \notin ps, p # r, Whole(ps),
         NEW own, IsFiniteSet(own), NEW extra, Counted(extra, own), NEW day, Opposite(p, r, own)
  PROVE  Worth(ps \cup {p, r}, own, extra, day) = Worth(ps, own, extra, day)
<1> PICK more : more = ps \cup {p} OBVIOUS
<1>1. IsFiniteSet(more) /\ r \notin more BY FS_AddElement
<1>2. Whole(ps \cup {p}) BY DEF Whole, Opposite
<1>3. Whole(more \cup {r})
  <2>1. r.leg.amount \in Int BY DEF Opposite
  <2> QED BY <1>2, <2>1 DEF Whole
<1>4. /\ Worth(ps, own, extra, day) \in Int
      /\ Worth(more, own, extra, day) = Worth(ps, own, extra, day) + Adds(p, own, day)
  BY <1>2, OnePostingMore
<1>5. Worth(more \cup {r}, own, extra, day) = Worth(more, own, extra, day) + Adds(r, own, day)
  BY <1>1, <1>3, OnePostingMore
<1>6. more \cup {r} = ps \cup {p, r} OBVIOUS
<1>7. Adds(p, own, day) \in Int /\ Adds(r, own, day) = -Adds(p, own, day) BY DEF Adds, Opposite
<1> PICK w, v, u, x, y : /\ w = Worth(ps, own, extra, day) /\ v = Worth(more, own, extra, day)
                        /\ u = Worth(more \cup {r}, own, extra, day)
                        /\ x = Adds(p, own, day) /\ y = Adds(r, own, day) OBVIOUS
<1>8. u = v + y /\ v = w + x /\ w \in Int /\ x \in Int /\ y = -x BY <1>4, <1>5, <1>7
<1>9. u = w BY <1>8
<1> QED BY <1>6, <1>9

\* The accounts a transfer names count both or neither.
LEMMA PlainSides ==
  ASSUME NEW from, NEW to, NEW cf, NEW ct, Book!Stands(from, cf), Book!Stands(to, ct), cf = ct,
         from \notin raced, to \notin raced,
         ~account[from].terms.linked, ~account[to].terms.linked, NEW currency
  PROVE  from \in OwnIn(currency) <=> to \in OwnIn(currency)
BY DEF Book!Stands, OwnIn

LEMMA AmountsAreCounted ==
  ASSUME Book!IInv, MovesAreCounted PROVE Whole(Book!Postings)
<1> DEFINE fromImport(y) == [of |-> <<"import", "once">>,
                             leg |-> [account |-> y[1], currency |-> y[2], amount |-> 1, day |-> 1]]
<1> SUFFICES ASSUME NEW p \in Book!Postings PROVE p.leg.amount \in Int BY DEF Whole
<1>1. CASE \E y \in posted : p = fromImport(y) BY <1>1
<1>2. CASE \E i \in DOMAIN transfer, side \in {"from", "to"} : p.leg = transfer[i][side]
  <2> PICK i \in DOMAIN transfer, side \in {"from", "to"} : p.leg = transfer[i][side] BY <1>2
  <2>1. PICK mv \in Moves : Book!Tells(transfer[i], mv) BY DEF Book!IInv
  <2>2. transfer[i].from.amount \in Int /\ transfer[i].to.amount \in Int BY <2>1 DEF Book!Tells, MovesAreCounted
  <2> QED BY <2>2
<1> QED BY <1>1, <1>2 DEF Book!Postings

LEMMA MoneyStays == MovesAreCounted /\ Book!IInv /\ Book!IInv' /\ [Book!Next]_(Book!vars) => Book!TransfersMakeNoMoney
<1> SUFFICES ASSUME MovesAreCounted, Book!IInv, Book!IInv', [Book!Next]_(Book!vars),
                    \A mv \in Moves : mv.gave = mv.got,
                    Book!PlainTransfers, Book!PlainTransfers', transfer' # transfer, NEW currency, NEW day
             PROVE  Book!NetWorth(currency, day)' = Book!NetWorth(currency, day)
  BY DEF Book!TransfersMakeNoMoney
<1>1. PICK q \in Requests : Book!Close(q)
  BY DEF Book!Next, Book!vars, Book!rowVars, Book!LookPut, Book!LookDelete, Book!LookImport, Book!LookClose,
         Book!Look, Book!Put, Book!Delete, Book!Import, Book!Fail, Book!Post, Book!Reopen, Book!DeleteOpening,
         Book!PutOpening
<1> PICK c : c = asked[q] OBVIOUS
<1>2. /\ account' = [account EXCEPT ![c.id].closed = TRUE] /\ transfer' = Book!Recorded(c.moves)
      /\ c.id \in DOMAIN account
      /\ posted' = posted /\ opening' = opening /\ \A mv \in c.moves : mv.to \in DOMAIN account
  BY <1>1 DEF Book!Close
<1>3. /\ DOMAIN account' = DOMAIN account /\ \A a \in DOMAIN account : account'[a].terms = account[a].terms
  BY <1>2 DEF Book!IInv
<1> PICK own : own = OwnIn(currency) OBVIOUS
<1> PICK extra : extra = [a \in own |-> Extra(a, day)] OBVIOUS
<1>4. OwnIn(currency)' = own BY <1>3 DEF OwnIn
<1>5. [a \in OwnIn(currency) |-> Extra(a, day)]' = extra BY <1>2, <1>4 DEF Extra
<1>6. Book!NetWorth(currency, day) = Worth(Book!Postings, own, extra, day) BY NetWorthIsTotal DEF NetWorthAdds
<1>7. Book!NetWorth(currency, day)' = Worth(Book!Postings', own, extra, day)
  <2>1. (Book!IInv => NetWorthAdds)' BY NetWorthIsTotal, PTL
  <2> QED BY <1>4, <1>5, <2>1 DEF NetWorthAdds
<1>8. IsFiniteSet(own) /\ Counted(extra, own)
  <2>1. own \subseteq DOMAIN account BY DEF OwnIn
  <2>2. IsFiniteSet(own) BY <2>1, FS_Subset, FiniteIsFinite DEF Book!IInv
  <2>3. \A a \in own : Extra(a, day) \in Int BY DEF Extra
  <2> QED BY <2>2, <2>3 DEF Counted
<1>9. CASE c.moves = {}
  <2>1. DOMAIN transfer' = DOMAIN transfer /\ \A i \in DOMAIN transfer : transfer'[i] = transfer[i]
    BY <1>2, <1>9 DEF Book!Recorded, Book!Changed
  <2>2. Book!Postings' = Book!Postings BY <1>2, <2>1, SamePostings
  <2> QED BY <1>6, <1>7, <2>2
<1>10. CASE c.moves # {}
  <2> PICK mv \in c.moves : TRUE BY <1>10
  <2>1. c.moves = {mv} /\ mv \in Moves BY <1>1 DEF Book!IInv, Book!RequestStands, Book!Close, Book!Due
  <2> PICK i, legs : i = mv.id /\ legs = Book!Legs(mv) OBVIOUS
  <2>2. /\ DOMAIN transfer' = DOMAIN transfer \cup {i} /\ transfer'[i] = legs
        /\ \A j \in DOMAIN transfer : j # i => transfer'[j] = transfer[j]
    BY <1>2, <2>1, Moved
  <2>3. Others(i) \subseteq Book!Postings BY DEF Others
  <2>4. IsFiniteSet(Others(i)) /\ Whole(Others(i))
    BY <2>3, FS_Subset, AmountsAreCounted, FiniteIsFinite DEF Book!IInv, Whole
  <2>5. ASSUME NEW old, NEW m \in Moves, Book!Tells(old, m),
               old.from.account \in own <=> old.to.account \in own
        PROVE  Worth(Others(i) \cup {Side(i, "from", old.from), Side(i, "to", old.to)}, own, extra, day)
                 = Worth(Others(i), own, extra, day)
    <3> DEFINE p == Side(i, "from", old.from)
               r == Side(i, "to", old.to)
    <3>1. p \notin Others(i) /\ r \notin Others(i) /\ p # r /\ p.leg = old.from /\ r.leg = old.to BY DEF Others, Side
    <3>2. p.leg.amount \in Int /\ r.leg.amount = -p.leg.amount /\ r.leg.day = p.leg.day
      BY <2>5, <3>1 DEF Book!Tells, MovesAreCounted
    <3>3. Opposite(p, r, own) BY <2>5, <3>1, <3>2 DEF Opposite
    <3> HIDE DEF p, r
    <3> PICK os : os = Others(i) OBVIOUS
    <3>4. IsFiniteSet(os) /\ Whole(os) /\ p \notin os /\ r \notin os BY <2>4, <3>1
    <3>5. Worth(os \cup {p, r}, own, extra, day) = Worth(os, own, extra, day)
      BY <1>8, <3>1, <3>3, <3>4, TwoSidesCancel
    <3> QED BY <3>5 DEF p, r
  <2>6. Worth(Book!Postings', own, extra, day) = Worth(Others(i), own, extra, day)
    <3>1. Book!Postings' = Others(i) \cup {Side(i, "from", legs.from), Side(i, "to", legs.to)} BY <1>2, <2>2, Replaced
    <3>2. Book!Tells(legs, mv) BY <2>1 DEF Book!Tells, Book!Legs, Book!Leg
    <3>3. i \in DOMAIN transfer' BY <2>2
    <3>4. /\ legs.from.currency = legs.to.currency /\ legs.from.account \notin raced' /\ legs.to.account \notin raced'
          /\ ~account'[legs.from.account].terms.linked /\ ~account'[legs.to.account].terms.linked
      <4>1. \A side \in {"from", "to"} :
               legs[side].account \notin raced' /\ ~account'[legs[side].account].terms.linked
        BY <2>2, <3>3 DEF Book!PlainTransfers
      <4> QED BY <2>2, <3>3, <4>1 DEF Book!PlainTransfers
    <3>5. Book!Stands(legs.from.account, legs.from.currency)' /\ Book!Stands(legs.to.account, legs.to.currency)'
      BY <2>2, <3>3 DEF Book!IInv, Book!Stands
    <3>6. legs.from.account \in OwnIn(currency)' <=> legs.to.account \in OwnIn(currency)'
      BY <3>4, <3>5 DEF Book!Stands, OwnIn
    <3> QED BY <1>4, <2>1, <2>5, <3>1, <3>2, <3>6
  <2>7. Worth(Book!Postings, own, extra, day) = Worth(Others(i), own, extra, day)
    <3>1. CASE i \notin DOMAIN transfer
      <4>1. Book!Postings = Others(i) BY <3>1, Parted
      <4> QED BY <4>1
    <3>2. CASE i \in DOMAIN transfer
      <4> PICK old : old = transfer[i] OBVIOUS
      <4>1. Book!Postings = Others(i) \cup {Side(i, "from", old.from), Side(i, "to", old.to)} BY <3>2, Parted
      <4>2. PICK m \in Moves : Book!Tells(old, m) BY <3>2 DEF Book!IInv
      <4>3. \A side \in {"from", "to"} : old[side].account \notin raced /\ ~account[old[side].account].terms.linked
        BY <3>2 DEF Book!PlainTransfers
      <4>4. old.from.account \in OwnIn(currency) <=> old.to.account \in OwnIn(currency)
        BY <3>2, <4>3, PlainSides DEF Book!PlainTransfers, Book!IInv
      <4> QED BY <2>5, <4>1, <4>2, <4>4
    <3> QED BY <3>1, <3>2
  <2> QED BY <1>6, <1>7, <2>6, <2>7
<1> QED BY <1>9, <1>10

\* What is on an account is in its currency, unless two requests about the account
\* overlapped; and a transfer that is recorded, or recorded again, leaves the net worth in
\* every currency and on every day what it was.
THEOREM AccountsAgreeHolds ==
  ASSUME FirstAccounts, MovesAreCounted
  PROVE  Book!Spec => []Book!CurrenciesAgree /\ [][Book!TransfersMakeNoMoney]_(Book!vars)
<1>1. Book!IInv /\ Book!IInv' /\ [Book!Next]_(Book!vars) => [Book!TransfersMakeNoMoney]_(Book!vars) BY MoneyStays
<1> QED BY <1>1, AccountsInitInv, AccountsStepInv, AccountsHaveTheirCurrency, PTL DEF Book!Spec

-----------------------------------------------------------------------------
(* The links between a user's transactions.                                *)

CONSTANTS LastTransaction, Account, Amount, Rules, KnownRules, Importable, MaxEdits
VARIABLES ledger, ruleState, links, splits, merges, pairing, edits
Pairs == INSTANCE TransferPairs WITH rules <- ruleState, request <- pairing

\* What the parameters are: transactions and rules are numbered.
RulesAreNumbered == LastTransaction \in Nat /\ Pairs!RuleIds \subseteq Nat

\* Of the rules that match one decides, and it is one of them.
LEMMA FirstRuleDecides ==
  ASSUME RulesAreNumbered, NEW rs, NEW t, Pairs!Matching(rs, t) # {}
  PROVE  Pairs!RuleMatch(rs, t) \in Pairs!RuleIds /\ rs[Pairs!RuleMatch(rs, t)] = "active"
<1>1. Pairs!Matching(rs, t) \in SUBSET Nat BY DEF Pairs!Matching, RulesAreNumbered
<1>2. \E r \in Pairs!Matching(rs, t) : \A o \in Pairs!Matching(rs, t) : r <= o BY <1>1, LeastNumber
<1>3. Pairs!RuleMatch(rs, t) \in Pairs!Matching(rs, t) BY <1>2 DEF Pairs!RuleMatch
<1> QED BY <1>3 DEF Pairs!Matching

\* What the transaction n adds to the pairs proposed so far.
WithPairOf(led, rs, spl, ls, proposed, n) ==
    IF n \notin Pairs!Members(proposed)
         /\ Pairs!Cardinality(Pairs!Candidates(led, rs, spl, ls, n) \ Pairs!Members(proposed)) = 1
    THEN proposed \cup {[pair |-> {n} \cup (Pairs!Candidates(led, rs, spl, ls, n) \ Pairs!Members(proposed)),
                         rule |-> Pairs!RuleMatch(rs, n)]}
    ELSE proposed

\* Pairs of unresolved transactions, no two of which share one, by rules that are active.
Apart(led, rs, spl, ls, proposed) ==
    /\ \A p \in proposed : p.pair \subseteq Pairs!Unresolved(led, spl, ls)
                             /\ p.rule \in Pairs!RuleIds /\ rs[p.rule] = "active"
                             /\ Pairs!IsALink(p)
    /\ \A p, r \in proposed : p # r => p.pair \cap r.pair = {}

LEMMA OnePairMore ==
  ASSUME RulesAreNumbered, NEW led, NEW rs, NEW spl, NEW ls, NEW proposed, NEW n,
         Apart(led, rs, spl, ls, proposed)
  PROVE  Apart(led, rs, spl, ls, WithPairOf(led, rs, spl, ls, proposed, n))
<1> PICK remaining : remaining = Pairs!Candidates(led, rs, spl, ls, n) \ Pairs!Members(proposed) OBVIOUS
<1> SUFFICES ASSUME n \notin Pairs!Members(proposed), Pairs!Cardinality(remaining) = 1
             PROVE  Apart(led, rs, spl, ls,
                          proposed \cup {[pair |-> {n} \cup remaining, rule |-> Pairs!RuleMatch(rs, n)]})
  BY DEF WithPairOf
<1> PICK new : new = [pair |-> {n} \cup remaining, rule |-> Pairs!RuleMatch(rs, n)] OBVIOUS
<1>1. remaining # {}
  <2>1. Pairs!Cardinality({}) = 0 BY FS_EmptySet DEF Pairs!Cardinality, Cardinality, Pairs!IsFiniteSet, IsFiniteSet
  <2> QED BY <2>1
<1>2. /\ n \in Pairs!Unresolved(led, spl, ls)
      /\ remaining \subseteq Pairs!Unresolved(led, spl, ls) /\ Pairs!Matching(rs, n) # {}
  BY <1>1 DEF Pairs!Candidates
<1>3. new.rule \in Pairs!RuleIds /\ rs[new.rule] = "active" /\ Pairs!IsALink(new)
  BY <1>2, FirstRuleDecides DEF Pairs!IsALink
<1>4. new.pair \subseteq Pairs!Unresolved(led, spl, ls) BY <1>2
<1>5. \A p \in proposed : p.pair \cap new.pair = {} BY DEF Pairs!Members
<1> QED BY <1>3, <1>4, <1>5 DEF Apart

\* The pairs proposed of the first n transactions.
IsProposed(f, led, rs, spl, ls, n) ==
    f = [m \in 0..n |-> IF m = 0 THEN {} ELSE WithPairOf(led, rs, spl, ls, f[m - 1], m)]

LEMMA ProposalsExist ==
  ASSUME NEW led, NEW rs, NEW spl, NEW ls
  PROVE  \A n \in Nat : \E f : IsProposed(f, led, rs, spl, ls, n)
<1> DEFINE N == {n \in Nat : \E f : IsProposed(f, led, rs, spl, ls, n)}
<1>1. 0 \in N
  <2> DEFINE f == [m \in 0..0 |-> {}]
  <2>1. \A m \in 0..0 : m = 0 OBVIOUS
  <2>2. f = [m \in 0..0 |-> IF m = 0 THEN {} ELSE WithPairOf(led, rs, spl, ls, f[m - 1], m)] BY <2>1
  <2> HIDE DEF f
  <2>3. IsProposed(f, led, rs, spl, ls, 0) BY <2>2 DEF IsProposed
  <2> QED BY <2>3
<1>2. ASSUME NEW n \in Nat, n \in N PROVE n + 1 \in N
  <2> PICK f : IsProposed(f, led, rs, spl, ls, n) BY <1>2
  <2>1. \A m \in 0..n : f[m] = IF m = 0 THEN {} ELSE WithPairOf(led, rs, spl, ls, f[m - 1], m) BY DEF IsProposed
  <2> DEFINE g == [m \in 0..(n + 1) |-> IF m = n + 1 THEN WithPairOf(led, rs, spl, ls, f[n], n + 1) ELSE f[m]]
  <2>2. ASSUME NEW m \in 0..(n + 1)
        PROVE  g[m] = IF m = 0 THEN {} ELSE WithPairOf(led, rs, spl, ls, g[m - 1], m)
    <3>1. CASE m = n + 1
      <4>1. m # 0 /\ m - 1 = n /\ n \in 0..(n + 1) /\ n # n + 1 BY <3>1
      <4>2. g[m] = WithPairOf(led, rs, spl, ls, f[n], n + 1) /\ g[m - 1] = f[n] BY <3>1, <4>1
      <4> QED BY <3>1, <4>1, <4>2
    <3>2. CASE m # n + 1
      <4>1. m \in 0..n BY <3>2
      <4>2. g[m] = f[m] BY <3>2
      <4>3. m # 0 => m - 1 \in 0..(n + 1) /\ m - 1 # n + 1 BY <4>1
      <4>4. m # 0 => g[m - 1] = f[m - 1] BY <4>3
      <4> QED BY <2>1, <4>1, <4>2, <4>4
    <3> QED BY <3>1, <3>2
  <2>3. g = [m \in 0..(n + 1) |-> g[m]] OBVIOUS
  <2> HIDE DEF g
  <2>4. IsProposed(g, led, rs, spl, ls, n + 1) BY <2>2, <2>3 DEF IsProposed
  <2> QED BY <2>4
<1> HIDE DEF N
<1>3. Nat \subseteq N BY <1>1, <1>2, Counting
<1> QED BY <1>3 DEF N

\* One reconciliation proposes pairs that keep apart.
LEMMA PairsKeepApart ==
  ASSUME RulesAreNumbered, NEW led, NEW rs, NEW spl, NEW ls
  PROVE  Apart(led, rs, spl, ls, Pairs!ReconcileRuleLinks(led, rs, spl, ls))
<1> DEFINE chosen == CHOOSE f : IsProposed(f, led, rs, spl, ls, LastTransaction)
<1>1. IsProposed(chosen, led, rs, spl, ls, LastTransaction) BY ProposalsExist DEF RulesAreNumbered
<1>2. Pairs!ReconcileRuleLinks(led, rs, spl, ls) = chosen[LastTransaction]
  BY DEF Pairs!ReconcileRuleLinks, IsProposed, WithPairOf
<1> HIDE DEF chosen
<1> DEFINE N == {n \in Nat : n <= LastTransaction => Apart(led, rs, spl, ls, chosen[n])}
<1>3. \A m \in 0..LastTransaction :
         chosen[m] = IF m = 0 THEN {} ELSE WithPairOf(led, rs, spl, ls, chosen[m - 1], m)
  BY <1>1 DEF IsProposed
<1>4. 0 \in N
  <2>1. chosen[0] = {} BY <1>3 DEF RulesAreNumbered
  <2> QED BY <2>1 DEF Apart
<1>5. ASSUME NEW n \in Nat, n \in N PROVE n + 1 \in N
  <2> SUFFICES ASSUME n + 1 <= LastTransaction PROVE Apart(led, rs, spl, ls, chosen[n + 1]) OBVIOUS
  <2>1. n <= LastTransaction /\ n + 1 \in 0..LastTransaction /\ n + 1 # 0 /\ (n + 1) - 1 = n BY DEF RulesAreNumbered
  <2>2. Apart(led, rs, spl, ls, chosen[n]) BY <1>5, <2>1
  <2>3. chosen[n + 1] = WithPairOf(led, rs, spl, ls, chosen[n], n + 1) BY <1>3, <2>1
  <2> QED BY <2>2, <2>3, OnePairMore
<1> HIDE DEF N
<1>6. Nat \subseteq N BY <1>4, <1>5, Counting
<1>7. LastTransaction \in N /\ LastTransaction <= LastTransaction BY <1>6 DEF RulesAreNumbered
<1> QED BY <1>2, <1>7 DEF N

LEMMA PairsInitInv == Pairs!Init => Pairs!IInv
<1> SUFFICES ASSUME Pairs!Init PROVE Pairs!IInv OBVIOUS
<1>1. /\ Pairs!IsARequest(Pairs!Fresh) /\ Pairs!Fresh.rule = Pairs!NoRule
      /\ Pairs!Fresh.proposed = {} /\ Pairs!Fresh.state = "absent" BY DEF Pairs!Fresh, Pairs!IsARequest
<1>2. Pairs!ProposalIsSound(Pairs!Fresh) BY <1>1 DEF Pairs!ProposalIsSound
<1>3. \A q \in Requests : pairing[q] = Pairs!Fresh BY DEF Pairs!Init
<1>4. \A q \in Requests : Pairs!RulesStand(q) BY <1>1, <1>3 DEF Pairs!RulesStand
<1>5. DOMAIN pairing = Requests /\ ruleState \in [Pairs!RuleIds -> {"absent", "active", "inactive"}] /\ links = {}
  BY DEF Pairs!Init
<1> QED BY <1>1, <1>2, <1>3, <1>4, <1>5 DEF Pairs!IInv

\* A request leaves a rule absent only by deleting it.
StateStands(c) ==
    /\ c.state \in {"absent", "active", "inactive"}
    /\ c.rule # Pairs!NoRule /\ c.state = "absent" => c.kind = "delete"

\* One request goes on; no rule is written.
LEMMA GoesOn ==
  ASSUME Pairs!IInv, NEW q \in Requests, NEW c, pairing' = [pairing EXCEPT ![q] = c],
         ruleState' = ruleState, links' = links,
         Pairs!IsARequest(c), Pairs!ProposalIsSound(c), StateStands(c),
         pairing[q].phase # "done",
         \A p \in c.proposed : p.rule \notin {Pairs!NoRule, c.rule} => ruleState[p.rule] # "absent"
  PROVE  Pairs!IInv'
<1>1. DOMAIN pairing' = Requests /\ pairing'[q] = c /\ \A o \in Requests : o # q => pairing'[o] = pairing[o]
  BY DEF Pairs!IInv
<1>2. Pairs!RulesStand(q)' BY <1>1 DEF Pairs!RulesStand
<1>3. ASSUME NEW r \in Requests, r # q PROVE Pairs!RulesStand(r)'
  <2>1. Pairs!RulesStand(r) /\ pairing'[r] = pairing[r] BY <1>1, <1>3 DEF Pairs!IInv
  <2> QED BY <1>1, <2>1 DEF Pairs!RulesStand
<1>4. ASSUME NEW r \in Requests
      PROVE  /\ Pairs!IsARequest(pairing'[r]) /\ Pairs!ProposalIsSound(pairing'[r])
             /\ StateStands(pairing'[r])
  BY <1>1 DEF Pairs!IInv, StateStands
<1>5. \A r \in Requests : Pairs!RulesStand(r)' BY <1>2, <1>3
<1> QED BY <1>1, <1>4, <1>5 DEF Pairs!IInv, Pairs!IsARequest, Pairs!ProposalIsSound, Pairs!Members, StateStands

LEMMA PairsImportInv == ASSUME Pairs!IInv, NEW q \in Requests, Pairs!Import(q) PROVE Pairs!IInv'
<1>1. pairing[q].phase = "new" /\ ruleState' = ruleState /\ links' = links BY DEF Pairs!Import
<1> PICK c : c = [Pairs!Fresh EXCEPT !.phase = "wrote", !.kind = "import", !.ledger = ledger'] OBVIOUS
<1>2. pairing' = [pairing EXCEPT ![q] = c] BY DEF Pairs!Import
<1>3. Pairs!IsARequest(c) /\ c.proposed = {} /\ c.rule = Pairs!NoRule /\ c.state = "absent"
  BY DEF Pairs!IsARequest, Pairs!Fresh
<1>4. Pairs!ProposalIsSound(c) BY <1>3 DEF Pairs!ProposalIsSound, Pairs!IsALink
<1>5. StateStands(c) BY <1>3 DEF StateStands
<1> QED BY <1>1, <1>2, <1>3, <1>4, <1>5, GoesOn

LEMMA WriteRuleInv ==
  ASSUME Pairs!IInv, NEW q \in Requests, NEW r, NEW kind, NEW state, NEW doomed,
         Pairs!WriteRule(q, r, kind, state, doomed),
         state = "absent" => kind = "delete", state \in {"absent", "active", "inactive"}
  PROVE  Pairs!IInv'
<1>1. pairing[q].phase = "new" /\ ruleState' = ruleState /\ links' = links BY DEF Pairs!WriteRule
<1> PICK c : c = [Pairs!Fresh EXCEPT !.phase = "wrote", !.kind = kind, !.rule = r, !.state = state,
                               !.ledger = ledger, !.doomed = doomed] OBVIOUS
<1>2. pairing' = [pairing EXCEPT ![q] = c] BY DEF Pairs!WriteRule
<1>3. Pairs!IsARequest(c) /\ c.proposed = {} /\ c.state = state /\ c.kind = kind BY DEF Pairs!IsARequest, Pairs!Fresh
<1>4. Pairs!ProposalIsSound(c) BY <1>3 DEF Pairs!ProposalIsSound, Pairs!IsALink
<1>5. StateStands(c) BY <1>3 DEF StateStands
<1> QED BY <1>1, <1>2, <1>3, <1>4, <1>5, GoesOn

LEMMA ReconcileInv == ASSUME RulesAreNumbered, Pairs!IInv, NEW q \in Requests, Pairs!Reconcile(q) PROVE Pairs!IInv'
<1> PICK x : x = pairing[q] OBVIOUS
<1> PICK rs : rs = [r \in Pairs!RuleIds |-> IF r = x.rule THEN x.state ELSE ruleState[r]] OBVIOUS
<1> PICK ls : ls = links \ x.doomed OBVIOUS
<1> PICK pairs : pairs = Pairs!ReconcileRuleLinks(x.ledger, rs, splits, ls) OBVIOUS
<1> PICK c : c = [x EXCEPT !.phase = "looked", !.splits = splits, !.links = ls, !.proposed = pairs] OBVIOUS
<1>1. /\ x.phase = "wrote" /\ ruleState' = ruleState /\ links' = links
      /\ pairing' = [pairing EXCEPT ![q].phase = "looked", ![q].splits = splits, ![q].links = ls,
                                      ![q].proposed = pairs]
  BY DEF Pairs!Reconcile
<1>2. pairing' = [pairing EXCEPT ![q] = c] BY <1>1 DEF Pairs!IInv
<1>3. Pairs!IsARequest(x) BY DEF Pairs!IInv
<1>4. /\ Pairs!IsARequest(c) /\ c.proposed = pairs /\ c.splits = splits /\ c.links = ls /\ c.rule = x.rule
      /\ c.state = x.state /\ c.kind = x.kind
  BY <1>3 DEF Pairs!IsARequest
<1>5. Apart(x.ledger, rs, splits, ls, pairs) BY PairsKeepApart
<1>6. Pairs!ProposalIsSound(c) BY <1>4, <1>5 DEF Pairs!ProposalIsSound, Apart, Pairs!Unresolved
<1>7. \A p \in c.proposed : p.rule \notin {Pairs!NoRule, c.rule} => ruleState[p.rule] # "absent"
  BY <1>4, <1>5 DEF Apart
<1>8. StateStands(c) BY <1>4 DEF Pairs!IInv, StateStands
<1> QED BY <1>1, <1>2, <1>4, <1>6, <1>7, <1>8, GoesOn

LEMMA CheckManualLinkInv == ASSUME Pairs!IInv, NEW q \in Requests, Pairs!CheckManualLink(q) PROVE Pairs!IInv'
<1>1. pairing[q].phase = "new" /\ ruleState' = ruleState /\ links' = links BY DEF Pairs!CheckManualLink
<1> PICK t, u \in ledger \ (splits \cup Pairs!Members(links)) :
             pairing' = [pairing EXCEPT ![q] =
                [Pairs!Fresh EXCEPT !.phase = "looked", !.kind = "link", !.splits = splits, !.links = links,
                              !.proposed = {[pair |-> {t, u}, rule |-> Pairs!NoRule]}]]
  BY DEF Pairs!CheckManualLink
<1> PICK c : c = [Pairs!Fresh EXCEPT !.phase = "looked", !.kind = "link", !.splits = splits, !.links = links,
                               !.proposed = {[pair |-> {t, u}, rule |-> Pairs!NoRule]}] OBVIOUS
<1>2. pairing' = [pairing EXCEPT ![q] = c] OBVIOUS
<1>3. /\ Pairs!IsARequest(c) /\ c.proposed = {[pair |-> {t, u}, rule |-> Pairs!NoRule]} /\ c.rule = Pairs!NoRule
      /\ c.splits = splits /\ c.links = links /\ c.state = "absent"
  BY DEF Pairs!IsARequest, Pairs!Fresh
<1>4. Pairs!ProposalIsSound(c) BY <1>3 DEF Pairs!ProposalIsSound, Pairs!IsALink
<1>5. StateStands(c) BY <1>3 DEF StateStands
<1>6. \A p \in c.proposed : p.rule = Pairs!NoRule BY <1>3
<1> QED BY <1>1, <1>2, <1>3, <1>4, <1>5, <1>6, GoesOn

LEMMA CollideInv == ASSUME Pairs!IInv, NEW q \in Requests, Pairs!Collide(q) PROVE Pairs!IInv'
<1> PICK x : x = pairing[q] OBVIOUS
<1> PICK c : c = [x EXCEPT !.phase = "collided"] OBVIOUS
<1>1. x.phase = "looked" /\ ruleState' = ruleState /\ links' = links /\ pairing' = [pairing EXCEPT ![q] = c]
  BY DEF Pairs!Collide
<1>2. Pairs!IsARequest(x) /\ Pairs!ProposalIsSound(x) /\ Pairs!RulesStand(q) BY DEF Pairs!IInv
<1>3. /\ Pairs!IsARequest(c) /\ c.proposed = x.proposed /\ c.splits = x.splits /\ c.links = x.links /\ c.rule = x.rule
      /\ c.state = x.state /\ c.kind = x.kind
  BY <1>2 DEF Pairs!IsARequest
<1>4. DOMAIN pairing' = Requests /\ pairing'[q] = c /\ \A o \in Requests : o # q => pairing'[o] = pairing[o]
  BY <1>1 DEF Pairs!IInv
<1>5. Pairs!ProposalIsSound(c) BY <1>2, <1>3 DEF Pairs!ProposalIsSound
<1>6. ASSUME NEW r \in Requests PROVE Pairs!RulesStand(r)'
  <2>1. Pairs!RulesStand(r) BY DEF Pairs!IInv
  <2>2. pairing'[r].proposed = pairing[r].proposed /\ pairing'[r].rule = pairing[r].rule BY <1>3, <1>4
  <2>3. \A o \in Requests : pairing[o].kind = "delete" /\ pairing[o].phase = "done" =>
           pairing'[o].kind = "delete" /\ pairing'[o].phase = "done"
    BY <1>1, <1>4
  <2> QED BY <1>1, <2>1, <2>2, <2>3 DEF Pairs!RulesStand
<1>7. ASSUME NEW r \in Requests
      PROVE  /\ Pairs!IsARequest(pairing'[r]) /\ Pairs!ProposalIsSound(pairing'[r])
             /\ StateStands(pairing'[r])
  <2>1. StateStands(c) BY <1>3 DEF Pairs!IInv, StateStands
  <2>2. r # q => Pairs!IsARequest(pairing[r]) /\ Pairs!ProposalIsSound(pairing[r]) /\ StateStands(pairing[r])
    BY DEF Pairs!IInv, StateStands
  <2> QED BY <1>3, <1>4, <1>5, <2>1, <2>2
<1> QED BY <1>1, <1>4, <1>6, <1>7 DEF Pairs!IInv, Pairs!IsARequest, Pairs!ProposalIsSound, Pairs!Members, StateStands

LEMMA InsertInv == ASSUME Pairs!IInv, NEW q \in Requests, Pairs!Insert(q) PROVE Pairs!IInv'
<1> PICK x : x = pairing[q] OBVIOUS
<1> PICK c : c = [x EXCEPT !.phase = "done"] OBVIOUS
<1>1. /\ x.phase = "looked" /\ pairing' = [pairing EXCEPT ![q] = c]
      /\ ruleState' = IF x.rule = Pairs!NoRule THEN ruleState ELSE [ruleState EXCEPT ![x.rule] = x.state]
  BY DEF Pairs!Insert
<1>2. Pairs!IsARequest(x) /\ Pairs!ProposalIsSound(x) /\ Pairs!RulesStand(q) BY DEF Pairs!IInv
<1>3. /\ Pairs!IsARequest(c) /\ c.proposed = x.proposed /\ c.splits = x.splits /\ c.links = x.links /\ c.rule = x.rule
      /\ c.state = x.state /\ c.kind = x.kind /\ c.phase = "done"
  BY <1>2 DEF Pairs!IsARequest
<1>4. DOMAIN pairing' = Requests /\ pairing'[q] = c /\ \A o \in Requests : o # q => pairing'[o] = pairing[o]
  BY <1>1 DEF Pairs!IInv
<1>5. Pairs!ProposalIsSound(c) BY <1>2, <1>3 DEF Pairs!ProposalIsSound
<1>6. ASSUME NEW r \in Requests PROVE Pairs!RulesStand(r)'
  <2>1. Pairs!RulesStand(r) BY DEF Pairs!IInv
  <2>2. pairing'[r].proposed = pairing[r].proposed /\ pairing'[r].rule = pairing[r].rule BY <1>3, <1>4
  <2>3. \A o \in Requests : pairing[o].kind = "delete" /\ pairing[o].phase = "done" =>
           pairing'[o].kind = "delete" /\ pairing'[o].phase = "done"
    BY <1>1, <1>4
  <2>4. ASSUME NEW p \in pairing[r].proposed, p.rule \notin {Pairs!NoRule, pairing[r].rule},
               ruleState'[p.rule] = "absent"
        PROVE  \E o \in Requests \ {r} : pairing'[o].kind = "delete" /\ pairing'[o].phase = "done"
    <3>1. p.rule \in Pairs!RuleIds BY <2>4 DEF Pairs!IInv, Pairs!ProposalIsSound
    <3>2. CASE ruleState[p.rule] = "absent" BY <2>1, <2>3, <2>4, <3>2 DEF Pairs!RulesStand
    <3>3. CASE ruleState[p.rule] # "absent"
      <4>1. x.rule # Pairs!NoRule /\ p.rule = x.rule /\ x.state = "absent" BY <1>1, <2>4, <3>1, <3>3 DEF Pairs!IInv
      <4>2. x.kind = "delete" /\ q # r BY <2>4, <4>1 DEF Pairs!IInv
      <4>3. pairing'[q].kind = "delete" /\ pairing'[q].phase = "done" BY <1>3, <1>4, <4>2
      <4> QED BY <4>2, <4>3
    <3> QED BY <3>2, <3>3
  <2> QED BY <2>2, <2>4 DEF Pairs!RulesStand
<1>7. ASSUME NEW r \in Requests
      PROVE  /\ Pairs!IsARequest(pairing'[r]) /\ Pairs!ProposalIsSound(pairing'[r])
             /\ StateStands(pairing'[r])
  <2>1. StateStands(c) BY <1>3 DEF Pairs!IInv, StateStands
  <2>2. r # q => Pairs!IsARequest(pairing[r]) /\ Pairs!ProposalIsSound(pairing[r]) /\ StateStands(pairing[r])
    BY DEF Pairs!IInv, StateStands
  <2> QED BY <1>3, <1>4, <1>5, <2>1, <2>2
<1>8. ruleState' \in [Pairs!RuleIds -> {"absent", "active", "inactive"}] BY <1>1 DEF Pairs!IInv
<1>9. \A l \in links' : Pairs!IsALink(l)
  <2>1. \A l : Pairs!IsALink(l) => Pairs!IsALink(Pairs!RuleGone(l, q)) BY DEF Pairs!RuleGone, Pairs!IsALink
  <2>2. \A l \in Pairs!Standing(q) : Pairs!IsALink(l) BY DEF Pairs!Standing, Pairs!IInv
  <2>3. \A l \in Pairs!Inserted(q) : Pairs!IsALink(l) BY <1>2 DEF Pairs!Inserted, Pairs!ProposalIsSound
  <2>4. links' = {Pairs!RuleGone(l, q) : l \in Pairs!Standing(q)} \cup Pairs!Inserted(q) BY DEF Pairs!Insert
  <2> QED BY <2>1, <2>2, <2>3, <2>4
<1> QED
  BY <1>4, <1>6, <1>7, <1>8, <1>9 DEF Pairs!IInv, Pairs!IsARequest, Pairs!ProposalIsSound, Pairs!Members, StateStands

LEMMA PairsStepInv == RulesAreNumbered /\ Pairs!IInv /\ [Pairs!Next]_(Pairs!vars) => Pairs!IInv'
<1> SUFFICES ASSUME RulesAreNumbered, Pairs!IInv, [Pairs!Next]_(Pairs!vars) PROVE Pairs!IInv' OBVIOUS
<1>1. ASSUME NEW q \in Requests, Pairs!PostRule(q) PROVE Pairs!IInv'
  <2> PICK r \in Pairs!RuleIds :
            Pairs!WriteRule(q, r, "save", IF ruleState[r] = "absent" THEN "active" ELSE ruleState[r], {})
    BY <1>1 DEF Pairs!PostRule
  <2> PICK state : state = IF ruleState[r] = "absent" THEN "active" ELSE ruleState[r] OBVIOUS
  <2>1. state # "absent" /\ state \in {"absent", "active", "inactive"} BY DEF Pairs!IInv
  <2> QED BY <2>1, WriteRuleInv
<1>2. ASSUME NEW q \in Requests, Pairs!PatchRule(q) PROVE Pairs!IInv' BY <1>2, WriteRuleInv DEF Pairs!PatchRule
<1>3. ASSUME NEW q \in Requests, Pairs!DeleteRule(q) PROVE Pairs!IInv' BY <1>3, WriteRuleInv DEF Pairs!DeleteRule
<1>4. CASE UNCHANGED <<ruleState, pairing>> /\ links' \subseteq links
  <2>1. ruleState' = ruleState /\ pairing' = pairing /\ \A l \in links' : l \in links BY <1>4
  <2> QED BY <2>1 DEF Pairs!IInv, Pairs!RulesStand, Pairs!IsARequest, Pairs!ProposalIsSound, Pairs!Members
<1>5. Pairs!PutSplit \/ Pairs!DeleteSplit \/ Pairs!DeleteLink \/ Pairs!PostMerge \/ Pairs!DeleteMerge =>
        UNCHANGED <<ruleState, pairing>> /\ links' \subseteq links
  BY DEF Pairs!PutSplit, Pairs!DeleteSplit, Pairs!DeleteLink, Pairs!PostMerge, Pairs!DeleteMerge, Pairs!Edit
<1>6. UNCHANGED Pairs!vars => UNCHANGED <<ruleState, pairing>> /\ links' \subseteq links BY DEF Pairs!vars
<1> QED BY <1>1, <1>2, <1>3, <1>4, <1>5, <1>6, PairsImportInv, ReconcileInv, CheckManualLinkInv, InsertInv, CollideInv
        DEF Pairs!Next

\* What collides came from somebody else.
LEMMA RivalsCollide == Pairs!IInv => Pairs!OnlyRivalsCollide
<1> SUFFICES ASSUME Pairs!IInv, NEW q \in Requests, Pairs!Collides(q), Pairs!Standing(q) = pairing[q].links
             PROVE  \E o \in Requests \ {q} : pairing[o].kind = "delete" /\ pairing[o].phase = "done"
  BY DEF Pairs!OnlyRivalsCollide
<1>1. Pairs!ProposalIsSound(pairing[q]) /\ Pairs!RulesStand(q) BY DEF Pairs!IInv
<1>2. ~ \E p \in Pairs!Inserted(q), l \in Pairs!Standing(q) \cup Pairs!Inserted(q) : p # l /\ p.pair \cap l.pair # {}
  <2> SUFFICES ASSUME NEW p \in Pairs!Inserted(q), NEW l \in Pairs!Standing(q) \cup Pairs!Inserted(q), p # l
               PROVE  p.pair \cap l.pair = {}
    OBVIOUS
  <2>1. p \in pairing[q].proposed BY DEF Pairs!Inserted
  <2>2. CASE l \in Pairs!Standing(q)
    <3>1. l.pair \subseteq Pairs!Members(pairing[q].links) BY <2>2 DEF Pairs!Members
    <3> QED BY <1>1, <2>1, <3>1 DEF Pairs!ProposalIsSound
  <2>3. CASE l \in Pairs!Inserted(q) BY <1>1, <2>1, <2>3 DEF Pairs!ProposalIsSound, Pairs!Inserted
  <2> QED BY <2>2, <2>3
<1> QED BY <1>1, <1>2 DEF Pairs!Collides, Pairs!RulesStand

\* A transaction that is split is linked only by a request that did not know.
LEMMA SplitsCount == Pairs!IInv /\ [Pairs!Next]_(Pairs!vars) => Pairs!SplitsStayCounted
<1> SUFFICES ASSUME Pairs!IInv, [Pairs!Next]_(Pairs!vars), NEW t \in splits \cap splits',
                    Pairs!Counted(t), ~Pairs!Counted(t)',
                    merges' = merges, ruleState' = ruleState
             PROVE  \E q \in Requests : /\ pairing[q].phase = "looked" /\ pairing'[q].phase = "done"
                                        /\ t \notin pairing[q].splits
  BY DEF Pairs!SplitsStayCounted
<1>1. Pairs!Repointed(t)' <=> Pairs!Repointed(t) BY DEF Pairs!Repointed, Pairs!Matching, Pairs!RuleMatch
<1>2. Pairs!Dropped' = Pairs!Dropped BY DEF Pairs!Dropped
<1>3. ledger \subseteq ledger'
  BY DEF Pairs!Next, Pairs!Import, Pairs!PostRule, Pairs!PatchRule, Pairs!DeleteRule, Pairs!WriteRule,
         Pairs!CheckManualLink, Pairs!Reconcile, Pairs!Insert, Pairs!Collide, Pairs!PutSplit, Pairs!DeleteSplit,
         Pairs!DeleteLink, Pairs!PostMerge, Pairs!DeleteMerge, Pairs!Edit, Pairs!vars
<1>4. t \notin Pairs!Members(links) /\ t \in Pairs!Members(links)' BY <1>1, <1>2, <1>3 DEF Pairs!Counted
<1>5. links' # links /\ ~(links' \subseteq links) BY <1>4 DEF Pairs!Members
<1>6. PICK q \in Requests : Pairs!Insert(q)
  BY <1>5
  DEF Pairs!Next, Pairs!Import, Pairs!PostRule, Pairs!PatchRule, Pairs!DeleteRule, Pairs!WriteRule,
      Pairs!CheckManualLink, Pairs!Reconcile, Pairs!Collide,
      Pairs!PutSplit, Pairs!DeleteSplit, Pairs!DeleteLink, Pairs!PostMerge, Pairs!DeleteMerge, Pairs!Edit, Pairs!vars
<1>7. pairing[q].phase = "looked" /\ pairing'[q].phase = "done" BY <1>6 DEF Pairs!Insert, Pairs!IInv, Pairs!IsARequest
<1>8. t \notin pairing[q].splits
  <2>1. PICK l \in links' : t \in l.pair BY <1>4 DEF Pairs!Members
  <2>2. l \in {Pairs!RuleGone(k, q) : k \in Pairs!Standing(q)} \cup Pairs!Inserted(q) BY <1>6, <2>1 DEF Pairs!Insert
  <2>3. ASSUME NEW k \in Pairs!Standing(q), l = Pairs!RuleGone(k, q) PROVE FALSE
    <3>1. k \in links BY DEF Pairs!Standing
    <3>2. Pairs!IsALink(k) BY <3>1 DEF Pairs!IInv
    <3>3. l.pair = k.pair BY <2>3, <3>2 DEF Pairs!RuleGone, Pairs!IsALink
    <3> QED BY <1>4, <2>1, <3>1, <3>3 DEF Pairs!Members
  <2>4. l \in pairing[q].proposed BY <2>2, <2>3 DEF Pairs!Inserted
  <2>5. Pairs!ProposalIsSound(pairing[q]) BY DEF Pairs!IInv
  <2> QED BY <2>1, <2>4, <2>5 DEF Pairs!ProposalIsSound
<1> QED BY <1>7, <1>8

\* A request is refused only for what another one did after it looked, and a transaction
\* that is split is linked only by a request that looked before it was.
THEOREM LinksRespectWhatIsThereHolds ==
  ASSUME RulesAreNumbered
  PROVE  Pairs!Spec => []Pairs!OnlyRivalsCollide /\ [][Pairs!SplitsStayCounted]_(Pairs!vars)
<1>1. Pairs!IInv /\ [Pairs!Next]_(Pairs!vars) => [Pairs!SplitsStayCounted]_(Pairs!vars) BY SplitsCount
<1> QED BY <1>1, PairsInitInv, PairsStepInv, RivalsCollide, PTL DEF Pairs!Spec

-----------------------------------------------------------------------------
(* The imported ledger and the archive of statements.                      *)

CONSTANTS Received, Prints, BankAccounts, Manual, MaxUploads, MaxLinks
VARIABLES archive, accounts, imported, transfers, importing, rebuilding
Imports == INSTANCE StatementLedger WITH Files <- Received, ledger <- imported, links <- transfers

\* What the parameters are.
FilesHaveRows == IsFiniteSet(Received) /\ \A f \in Received : f.rows \in [Prints -> Nat]

LEMMA SameCounts == /\ \A S : Imports!IsFiniteSet(S) <=> IsFiniteSet(S)
                    /\ \A S : Imports!Cardinality(S) = Cardinality(S)
BY DEF Imports!IsFiniteSet, IsFiniteSet, Imports!Cardinality, Cardinality

LEMMA NumberedMeans ==
  \A ids : Imports!Numbered(ids) <=>
      \A p \in Prints : /\ IsFiniteSet(Imports!Copies(ids, p))
                        /\ {id[3] : id \in Imports!Copies(ids, p)} = 1..Cardinality(Imports!Copies(ids, p))
BY SameCounts DEF Imports!Numbered

LEMMA MergeMeans ==
  \A ids, importer, rows : Imports!Merge(ids, importer, rows) =
      ids \cup UNION {{<<importer, p, n>> : n \in (Cardinality(Imports!Copies(ids, p)) + 1)..rows[p]} : p \in Prints}
<1>1. \A ids, p : Imports!Cardinality(Imports!Copies(ids, p)) = Cardinality(Imports!Copies(ids, p)) BY SameCounts
<1> QED BY <1>1 DEF Imports!Merge

LEMMA CoveredMeans ==
  \A ids, f : Imports!Covered(ids, f) <=> \A p \in Prints : Cardinality(Imports!Copies(ids, p)) >= f.rows[p]
BY SameCounts DEF Imports!Covered

\* The rows of a fingerprint that the archived text files have.
RowsIn(ar, p) == [f \in Received |-> ar[f] * f.rows[p]]
TextIn(ar) == {f \in Received : ar[f] > 0 /\ ~f.spreadsheet}
RowsOf(ar, p) == Total(RowsIn(ar, p), TextIn(ar))

ReplayCounts == \A p \in Prints : Imports!Replayed[p] = RowsOf(archive, p)

LEMMA ReplayCountsRows ==
  FilesHaveRows => ReplayCounts
<1> SUFFICES ASSUME FilesHaveRows, NEW p \in Prints PROVE Imports!Replayed[p] = RowsOf(archive, p) BY DEF ReplayCounts
<1> DEFINE h == RowsIn(archive, p)
           S == TextIn(archive)
           chosen == CHOOSE sum : sum = [s \in SUBSET Received |->
                        IF s = {} THEN 0 ELSE archive[Chosen(s)] * Chosen(s).rows[p] + sum[s \ {Chosen(s)}]]
           adds(sum) == sum = [s \in SUBSET Received |->
                        IF s = {} THEN 0 ELSE archive[Chosen(s)] * Chosen(s).rows[p] + sum[s \ {Chosen(s)}]]
<1>1. Imports!Replayed[p] = chosen[S] BY DEF Imports!Replayed, Imports!Listed, Chosen, TextIn
<1>2. \A s \in SUBSET Received : s # {} => Chosen(s) \in s BY DEF Chosen
<1>3. \A s \in SUBSET Received : s # {} => archive[Chosen(s)] * Chosen(s).rows[p] = h[Chosen(s)] BY <1>2 DEF RowsIn
<1>4. S \in SUBSET Received BY DEF TextIn
<1> HIDE DEF h, S
<1>5. \A sum : adds(sum) <=> IsSum(sum, h, Received) BY <1>3 DEF IsSum
<1>6. \E sum : IsSum(sum, h, Received) BY SumExists DEF FilesHaveRows
<1>7. \E sum : adds(sum) BY <1>5, <1>6
<1>8. adds(chosen) BY <1>7
<1> HIDE DEF chosen
<1>9. IsSum(chosen, h, Received) BY <1>5, <1>8
<1> DEFINE own == CHOOSE sum : IsSum(sum, h, S)
<1>10. IsFiniteSet(S) BY <1>4, FS_Subset DEF FilesHaveRows
<1>11. IsSum(own, h, S) BY <1>10, SumExists
<1>12. Total(h, S) = own[S] BY DEF Total
<1>13. Alike(h, h, S) /\ S \in SUBSET S BY DEF Alike
<1> HIDE DEF own
<1>14. chosen[S] = own[S] BY <1>4, <1>9, <1>10, <1>11, <1>13, SumsAgree
<1> QED BY <1>1, <1>12, <1>14 DEF RowsOf, h, S

\* A file that is archived has no more rows than all of them.
LEMMA RowsAreCounted ==
  ASSUME FilesHaveRows, NEW ar \in [Received -> Nat], NEW p \in Prints
  PROVE  RowsOf(ar, p) \in Nat /\ \A f \in TextIn(ar) : f.rows[p] <= RowsOf(ar, p)
<1> DEFINE h == RowsIn(ar, p)
           S == TextIn(ar)
<1>1. S \in SUBSET Received /\ IsFiniteSet(S)
  <2>1. S \in SUBSET Received BY DEF TextIn
  <2> QED BY <2>1, FS_Subset DEF FilesHaveRows
<1>2. ASSUME NEW f \in Received PROVE h[f] \in Nat /\ f.rows[p] \in Nat /\ (ar[f] > 0 => f.rows[p] <= h[f])
  <2>1. ar[f] \in Nat /\ f.rows[p] \in Nat /\ h[f] = ar[f] * f.rows[p] BY DEF FilesHaveRows, RowsIn
  <2> PICK a, b : a = ar[f] /\ b = f.rows[p] OBVIOUS
  <2>2. a * b \in Nat /\ (a > 0 => b <= a * b) BY <2>1, Times
  <2> QED BY <2>1, <2>2
<1> HIDE DEF h
<1>3. \A f \in S : h[f] \in Nat /\ h[f] \in Int BY <1>1, <1>2
<1>4. ASSUME NEW s \in SUBSET S PROVE Total(h, s) \in Nat
  <2>1. IsFiniteSet(s) BY <1>1, FS_Subset
  <2>2. \A f \in s : h[f] \in Int /\ h[f] \in Nat BY <1>3
  <2>3. Total(h, {}) = 0 /\ Total(h, s) \in Int BY <2>1, <2>2, TotalTakes
  <2>4. Total(h, {}) <= Total(h, s) BY <2>1, <2>2, SumOverMore
  <2> QED BY <2>3, <2>4
<1>5. ASSUME NEW f \in S PROVE f.rows[p] <= Total(h, S)
  <2>1. Total(h, S) = h[f] + Total(h, S \ {f}) BY <1>1, <1>3, TotalTakes
  <2>2. Total(h, S \ {f}) \in Nat BY <1>4
  <2>3. f.rows[p] <= h[f] /\ f.rows[p] \in Nat /\ h[f] \in Nat BY <1>1, <1>2 DEF TextIn
  <2> QED BY <2>1, <2>2, <2>3
<1> QED BY <1>4, <1>5 DEF RowsOf, h

LEMMA RowsGrow ==
  ASSUME FilesHaveRows, NEW ar \in [Received -> Nat], NEW more \in [Received -> Nat], \A f \in Received : ar[f] <= more[f],
         NEW p \in Prints
  PROVE  RowsOf(ar, p) <= RowsOf(more, p)
<1> DEFINE h == RowsIn(ar, p)
           k == RowsIn(more, p)
           S == TextIn(ar)
           T == TextIn(more)
<1>1. S \subseteq T /\ T \in SUBSET Received BY DEF TextIn
<1>2. IsFiniteSet(S) /\ IsFiniteSet(T) BY <1>1, FS_Subset DEF FilesHaveRows
<1>3. ASSUME NEW f \in Received PROVE h[f] \in Nat /\ k[f] \in Nat /\ h[f] <= k[f]
  <2>1. /\ ar[f] \in Nat /\ more[f] \in Nat /\ f.rows[p] \in Nat /\ ar[f] <= more[f]
        /\ h[f] = ar[f] * f.rows[p] /\ k[f] = more[f] * f.rows[p]
    BY DEF FilesHaveRows, RowsIn
  <2> PICK a, b, c : a = ar[f] /\ b = f.rows[p] /\ c = more[f] OBVIOUS
  <2>2. a * b \in Nat /\ c * b \in Nat /\ a * b <= c * b BY <2>1, Times
  <2> QED BY <2>1, <2>2
<1> HIDE DEF h, k
<1>4. \A f \in T : h[f] \in Nat /\ k[f] \in Nat /\ h[f] <= k[f] /\ k[f] \in Int /\ h[f] \in Int BY <1>1, <1>3
<1> HIDE DEF S, T
<1>5. Total(h, S) <= Total(k, S) BY <1>1, <1>2, <1>4, SumOfMore
<1>6. Total(k, S) <= Total(k, T) BY <1>1, <1>2, <1>4, SumOverMore
<1>7. Total(h, S) \in Int /\ Total(k, S) \in Int /\ Total(k, T) \in Int BY <1>1, <1>2, <1>4, TotalTakes
<1> QED BY <1>5, <1>6, <1>7 DEF RowsOf, h, k, S, T


\* The copies a merge leaves of a fingerprint: those there are, and the next suffixes.
NextCopies(ids, importer, rows, p) == {<<importer, p, n>> : n \in (Cardinality(Imports!Copies(ids, p)) + 1)..rows[p]}

\* Of r places, those that c copies leave.
PlacesAfter(c, r) == (c + 1)..r

\* What a merge makes of the copies of one fingerprint, and how many it adds.
LEMMA CopiesAreCounted ==
  ASSUME NEW ids, NEW importer, NEW rows \in [Prints -> Nat], NEW p \in Prints, IsFiniteSet(Imports!Copies(ids, p)),
         NEW c, c = Cardinality(Imports!Copies(ids, p)), NEW r, r = rows[p]
  PROVE  /\ Imports!Copies(Imports!Merge(ids, importer, rows), p)
                = Imports!Copies(ids, p) \cup NextCopies(ids, importer, rows, p)
         /\ IsFiniteSet(NextCopies(ids, importer, rows, p))
         /\ Cardinality(NextCopies(ids, importer, rows, p)) = Cardinality(PlacesAfter(c, r))
<1> DEFINE all == Imports!Merge(ids, importer, rows)
<1> PICK old : old = Imports!Copies(ids, p) OBVIOUS
<1> DEFINE copy(n) == <<importer, p, n>>
           new == {copy(n) : n \in (c + 1)..r}
<1>1. c \in Nat /\ r \in Nat /\ NextCopies(ids, importer, rows, p) = new BY FS_CardinalityType DEF NextCopies
<1>2. Imports!Copies(all, p) = old \cup new
  <2>1. all = ids \cup
                 UNION {{<<importer, x, n>> : n \in (Cardinality(Imports!Copies(ids, x)) + 1)..rows[x]} : x \in Prints}
    BY MergeMeans
  <2>2. \A x, n : <<importer, x, n>>[2] = x OBVIOUS
  <2>3. ASSUME NEW id \in all, id[2] = p PROVE id \in old \cup new
    <3>1. CASE id \in ids BY <2>3, <3>1 DEF Imports!Copies
    <3>2. CASE id \notin ids
      <4> PICK x \in Prints : \E n \in (Cardinality(Imports!Copies(ids, x)) + 1)..rows[x] : id = <<importer, x, n>>
        BY <2>1, <3>2
      <4>1. PICK n \in (Cardinality(Imports!Copies(ids, x)) + 1)..rows[x] : id = <<importer, x, n>> OBVIOUS
      <4>2. x = p BY <2>3, <4>1
      <4> QED BY <4>1, <4>2
    <3> QED BY <3>1, <3>2
  <2>4. old \subseteq all BY <2>1 DEF Imports!Copies
  <2>5. new \subseteq all BY <2>1
  <2>6. \A id \in old \cup new : id[2] = p BY DEF Imports!Copies
  <2> HIDE DEF all, new
  <2> QED BY <2>3, <2>4, <2>5, <2>6 DEF Imports!Copies
<1>3. \A n : copy(n)[3] = n OBVIOUS
<1>4. IsFiniteSet((c + 1)..r)
  <2>1. c + 1 \in Int /\ r \in Int BY <1>1
  <2> QED BY <2>1, FS_Interval
<1>5. IsFiniteSet(new) /\ Cardinality(new) = Cardinality((c + 1)..r)
  <2> DEFINE f == [n \in (c + 1)..r |-> copy(n)]
  <2>1. f \in Bijection((c + 1)..r, new)
    <3>1. \A n, m \in (c + 1)..r : f[n] = f[m] => n = m BY <1>3
    <3>2. \A x \in new : \E n \in (c + 1)..r : f[n] = x OBVIOUS
    <3>3. f \in [(c + 1)..r -> new] OBVIOUS
    <3> HIDE DEF f, new
    <3> QED BY <3>1, <3>2, <3>3 DEF Bijection, Injection, Surjection, IsInjective
  <2>2. ExistsBijection((c + 1)..r, new) BY <2>1 DEF ExistsBijection
  <2> HIDE DEF new
  <2> QED BY <1>4, <2>2, FS_Bijection
<1> HIDE DEF all, new
<1>6. PlacesAfter(c, r) = (c + 1)..r BY DEF PlacesAfter
<1> QED BY <1>1, <1>2, <1>5, <1>6 DEF all

\* The same, without the count.
LEMMA CopiesOfMerge ==
  ASSUME NEW ids, NEW importer, NEW rows \in [Prints -> Nat], NEW p \in Prints, IsFiniteSet(Imports!Copies(ids, p))
  PROVE  /\ Imports!Copies(Imports!Merge(ids, importer, rows), p)
                = Imports!Copies(ids, p) \cup NextCopies(ids, importer, rows, p)
         /\ IsFiniteSet(NextCopies(ids, importer, rows, p))
<1> PICK c : c = Cardinality(Imports!Copies(ids, p)) OBVIOUS
<1> PICK r : r = rows[p] OBVIOUS
<1> QED BY CopiesAreCounted

\* Further copies get the suffixes that come next.
LEMMA MergeNumbers ==
  ASSUME NEW ids, Imports!Numbered(ids), NEW importer, NEW rows \in [Prints -> Nat]
  PROVE  Imports!Numbered(Imports!Merge(ids, importer, rows))
<1> DEFINE all == Imports!Merge(ids, importer, rows)
<1> SUFFICES ASSUME NEW p \in Prints
             PROVE  /\ IsFiniteSet(Imports!Copies(all, p))
                    /\ {id[3] : id \in Imports!Copies(all, p)} = 1..Cardinality(Imports!Copies(all, p))
  BY NumberedMeans
<1> PICK old : old = Imports!Copies(ids, p) OBVIOUS
<1> PICK c : c = Cardinality(old) OBVIOUS
<1> PICK r : r = rows[p] OBVIOUS
<1> DEFINE copy(n) == <<importer, p, n>>
           new == {copy(n) : n \in (c + 1)..r}
<1>1. IsFiniteSet(old) /\ {id[3] : id \in old} = 1..c /\ c \in Nat /\ r \in Nat
  BY NumberedMeans, FS_CardinalityType
<1>2. NextCopies(ids, importer, rows, p) = new BY DEF NextCopies
<1>3. \A n : copy(n)[3] = n OBVIOUS
<1>4. Cardinality((c + 1)..r) = IF c + 1 > r THEN 0 ELSE r - (c + 1) + 1
  <2>1. c + 1 \in Int /\ r \in Int BY <1>1
  <2> PICK d : d = c + 1 OBVIOUS
  <2>2. IsFiniteSet(d..r) /\ Cardinality(d..r) = IF d > r THEN 0 ELSE r - d + 1 BY <2>1, FS_Interval
  <2> QED BY <2>2
<1>5. /\ Imports!Copies(all, p) = old \cup new
      /\ IsFiniteSet(new) /\ Cardinality(new) = Cardinality((c + 1)..r)
  <2>1. IsFiniteSet(Imports!Copies(ids, p)) BY <1>1
  <2>2. c = Cardinality(Imports!Copies(ids, p)) OBVIOUS
  <2>3. /\ Imports!Copies(Imports!Merge(ids, importer, rows), p)
               = Imports!Copies(ids, p) \cup NextCopies(ids, importer, rows, p)
        /\ IsFiniteSet(NextCopies(ids, importer, rows, p))
        /\ Cardinality(NextCopies(ids, importer, rows, p)) = Cardinality(PlacesAfter(c, r))
    BY <2>1, <2>2, CopiesAreCounted
  <2>4. PlacesAfter(c, r) = (c + 1)..r BY DEF PlacesAfter
  <2> HIDE DEF new
  <2> QED BY <1>2, <2>3, <2>4
<1>6. old \cap new = {}
  <2> SUFFICES ASSUME NEW id \in old, id \in new PROVE FALSE OBVIOUS
  <2>1. id[3] \in 1..c BY <1>1
  <2>2. id[3] \in (c + 1)..r BY <1>3
  <2> QED BY <1>1, <2>1, <2>2
<1>7. {id[3] : id \in new} = (c + 1)..r
  <2>1. \A id \in new : id[3] \in (c + 1)..r BY <1>3
  <2>2. \A n \in (c + 1)..r : copy(n) \in new OBVIOUS
  <2> HIDE DEF copy, new
  <2> QED BY <1>3, <2>1, <2>2
<1> HIDE DEF new
<1>8. IsFiniteSet(old \cup new) /\ Cardinality(old \cup new) = c + Cardinality(new)
  <2>1. IsFiniteSet(old \cap new) /\ Cardinality(old \cap new) = 0 BY <1>6, FS_EmptySet
  <2>2. Cardinality(old \cup new) = Cardinality(old) + Cardinality(new) - Cardinality(old \cap new)
    BY <1>1, <1>5, FS_Union
  <2>3. Cardinality(new) \in Nat BY <1>5, FS_CardinalityType
  <2> QED BY <1>1, <1>5, <2>1, <2>2, <2>3, FS_Union
<1>9. {id[3] : id \in old \cup new} = (1..c) \cup ((c + 1)..r) BY <1>1, <1>7
<1>10. (1..c) \cup ((c + 1)..r) = 1..Cardinality(old \cup new) BY <1>1, <1>4, <1>5, <1>8
<1> QED BY <1>5, <1>8, <1>9, <1>10

\* What a merge adds.
LEMMA Merged ==
  ASSUME NEW ids, NEW importer, NEW rows \in [Prints -> Nat], \A p \in Prints : IsFiniteSet(Imports!Copies(ids, p))
  PROVE  /\ ids \subseteq Imports!Merge(ids, importer, rows)
         /\ \A id \in Imports!Merge(ids, importer, rows) \ ids :
               /\ id = <<id[1], id[2], id[3]>> /\ id[1] = importer /\ id[2] \in Prints
               /\ id[3] \in Nat \ {0} /\ id[3] <= rows[id[2]]
<1>1. ids \subseteq Imports!Merge(ids, importer, rows) BY MergeMeans
<1>2. ASSUME NEW id \in Imports!Merge(ids, importer, rows) \ ids
      PROVE  /\ id = <<id[1], id[2], id[3]>> /\ id[1] = importer /\ id[2] \in Prints
             /\ id[3] \in Nat \ {0} /\ id[3] <= rows[id[2]]
  <2> PICK p \in Prints : \E n \in (Cardinality(Imports!Copies(ids, p)) + 1)..rows[p] : id = <<importer, p, n>>
    BY MergeMeans
  <2>1. PICK n \in (Cardinality(Imports!Copies(ids, p)) + 1)..rows[p] : id = <<importer, p, n>> OBVIOUS
  <2>2. Cardinality(Imports!Copies(ids, p)) \in Nat BY FS_CardinalityType
  <2>3. rows[p] \in Nat OBVIOUS
  <2>4. n \in Nat \ {0} /\ n <= rows[p] BY <2>1, <2>2, <2>3
  <2> QED BY <2>1, <2>4
<1> QED BY <1>1, <1>2

\* A sound set of ids: ids they are, few of each fingerprint, and archived.
AreIds(ids) == \A id \in ids : Imports!IsAnId(id)
FewCopies(ids) == \A p \in Prints : IsFiniteSet(Imports!Copies(ids, p))

LEMMA SoundMeans ==
  ASSUME NEW ids PROVE Imports!Sound(ids) <=> AreIds(ids) /\ FewCopies(ids) /\ Imports!Archived(ids)
<1>1. \A p : Imports!IsFiniteSet(Imports!Copies(ids, p)) <=> IsFiniteSet(Imports!Copies(ids, p)) BY SameCounts
<1>2. FewCopies(ids) <=> \A p \in Prints : Imports!IsFiniteSet(Imports!Copies(ids, p)) BY <1>1 DEF FewCopies
<1> QED BY <1>2, Zenon DEF Imports!Sound, AreIds

LEMMA MergeIsSound ==
  ASSUME NEW ids, Imports!Sound(ids), NEW importer \in {"bank", "canonical"}, NEW rows \in [Prints -> Nat],
         importer = "bank" => \A p \in Prints : rows[p] <= Imports!Replayed[p] /\ Imports!Replayed[p] \in Nat
  PROVE  Imports!Sound(Imports!Merge(ids, importer, rows)) /\ ids \subseteq Imports!Merge(ids, importer, rows)
<1> PICK all : all = Imports!Merge(ids, importer, rows) OBVIOUS
<1>1. ids \subseteq all /\ \A id \in all \ ids : /\ id = <<id[1], id[2], id[3]>> /\ id[1] = importer /\ id[2] \in Prints
                                               /\ id[3] \in Nat \ {0} /\ id[3] <= rows[id[2]]
  BY Merged, SoundMeans DEF FewCopies
<1>2. ASSUME NEW p \in Prints PROVE IsFiniteSet(Imports!Copies(all, p))
  <2>1. IsFiniteSet(Imports!Copies(ids, p)) BY SoundMeans DEF FewCopies
  <2>2. /\ Imports!Copies(all, p) = Imports!Copies(ids, p) \cup NextCopies(ids, importer, rows, p)
        /\ IsFiniteSet(NextCopies(ids, importer, rows, p))
    BY <2>1, CopiesOfMerge
  <2> QED BY <2>1, <2>2, FS_Union
<1>3. \A id \in all : Imports!IsAnId(id) BY <1>1 DEF Imports!Sound, Imports!IsAnId
<1>4. ASSUME NEW id \in all, id[1] = "bank" PROVE id[3] <= Imports!Replayed[id[2]]
  <2>1. CASE id \in ids BY <1>4, <2>1 DEF Imports!Sound, Imports!Archived
  <2>2. CASE id \notin ids
    <3>1. importer = "bank" /\ id[2] \in Prints /\ id[3] \in Nat /\ id[3] <= rows[id[2]] BY <1>1, <1>4, <2>2
    <3> PICK n, r, k : n = id[3] /\ r = rows[id[2]] /\ k = Imports!Replayed[id[2]] OBVIOUS
    <3>2. n \in Nat /\ r \in Nat /\ k \in Nat /\ n <= r /\ r <= k BY <3>1
    <3> QED BY <3>2
  <2> QED BY <2>1, <2>2
<1>5. Imports!Archived(all) BY <1>4 DEF Imports!Archived
<1> QED BY <1>1, <1>2, <1>3, <1>5, SoundMeans DEF AreIds, FewCopies

LEMMA NothingIsSound == Imports!Sound({}) /\ Imports!Numbered({})
<1>1. \A p : Imports!Copies({}, p) = {} BY DEF Imports!Copies
<1>2. Cardinality({}) = 0 /\ IsFiniteSet({}) BY FS_EmptySet
<1>3. 1..0 = {} /\ {id[3] : id \in {}} = {} OBVIOUS
<1>4. Imports!Numbered({}) BY <1>1, <1>2, <1>3, NumberedMeans
<1>5. Imports!Archived({}) BY DEF Imports!Archived
<1>6. Imports!Sound({}) BY <1>1, <1>2, <1>5, SoundMeans DEF AreIds, FewCopies
<1> QED BY <1>4, <1>6

LEMMA LessIsSound == ASSUME NEW ids, Imports!Sound(ids), NEW less, less \subseteq ids PROVE Imports!Sound(less)
<1>1. \A p : Imports!Copies(less, p) \subseteq Imports!Copies(ids, p) BY DEF Imports!Copies
<1>2. \A p \in Prints : IsFiniteSet(Imports!Copies(less, p)) BY <1>1, SoundMeans, FS_Subset DEF FewCopies
<1>3. AreIds(ids) /\ Imports!Archived(ids) BY SoundMeans
<1>4. Imports!Archived(less) BY <1>3 DEF Imports!Archived
<1>5. AreIds(less) BY <1>3 DEF AreIds
<1> QED BY <1>2, <1>4, <1>5, SoundMeans DEF FewCopies

LEMMA BothAreSound ==
  ASSUME NEW few, Imports!Sound(few), NEW many, Imports!Sound(many)
  PROVE  Imports!Sound(few \cup many)
<1>1. \A p : Imports!Copies(few \cup many, p) = Imports!Copies(few, p) \cup Imports!Copies(many, p)
  BY DEF Imports!Copies
<1>2. ASSUME NEW p \in Prints PROVE IsFiniteSet(Imports!Copies(few \cup many, p))
  <2>1. IsFiniteSet(Imports!Copies(few, p)) /\ IsFiniteSet(Imports!Copies(many, p)) BY SoundMeans DEF FewCopies
  <2>2. IsFiniteSet(Imports!Copies(few, p) \cup Imports!Copies(many, p)) BY <2>1, FS_Union
  <2> QED BY <1>1, <2>2
<1>3. AreIds(few) /\ Imports!Archived(few) BY SoundMeans
<1>4. AreIds(many) /\ Imports!Archived(many) BY SoundMeans
<1>5. Imports!Archived(few \cup many) BY <1>3, <1>4 DEF Imports!Archived
<1>6. AreIds(few \cup many) BY <1>3, <1>4 DEF AreIds
<1> QED BY <1>2, <1>5, <1>6, SoundMeans DEF FewCopies

\* Neither a rebuild's reading nor an import's rows go beyond the archive.
ReplayIsKnown ==
    /\ Imports!Replayed \in [Prints -> Nat]
    /\ \A f \in Imports!Listed, p \in Prints : f.rows[p] <= Imports!Replayed[p]

LEMMA ReplayIsCounted == FilesHaveRows /\ archive \in [Received -> Nat] => ReplayIsKnown
<1> SUFFICES ASSUME FilesHaveRows, archive \in [Received -> Nat] PROVE ReplayIsKnown OBVIOUS
<1>1. \A p \in Prints : Imports!Replayed[p] = RowsOf(archive, p) BY ReplayCountsRows DEF ReplayCounts
<1>2. \A p \in Prints : RowsOf(archive, p) \in Nat /\ \A f \in TextIn(archive) : f.rows[p] <= RowsOf(archive, p)
  BY RowsAreCounted
<1>3. Imports!Replayed = [p \in Prints |-> Imports!Replayed[p]] BY DEF Imports!Replayed
<1>4. Imports!Listed = TextIn(archive) BY DEF Imports!Listed, TextIn
<1> QED BY <1>1, <1>2, <1>3, <1>4 DEF ReplayIsKnown

\* The archive only grows, and what a replay makes with it.
ArchiveGrows ==
    /\ archive \in [Received -> Nat] /\ archive' \in [Received -> Nat]
    /\ \A f \in Received : archive[f] <= archive'[f]

ReplayGrows ==
    \A p \in Prints : /\ Imports!Replayed[p] \in Nat /\ Imports!Replayed'[p] \in Nat
                      /\ Imports!Replayed[p] <= Imports!Replayed'[p]

LEMMA ReplaysGrow == FilesHaveRows /\ ArchiveGrows => ReplayGrows
<1> SUFFICES ASSUME FilesHaveRows, ArchiveGrows, NEW p \in Prints
             PROVE  /\ Imports!Replayed[p] \in Nat /\ Imports!Replayed'[p] \in Nat
                    /\ Imports!Replayed[p] <= Imports!Replayed'[p]
  BY DEF ReplayGrows
<1>1. FilesHaveRows => ReplayCounts' BY ReplayCountsRows, PTL
<1>2. ReplayCounts /\ ReplayCounts' BY <1>1, ReplayCountsRows
<1>3. Imports!Replayed[p] = RowsOf(archive, p) BY <1>2 DEF ReplayCounts
<1>4. Imports!Replayed'[p] = RowsOf(archive', p)
  BY <1>2 DEF ReplayCounts, RowsOf, RowsIn, TextIn, Total, IsSum, Chosen
<1>5. RowsOf(archive, p) \in Nat /\ RowsOf(archive', p) \in Nat BY RowsAreCounted DEF ArchiveGrows
<1>6. RowsOf(archive, p) <= RowsOf(archive', p) BY RowsGrow DEF ArchiveGrows
<1> QED BY <1>3, <1>4, <1>5, <1>6

LEMMA LedgerStaysSound ==
  ASSUME NEW S, Imports!Sound(S), ReplayGrows, imported' = S
  PROVE  Imports!Sound(imported)'
<1>1. ASSUME NEW id \in S, id[1] = "bank" PROVE id[3] <= Imports!Replayed'[id[2]]
  <2>1. id[2] \in Prints /\ id[3] \in Nat /\ id[3] <= Imports!Replayed[id[2]]
    BY <1>1 DEF Imports!Sound, Imports!IsAnId, Imports!Archived
  <2> PICK n, r, k : n = id[3] /\ r = Imports!Replayed[id[2]] /\ k = Imports!Replayed'[id[2]] OBVIOUS
  <2>2. n \in Nat /\ r \in Nat /\ k \in Nat /\ n <= r /\ r <= k BY <2>1 DEF ReplayGrows
  <2> QED BY <2>2
<1> QED BY <1>1 DEF Imports!Sound, Imports!IsAnId, Imports!Copies, Imports!Archived

LEMMA ImportStaysSound ==
  ASSUME NEW S, Imports!Sound(S), ReplayGrows, importing.seen' = S
  PROVE  Imports!Sound(importing.seen)'
<1>1. ASSUME NEW id \in S, id[1] = "bank" PROVE id[3] <= Imports!Replayed'[id[2]]
  <2>1. id[2] \in Prints /\ id[3] \in Nat /\ id[3] <= Imports!Replayed[id[2]]
    BY <1>1 DEF Imports!Sound, Imports!IsAnId, Imports!Archived
  <2> PICK n, r, k : n = id[3] /\ r = Imports!Replayed[id[2]] /\ k = Imports!Replayed'[id[2]] OBVIOUS
  <2>2. n \in Nat /\ r \in Nat /\ k \in Nat /\ n <= r /\ r <= k BY <2>1 DEF ReplayGrows
  <2> QED BY <2>2
<1> QED BY <1>1 DEF Imports!Sound, Imports!IsAnId, Imports!Copies, Imports!Archived

LEMMA RebuildStaysSound ==
  ASSUME NEW S, Imports!Sound(S), ReplayGrows, rebuilding.seen' = S
  PROVE  Imports!Sound(rebuilding.seen)'
<1>1. ASSUME NEW id \in S, id[1] = "bank" PROVE id[3] <= Imports!Replayed'[id[2]]
  <2>1. id[2] \in Prints /\ id[3] \in Nat /\ id[3] <= Imports!Replayed[id[2]]
    BY <1>1 DEF Imports!Sound, Imports!IsAnId, Imports!Archived
  <2> PICK n, r, k : n = id[3] /\ r = Imports!Replayed[id[2]] /\ k = Imports!Replayed'[id[2]] OBVIOUS
  <2>2. n \in Nat /\ r \in Nat /\ k \in Nat /\ n <= r /\ r <= k BY <2>1 DEF ReplayGrows
  <2> QED BY <2>2
<1> QED BY <1>1 DEF Imports!Sound, Imports!IsAnId, Imports!Copies, Imports!Archived

LEMMA IdleIsAJob ==
  /\ Imports!IsAJob(Imports!Idle) /\ Imports!Idle.at = "idle" /\ Imports!Idle.seen = {} /\ Imports!Idle.found = {}
  /\ Imports!Idle.overtaken = FALSE
BY DEF Imports!IsAJob, Imports!Idle

\* A job that another one's write overtakes keeps what it is about, and knows it.
LEMMA OvertakenJobs ==
  ASSUME NEW old, Imports!IsAJob(old), NEW new, new \in Imports!Overtaken(old)
  PROVE  /\ Imports!IsAJob(new) /\ new.at = old.at /\ new.file = old.file /\ new.route = old.route
         /\ new.seen \subseteq old.seen
         /\ old.at \in {"read", "writing"} => new.overtaken
<1>1. CASE old.at \in {"read", "writing"}
  <2>1. PICK lost : new = Imports!Behind(old, lost) BY <1>1 DEF Imports!Overtaken
  <2> QED BY <2>1 DEF Imports!IsAJob, Imports!Behind
<1>2. CASE old.at \notin {"read", "writing"}
  <2>1. new = old BY <1>2 DEF Imports!Overtaken
  <2> QED BY <1>2, <2>1
<1> QED BY <1>1, <1>2

LEMMA StatementsInitInv == FilesHaveRows /\ Imports!Init => Imports!IInv
<1> SUFFICES ASSUME FilesHaveRows, Imports!Init PROVE Imports!IInv OBVIOUS
<1>1. imported = {} /\ importing.seen = {} /\ rebuilding.seen = {} BY IdleIsAJob DEF Imports!Init
<1>2. Imports!Sound(imported) /\ Imports!Sound(importing.seen) /\ Imports!Sound(rebuilding.seen)
  BY <1>1, NothingIsSound
<1>3. archive \in [Received -> Nat] BY DEF Imports!Init
<1>4. Imports!IsAJob(importing) /\ Imports!IsAJob(rebuilding) /\ importing.at = "idle" /\ rebuilding.at = "idle"
  BY IdleIsAJob DEF Imports!Init
<1> QED BY <1>2, <1>3, <1>4 DEF Imports!IInv, Imports!ImportStands, Imports!RebuildStands

\* What an import of a file merges it into stays sound.
LEMMA ImportMerges ==
  ASSUME FilesHaveRows, Imports!IInv, importing.at = "read", NEW importer,
         importer = Imports!Importer(importing.file, importing.route)
  PROVE  /\ Imports!Sound(Imports!Merge(importing.seen, importer, importing.file.rows))
         /\ importer \in {"bank", "canonical"} /\ importing.file.rows \in [Prints -> Nat]
<1> PICK f : f = importing.file OBVIOUS
<1> PICK rows : rows = f.rows OBVIOUS
<1>2. f \in Received /\ archive[f] > 0 /\ (importing.route = "bank" => ~f.spreadsheet) /\ importer # "none"
  BY DEF Imports!IInv, Imports!ImportStands
<1>3. rows \in [Prints -> Nat] BY <1>2 DEF FilesHaveRows
<1>4. importer \in {"bank", "canonical"} BY <1>2 DEF Imports!Importer
<1>5. importer = "bank" => importing.route = "bank" BY DEF Imports!Importer
<1>6. ReplayIsKnown BY ReplayIsCounted DEF Imports!IInv
<1>7. importer = "bank" => \A p \in Prints : rows[p] <= Imports!Replayed[p] /\ Imports!Replayed[p] \in Nat
  BY <1>2, <1>5, <1>6 DEF ReplayIsKnown, Imports!Listed
<1>8. Imports!Sound(importing.seen) BY DEF Imports!IInv
<1>9. Imports!Sound(Imports!Merge(importing.seen, importer, rows)) BY <1>3, <1>4, <1>7, <1>8, MergeIsSound
<1> QED BY <1>3, <1>4, <1>9

\* What a rebuild reads.
LEMMA ReplayMakes ==
  ASSUME FilesHaveRows, Imports!IInv
  PROVE  /\ Imports!Sound(Imports!Merge({}, "bank", Imports!Replayed))
         /\ Imports!Numbered(Imports!Merge({}, "bank", Imports!Replayed))
         /\ \A id \in imported : id[1] = "bank" => id \in Imports!Merge({}, "bank", Imports!Replayed)
<1>1. Imports!Replayed \in [Prints -> Nat] BY ReplayIsCounted DEF Imports!IInv, ReplayIsKnown
<1>2. \A p \in Prints : Imports!Replayed[p] \in Nat /\ Imports!Replayed[p] <= Imports!Replayed[p] BY <1>1
<1>3. Imports!Sound(Imports!Merge({}, "bank", Imports!Replayed)) BY <1>1, <1>2, NothingIsSound, MergeIsSound
<1>4. Imports!Numbered(Imports!Merge({}, "bank", Imports!Replayed)) BY <1>1, NothingIsSound, MergeNumbers
<1>5. ASSUME NEW id \in imported, id[1] = "bank" PROVE id \in Imports!Merge({}, "bank", Imports!Replayed)
  <2> PICK p : p = id[2] OBVIOUS
  <2> PICK n : n = id[3] OBVIOUS
  <2>1. id = <<"bank", p, n>> /\ p \in Prints /\ n \in Nat \ {0} /\ n <= Imports!Replayed[p]
    BY <1>5 DEF Imports!IInv, Imports!Sound, Imports!IsAnId, Imports!Archived
  <2>2. Imports!Copies({}, p) = {} BY DEF Imports!Copies
  <2>3. Cardinality(Imports!Copies({}, p)) + 1 = 1 BY <2>2, FS_EmptySet
  <2>4. n \in 1..Imports!Replayed[p] BY <1>2, <2>1
  <2>5. n \in (Cardinality(Imports!Copies({}, p)) + 1)..Imports!Replayed[p] BY <2>3, <2>4
  <2> QED BY <2>1, <2>5, MergeMeans
<1> QED BY <1>3, <1>4, <1>5

\* What a write leaves.
LEMMA WritesAreSound ==
  ASSUME NEW old, Imports!Sound(old), NEW found, NEW merged, Imports!Sound(merged)
  PROVE  Imports!Sound((old \ found) \cup merged)
<1>1. Imports!Sound(old \ found) BY LessIsSound
<1> QED BY <1>1, BothAreSound

LEMMA StatementsStepInv == FilesHaveRows /\ Imports!IInv /\ [Imports!Next]_(Imports!vars) => Imports!IInv'
<1> SUFFICES ASSUME FilesHaveRows, Imports!IInv, [Imports!Next]_(Imports!vars) PROVE Imports!IInv' OBVIOUS
<1>a. ASSUME UNCHANGED archive PROVE ArchiveGrows BY <1>a DEF ArchiveGrows, Imports!IInv
<1>1. ASSUME NEW f \in Received, NEW route \in {"bank", "canonical"}, Imports!Upload(f, route) PROVE Imports!IInv'
  <2>1. archive' = [archive EXCEPT ![f] = archive[f] + 1] /\ imported' = imported /\ rebuilding' = rebuilding
        /\ importing' = [Imports!Idle EXCEPT !.at = "archived", !.file = f, !.route = route]
        /\ (route = "bank" => ~f.spreadsheet)
    BY <1>1 DEF Imports!Upload, Imports!ledgerVars
  <2>2. archive' \in [Received -> Nat] /\ archive'[f] > 0 /\ ArchiveGrows BY <2>1 DEF Imports!IInv, ArchiveGrows
  <2>3. ReplayGrows BY <2>2, ReplaysGrow
  <2>4. importing'.at = "archived" /\ importing'.file = f /\ importing'.route = route /\ importing'.seen = {}
        /\ Imports!IsAJob(importing')
    BY <2>1, IdleIsAJob DEF Imports!IsAJob, Imports!Idle
  <2>5. Imports!Sound(imported)' BY <2>1, <2>3, LedgerStaysSound DEF Imports!IInv
  <2>6. Imports!Sound(importing.seen)' BY <2>3, <2>4, NothingIsSound, ImportStaysSound
  <2>7. Imports!Sound(rebuilding.seen)' BY <2>1, <2>3, RebuildStaysSound DEF Imports!IInv
  <2>8. Imports!RebuildStands'
    BY <2>1 DEF Imports!IInv, Imports!RebuildStands, Imports!Numbered, Imports!Copies
  <2>9. Imports!ImportStands' BY <2>1, <2>2, <2>4 DEF Imports!ImportStands
  <2> QED BY <2>1, <2>2, <2>4, <2>5, <2>6, <2>7, <2>8, <2>9 DEF Imports!IInv, Imports!IsAJob
<1>r. ASSUME UNCHANGED <<imported, rebuilding>> PROVE Imports!RebuildStands' /\ Imports!IsAJob(rebuilding)'
  BY <1>r DEF Imports!IInv, Imports!RebuildStands, Imports!IsAJob, Imports!Numbered, Imports!Copies
<1>i. ASSUME UNCHANGED <<archive, imported, importing>> PROVE Imports!ImportStands' /\ Imports!IsAJob(importing)'
  BY <1>i DEF Imports!IInv, Imports!ImportStands, Imports!IsAJob
<1>2. CASE Imports!Load
  <2>1. UNCHANGED archive /\ imported' = imported /\ rebuilding' = rebuilding /\ importing.at = "archived"
        /\ importing' = [importing EXCEPT !.at = "read", !.seen = imported]
        /\ Imports!Importer(importing.file, importing.route) # "none"
    BY <1>2 DEF Imports!Load, Imports!ledgerVars
  <2>2. ReplayGrows BY <1>a, <2>1, ReplaysGrow
  <2>3. importing'.at = "read" /\ importing'.file = importing.file /\ importing'.route = importing.route
        /\ importing'.seen = imported /\ Imports!IsAJob(importing')
    BY <2>1 DEF Imports!IInv, Imports!IsAJob
  <2>4. Imports!Sound(imported)' BY <2>1, <2>2, LedgerStaysSound DEF Imports!IInv
  <2>5. Imports!Sound(importing.seen)' BY <2>2, <2>3, ImportStaysSound DEF Imports!IInv
  <2>6. Imports!Sound(rebuilding.seen)' BY <2>1, <2>2, RebuildStaysSound DEF Imports!IInv
  <2>7. Imports!ImportStands' BY <2>1, <2>3 DEF Imports!IInv, Imports!ImportStands, Imports!Importer
  <2> QED BY <1>r, <2>1, <2>3, <2>4, <2>5, <2>6, <2>7 DEF Imports!IInv, Imports!IsAJob
<1>3. CASE Imports!ImportFails
  <2>1. UNCHANGED archive /\ imported' = imported /\ rebuilding' = rebuilding /\ importing' = Imports!Idle
    BY <1>3 DEF Imports!ImportFails, Imports!ledgerVars
  <2>2. ReplayGrows BY <1>a, <2>1, ReplaysGrow
  <2>3. importing'.at = "idle" /\ importing'.seen = {} /\ Imports!IsAJob(importing') BY <2>1, IdleIsAJob
  <2>4. Imports!Sound(imported)' BY <2>1, <2>2, LedgerStaysSound DEF Imports!IInv
  <2>5. Imports!Sound(importing.seen)' BY <2>2, <2>3, NothingIsSound, ImportStaysSound
  <2>6. Imports!Sound(rebuilding.seen)' BY <2>1, <2>2, RebuildStaysSound DEF Imports!IInv
  <2>7. Imports!ImportStands' BY <2>3 DEF Imports!ImportStands
  <2> QED BY <1>r, <2>1, <2>3, <2>4, <2>5, <2>6, <2>7 DEF Imports!IInv, Imports!IsAJob
<1>4. CASE Imports!ImportBegins
  <2> PICK importer : importer = Imports!Importer(importing.file, importing.route) OBVIOUS
  <2> PICK S : S = Imports!Merge(importing.seen, importer, importing.file.rows) OBVIOUS
  <2>1. UNCHANGED archive /\ imported' = imported /\ rebuilding' = rebuilding /\ importing.at = "read"
        /\ importing' = [Imports!Begin(importing) EXCEPT !.seen = S]
    BY <1>4 DEF Imports!ImportBegins, Imports!ledgerVars, Imports!Begin
  <2>2. ReplayGrows BY <1>a, <2>1, ReplaysGrow
  <2>3. /\ importing'.at = "writing" /\ importing'.file = importing.file /\ importing'.route = importing.route
        /\ importing'.seen = S /\ importing'.found = imported /\ importing'.overtaken = importing.overtaken
        /\ Imports!IsAJob(importing')
    BY <2>1 DEF Imports!IInv, Imports!IsAJob, Imports!Begin
  <2>4. Imports!Sound(imported)' BY <2>1, <2>2, LedgerStaysSound DEF Imports!IInv
  <2>5. Imports!Sound(importing.seen)' BY <2>1, <2>2, <2>3, ImportMerges, ImportStaysSound
  <2>6. Imports!Sound(rebuilding.seen)' BY <2>1, <2>2, RebuildStaysSound DEF Imports!IInv
  <2>7. Imports!ImportStands'
    <3>1. ~importing.overtaken => S = Imports!Merge(imported, importer, importing.file.rows)
      BY <2>1 DEF Imports!IInv, Imports!ImportStands
    <3>2. Imports!Importer(importing.file, importing.route)' = importer BY <2>3 DEF Imports!Importer
    <3>4. /\ importing.file \in Received /\ archive[importing.file] > 0 /\ importer # "none"
          /\ (importing.route = "bank" => ~importing.file.spreadsheet)
      BY <2>1 DEF Imports!IInv, Imports!ImportStands
    <3> QED BY <2>1, <2>3, <3>1, <3>2, <3>4 DEF Imports!ImportStands
  <2> QED BY <1>r, <2>1, <2>3, <2>4, <2>5, <2>6, <2>7 DEF Imports!IInv, Imports!IsAJob
<1>5. CASE Imports!ImportWrites
  <2>1. UNCHANGED archive /\ rebuilding' \in Imports!Overtaken(rebuilding) /\ importing' = Imports!Idle
        /\ imported' = (imported \ importing.found) \cup importing.seen
    BY <1>5 DEF Imports!ImportWrites, Imports!Write
  <2>2. ReplayGrows BY <1>a, <2>1, ReplaysGrow
  <2>3. importing'.at = "idle" /\ importing'.seen = {} /\ Imports!IsAJob(importing') BY <2>1, IdleIsAJob
  <2>4. Imports!IsAJob(rebuilding) BY DEF Imports!IInv
  <2>5. /\ rebuilding'.at = rebuilding.at /\ rebuilding'.seen \subseteq rebuilding.seen /\ Imports!IsAJob(rebuilding')
        /\ (rebuilding.at \in {"read", "writing"} => rebuilding'.overtaken)
    BY <2>1, <2>4, OvertakenJobs
  <2>6. Imports!Sound(imported') BY <2>1, WritesAreSound DEF Imports!IInv
  <2>7. Imports!Sound(imported)' BY <2>2, <2>6, LedgerStaysSound
  <2>8. Imports!Sound(importing.seen)' BY <2>2, <2>3, NothingIsSound, ImportStaysSound
  <2>9. Imports!Sound(rebuilding'.seen) BY <2>5, LessIsSound DEF Imports!IInv
  <2>10. Imports!Sound(rebuilding.seen)' BY <2>2, <2>9, RebuildStaysSound
  <2>11. Imports!ImportStands' BY <2>3 DEF Imports!ImportStands
  <2>12. Imports!RebuildStands' BY <2>5 DEF Imports!RebuildStands
  <2> QED BY <2>1, <2>3, <2>5, <2>7, <2>8, <2>10, <2>11, <2>12 DEF Imports!IInv, Imports!IsAJob
<1>6. CASE Imports!RebuildReads
  <2>1. UNCHANGED archive /\ imported' = imported /\ importing' = importing
        /\ rebuilding' = [Imports!Idle EXCEPT !.at = "read", !.seen = Imports!Merge({}, "bank", Imports!Replayed)]
    BY <1>6 DEF Imports!RebuildReads, Imports!ledgerVars
  <2>2. ReplayGrows BY <1>a, <2>1, ReplaysGrow
  <2> PICK S : S = Imports!Merge({}, "bank", Imports!Replayed) OBVIOUS
  <2>3. Imports!Sound(S) /\ Imports!Numbered(S) /\ \A id \in imported : id[1] = "bank" => id \in S BY ReplayMakes
  <2>4. rebuilding'.at = "read" /\ rebuilding'.seen = S /\ Imports!IsAJob(rebuilding')
    BY <2>1 DEF Imports!IsAJob, Imports!Idle
  <2>5. Imports!Sound(imported)' BY <2>1, <2>2, LedgerStaysSound DEF Imports!IInv
  <2>6. Imports!Sound(importing.seen)' BY <2>1, <2>2, ImportStaysSound DEF Imports!IInv
  <2>7. Imports!Sound(rebuilding.seen)' BY <2>2, <2>3, <2>4, RebuildStaysSound
  <2>8. Imports!Numbered(rebuilding.seen)' BY <2>3, <2>4 DEF Imports!Numbered, Imports!Copies
  <2>9. Imports!RebuildStands' BY <2>1, <2>3, <2>4, <2>8 DEF Imports!RebuildStands
  <2> QED BY <1>i, <2>1, <2>4, <2>5, <2>6, <2>7, <2>9 DEF Imports!IInv, Imports!IsAJob
<1>7. CASE Imports!RebuildFails
  <2>1. UNCHANGED archive /\ imported' = imported /\ importing' = importing /\ rebuilding' = Imports!Idle
    BY <1>7 DEF Imports!RebuildFails, Imports!ledgerVars
  <2>2. ReplayGrows BY <1>a, <2>1, ReplaysGrow
  <2>3. rebuilding'.at = "idle" /\ rebuilding'.seen = {} /\ Imports!IsAJob(rebuilding') BY <2>1, IdleIsAJob
  <2>4. Imports!Sound(imported)' BY <2>1, <2>2, LedgerStaysSound DEF Imports!IInv
  <2>5. Imports!Sound(importing.seen)' BY <2>1, <2>2, ImportStaysSound DEF Imports!IInv
  <2>6. Imports!Sound(rebuilding.seen)' BY <2>2, <2>3, NothingIsSound, RebuildStaysSound
  <2>7. Imports!RebuildStands' BY <2>3 DEF Imports!RebuildStands
  <2> QED BY <1>i, <2>1, <2>3, <2>4, <2>5, <2>6, <2>7 DEF Imports!IInv, Imports!IsAJob
<1>8. CASE Imports!RebuildBegins
  <2>1. UNCHANGED archive /\ imported' = imported /\ importing' = importing /\ rebuilding.at = "read"
        /\ rebuilding' = Imports!Begin(rebuilding)
    BY <1>8 DEF Imports!RebuildBegins, Imports!ledgerVars
  <2>2. ReplayGrows BY <1>a, <2>1, ReplaysGrow
  <2>3. /\ rebuilding'.at = "writing" /\ rebuilding'.seen = rebuilding.seen /\ rebuilding'.found = imported
        /\ rebuilding'.overtaken = rebuilding.overtaken /\ Imports!IsAJob(rebuilding')
    BY <2>1 DEF Imports!IInv, Imports!IsAJob, Imports!Begin
  <2>4. Imports!Sound(imported)' BY <2>1, <2>2, LedgerStaysSound DEF Imports!IInv
  <2>5. Imports!Sound(importing.seen)' BY <2>1, <2>2, ImportStaysSound DEF Imports!IInv
  <2>6. Imports!Sound(rebuilding.seen)' BY <2>2, <2>3, RebuildStaysSound DEF Imports!IInv
  <2>7. Imports!Numbered(rebuilding.seen) => Imports!Numbered(rebuilding.seen)'
    BY <2>3 DEF Imports!Numbered, Imports!Copies
  <2>8. Imports!RebuildStands' BY <2>1, <2>3, <2>7 DEF Imports!IInv, Imports!RebuildStands
  <2> QED BY <1>i, <2>1, <2>3, <2>4, <2>5, <2>6, <2>8 DEF Imports!IInv, Imports!IsAJob
<1>9. CASE Imports!RebuildWrites
  <2>1. UNCHANGED archive /\ importing' \in Imports!Overtaken(importing) /\ rebuilding' = Imports!Idle
        /\ imported' = (imported \ rebuilding.found) \cup rebuilding.seen
    BY <1>9 DEF Imports!RebuildWrites, Imports!Write
  <2>2. ReplayGrows BY <1>a, <2>1, ReplaysGrow
  <2>3. rebuilding'.at = "idle" /\ rebuilding'.seen = {} /\ Imports!IsAJob(rebuilding') BY <2>1, IdleIsAJob
  <2>4. Imports!IsAJob(importing) BY DEF Imports!IInv
  <2>5. /\ importing'.at = importing.at /\ importing'.seen \subseteq importing.seen /\ importing'.file = importing.file
        /\ importing'.route = importing.route /\ Imports!IsAJob(importing')
        /\ (importing.at \in {"read", "writing"} => importing'.overtaken)
    BY <2>1, <2>4, OvertakenJobs
  <2>6. Imports!Sound(imported') BY <2>1, WritesAreSound DEF Imports!IInv
  <2>7. Imports!Sound(imported)' BY <2>2, <2>6, LedgerStaysSound
  <2>8. Imports!Sound(importing'.seen) BY <2>5, LessIsSound DEF Imports!IInv
  <2>9. Imports!Sound(importing.seen)' BY <2>2, <2>8, ImportStaysSound
  <2>10. Imports!Sound(rebuilding.seen)' BY <2>2, <2>3, NothingIsSound, RebuildStaysSound
  <2>11. Imports!ImportStands' BY <2>1, <2>5 DEF Imports!IInv, Imports!ImportStands, Imports!Importer
  <2>12. Imports!RebuildStands' BY <2>3 DEF Imports!RebuildStands
  <2> QED BY <2>1, <2>3, <2>5, <2>7, <2>9, <2>10, <2>11, <2>12 DEF Imports!IInv, Imports!IsAJob
<1>10. ASSUME UNCHANGED <<archive, imported, importing, rebuilding>> PROVE Imports!IInv'
  <2>1. ReplayGrows BY <1>a, <1>10, ReplaysGrow
  <2>2. Imports!Sound(imported)' BY <1>10, <2>1, LedgerStaysSound DEF Imports!IInv
  <2>3. Imports!Sound(importing.seen)' BY <1>10, <2>1, ImportStaysSound DEF Imports!IInv
  <2>4. Imports!Sound(rebuilding.seen)' BY <1>10, <2>1, RebuildStaysSound DEF Imports!IInv
  <2> QED BY <1>i, <1>r, <1>10, <2>2, <2>3, <2>4 DEF Imports!IInv
<1>11. ASSUME NEW id \in Imports!Transactions, NEW other \in Imports!Transactions, Imports!Link(id, other)
       PROVE  Imports!IInv'
  BY <1>10, <1>11 DEF Imports!Link
<1>12. ASSUME NEW a \in accounts, Imports!DeleteAccount(a) PROVE Imports!IInv'
  BY <1>10, <1>12 DEF Imports!DeleteAccount, Imports!ledgerVars
<1>13. CASE UNCHANGED Imports!vars BY <1>10, <1>13 DEF Imports!vars, Imports!ledgerVars
<1> QED BY <1>1, <1>2, <1>3, <1>4, <1>5, <1>6, <1>7, <1>8, <1>9, <1>11, <1>12, <1>13 DEF Imports!Next

\* What a job makes that no other one overtook: an import adds to the ledger, a rebuild
\* leaves what it read.
LEMMA ImportAdds ==
  ASSUME FilesHaveRows, Imports!IInv, Imports!ImportWrites, ~importing.overtaken
  PROVE  \E importer : imported' = Imports!Merge(imported, importer, importing.file.rows)
<1>1. importing.at = "writing" /\ imported' = (imported \ importing.found) \cup importing.seen
  BY DEF Imports!ImportWrites, Imports!Write
<1>2. importing.found = imported
      /\ importing.seen = Imports!Merge(imported, Imports!Importer(importing.file, importing.route), importing.file.rows)
  BY <1>1 DEF Imports!IInv, Imports!ImportStands
<1> QED BY <1>1, <1>2

LEMMA RebuildReplaces ==
  ASSUME Imports!IInv, Imports!RebuildWrites, ~rebuilding.overtaken
  PROVE  /\ imported' = rebuilding.seen /\ Imports!Numbered(rebuilding.seen)
         /\ \A id \in imported : id[1] = "bank" => id \in rebuilding.seen
<1>1. rebuilding.at = "writing" /\ imported' = (imported \ rebuilding.found) \cup rebuilding.seen
  BY DEF Imports!RebuildWrites, Imports!Write
<1> QED BY <1>1 DEF Imports!IInv, Imports!RebuildStands

LEMMA FilesOfImports == Imports!IInv /\ Imports!ImportWrites => importing.file \in Received
<1> SUFFICES ASSUME Imports!IInv, Imports!ImportWrites PROVE importing.file \in Received OBVIOUS
<1>1. importing.at = "writing" BY DEF Imports!ImportWrites, Imports!Write
<1> QED BY <1>1 DEF Imports!IInv, Imports!ImportStands

LEMMA OnlyWritesChange ==
  [Imports!Next]_(Imports!vars) => Imports!ImportWrites \/ Imports!RebuildWrites \/ UNCHANGED imported
BY DEF Imports!Next, Imports!vars, Imports!ledgerVars, Imports!Upload, Imports!Load, Imports!ImportFails,
       Imports!ImportBegins, Imports!RebuildReads, Imports!RebuildFails, Imports!RebuildBegins, Imports!Link,
       Imports!DeleteAccount

LEMMA JobsLoseOvertaken ==
  FilesHaveRows /\ Imports!IInv /\ [Imports!Next]_(Imports!vars) => Imports!OnlyOvertakenJobsLose
<1> SUFFICES ASSUME FilesHaveRows, Imports!IInv, [Imports!Next]_(Imports!vars) PROVE Imports!OnlyOvertakenJobsLose
  OBVIOUS
<1>1. CASE Imports!ImportWrites
  <2>1. ~importing.overtaken => imported \subseteq imported' BY <1>1, ImportAdds, MergeMeans
  <2> QED BY <2>1 DEF Imports!OnlyOvertakenJobsLose
<1>2. CASE Imports!RebuildWrites
  <2>1. \A id \in imported : id[1] # "bank" => id[1] = "canonical" BY DEF Imports!IInv, Imports!Sound, Imports!IsAnId
  <2> QED BY <1>2, <2>1, RebuildReplaces DEF Imports!OnlyOvertakenJobsLose
<1>3. CASE UNCHANGED imported BY <1>3 DEF Imports!OnlyOvertakenJobsLose
<1> QED BY <1>1, <1>2, <1>3, OnlyWritesChange

\* Numbered copies are what CopiesAreNumbered says of the ledger.
LEMMA NumberedLedger ==
  /\ Imports!IInv /\ Imports!CopiesAreNumbered => Imports!Numbered(imported)
  /\ Imports!Numbered(imported') => Imports!CopiesAreNumbered'
<1>1. Imports!IInv => \A p \in Prints : Imports!IsFiniteSet(Imports!Copies(imported, p))
  BY DEF Imports!IInv, Imports!Sound
<1>2. Imports!IInv /\ Imports!CopiesAreNumbered => Imports!Numbered(imported)
  BY <1>1 DEF Imports!CopiesAreNumbered, Imports!Numbered
<1>3. Imports!Numbered(imported') => Imports!CopiesAreNumbered'
  BY DEF Imports!CopiesAreNumbered, Imports!Numbered, Imports!Copies
<1> QED BY <1>2, <1>3

LEMMA WritesNumber ==
  FilesHaveRows /\ Imports!IInv /\ [Imports!Next]_(Imports!vars) => Imports!CopiesStayNumbered
<1> SUFFICES ASSUME FilesHaveRows, Imports!IInv, [Imports!Next]_(Imports!vars), Imports!CopiesAreNumbered,
                    ~importing.overtaken, ~rebuilding.overtaken
             PROVE  Imports!CopiesAreNumbered'
  BY DEF Imports!CopiesStayNumbered
<1>1. Imports!Numbered(imported) BY NumberedLedger
<1>2. CASE Imports!ImportWrites
  <2>1. PICK importer : imported' = Imports!Merge(imported, importer, importing.file.rows) BY <1>2, ImportAdds
  <2>2. importing.file.rows \in [Prints -> Nat] BY <1>2, FilesOfImports DEF FilesHaveRows
  <2>3. \A id \in imported : Imports!IsAnId(id) BY DEF Imports!IInv, Imports!Sound
  <2>4. Imports!Numbered(imported') BY <1>1, <2>1, <2>2, <2>3, MergeNumbers
  <2> QED BY <2>4, NumberedLedger
<1>3. CASE Imports!RebuildWrites
  <2>1. Imports!Numbered(imported') BY <1>3, RebuildReplaces
  <2> QED BY <2>1, NumberedLedger
<1>4. CASE UNCHANGED imported BY <1>4 DEF Imports!CopiesAreNumbered, Imports!Copies
<1> QED BY <1>2, <1>3, <1>4, OnlyWritesChange

LEMMA ImportsAddWhatIsMissing == FilesHaveRows /\ Imports!IInv => Imports!ReimportAddsNothing
<1> SUFFICES ASSUME FilesHaveRows, Imports!IInv, Imports!ImportWrites, ~importing.overtaken,
                    Imports!Covered(imported, importing.file)
             PROVE  imported' = imported
  BY DEF Imports!ReimportAddsNothing
<1> PICK f : f = importing.file OBVIOUS
<1>1. PICK importer : imported' = Imports!Merge(imported, importer, f.rows) BY ImportAdds
<1>2. f \in Received BY FilesOfImports
<1>3. ASSUME NEW p \in Prints PROVE (Cardinality(Imports!Copies(imported, p)) + 1)..f.rows[p] = {}
  <2>1. Cardinality(Imports!Copies(imported, p)) \in Nat
    BY SoundMeans, FS_CardinalityType DEF Imports!IInv, FewCopies
  <2>2. f.rows[p] \in Nat BY <1>2 DEF FilesHaveRows
  <2>3. Cardinality(Imports!Copies(imported, p)) >= f.rows[p] BY CoveredMeans
  <2> PICK c, r : c = Cardinality(Imports!Copies(imported, p)) /\ r = f.rows[p] OBVIOUS
  <2>4. c \in Nat /\ r \in Nat /\ c >= r BY <2>1, <2>2, <2>3
  <2>5. (c + 1)..r = {} BY <2>4
  <2> QED BY <2>5
<1>4. \A p \in Prints : {<<importer, p, n>> : n \in (Cardinality(Imports!Copies(imported, p)) + 1)..f.rows[p]} = {}
  BY <1>3
<1>5. Imports!Merge(imported, importer, f.rows) = imported BY <1>4, MergeMeans
<1> QED BY <1>1, <1>5

\* What leaves the ledger leaves it by a job that another one overtook, or was made by the
\* importer that no rebuild replays.
THEOREM OnlyOvertakenJobsLoseHolds ==
  ASSUME FilesHaveRows
  PROVE  Imports!Spec => [][Imports!OnlyOvertakenJobsLose]_(Imports!vars)
<1>1. FilesHaveRows /\ Imports!IInv /\ [Imports!Next]_(Imports!vars) => [Imports!OnlyOvertakenJobsLose]_(Imports!vars)
  BY JobsLoseOvertaken
<1> QED BY <1>1, StatementsInitInv, StatementsStepInv, PTL DEF Imports!Spec

\* Copies that carry the suffixes one to n keep them, unless the write is one that another
\* job's write overtook; and an import of what is there adds nothing.
THEOREM CopiesStayApartHolds ==
  ASSUME FilesHaveRows
  PROVE  Imports!Spec => [][Imports!CopiesStayNumbered /\ Imports!ReimportAddsNothing]_(Imports!vars)
<1>1. FilesHaveRows /\ Imports!IInv /\ [Imports!Next]_(Imports!vars)
         => [Imports!CopiesStayNumbered /\ Imports!ReimportAddsNothing]_(Imports!vars)
  BY WritesNumber, ImportsAddWhatIsMissing
<1> QED BY <1>1, StatementsInitInv, StatementsStepInv, PTL DEF Imports!Spec

-----------------------------------------------------------------------------
(* The exchange rates.                                                     *)

CONSTANTS Money, Base, LastRateDay, Fixings, Rate(_, _), History, Window, MaxFetches, Inquirers, Needs
VARIABLES date, published, cache, legible, copied, fetching, fetches, inquiry
Fx == INSTANCE RateHistory WITH
    Currencies <- Money, LastDay <- LastRateDay, MaxRuns <- MaxFetches, Requests <- Inquirers,
    today <- date, out <- published, file <- cache, readable <- legible, backup <- copied,
    run <- fetching, runs <- fetches, request <- inquiry

\* What the parameters are: days are counted, rates are positive, and a currency that is
\* published again did not pause for longer than the window.
RatesAreKnown ==
    /\ LastRateDay \in Nat /\ History \in Nat /\ Window \in Nat /\ History + 1 <= LastRateDay
    /\ \A c \in Money, d \in Fx!Days : Rate(c, d) \in Nat \ {0}

NoLongPause ==
    \A c \in Money : \A x, y \in Fixings[c] \cap Fx!Days : \A d \in x .. y :
        \E z \in Fixings[c] : z \in (d - Window) .. d

RateOf(os) == [o \in os |-> Rate(o[1], o[2])]

LEMMA MeanAddsUp ==
  ASSUME NEW os, IsFiniteSet(os)
  PROVE  Fx!Mean(os) = <<Total(RateOf(os), os), Cardinality(os)>>
<1> DEFINE h == RateOf(os)
           iter == CHOOSE iter : iter = [s \in SUBSET os |->
                      IF s = {} THEN 0 ELSE Rate(Chosen(s)[1], Chosen(s)[2]) + iter[s \ {Chosen(s)}]]
           adds(f) == f = [s \in SUBSET os |->
                      IF s = {} THEN 0 ELSE Rate(Chosen(s)[1], Chosen(s)[2]) + f[s \ {Chosen(s)}]]
<1>0. Fx!Cardinality(os) = Cardinality(os) BY DEF Fx!Cardinality, Cardinality
<1>1. Fx!Mean(os) = <<iter[os], Cardinality(os)>>
  BY <1>0 DEF Fx!Mean, Fx!MapThenSumSet, Fx!MapThenFoldSet, Chosen
<1>2. \A s \in SUBSET os : s # {} => Chosen(s) \in s BY DEF Chosen
<1>3. \A s \in SUBSET os : s # {} => Rate(Chosen(s)[1], Chosen(s)[2]) = h[Chosen(s)] BY <1>2 DEF RateOf
<1> HIDE DEF h
<1>4. \A f : adds(f) <=> IsSum(f, h, os) BY <1>3 DEF IsSum
<1>5. IsSum(CHOOSE sum : IsSum(sum, h, os), h, os) BY SumExists
<1>6. \E f : adds(f) BY <1>4, <1>5
<1>7. adds(iter) BY <1>6
<1> HIDE DEF iter
<1>8. IsSum(iter, h, os) BY <1>4, <1>7
<1> DEFINE own == CHOOSE sum : IsSum(sum, h, os)
<1>9. IsSum(own, h, os) BY <1>5
<1>10. Total(h, os) = own[os] BY DEF Total
<1>11. Alike(h, h, os) /\ os \in SUBSET os BY DEF Alike
<1> HIDE DEF own
<1>12. iter[os] = own[os] BY <1>8, <1>9, <1>11, SumsAgree
<1> QED BY <1>1, <1>10, <1>12 DEF h

LEMMA MeanIsPositive ==
  ASSUME RatesAreKnown, NEW os, IsFiniteSet(os), os \subseteq Money \X Fx!Days
  PROVE  /\ os # {} => Fx!Mean(os)[1] \in Nat \ {0} /\ Fx!Mean(os)[2] \in Nat \ {0}
         /\ os = {} => Fx!Mean(os) = Fx!Null
<1> DEFINE h == RateOf(os)
<1>1. Fx!Mean(os) = <<Total(h, os), Cardinality(os)>> BY MeanAddsUp
<1>2. \A o \in os : h[o] \in Nat \ {0} BY DEF RatesAreKnown, RateOf
<1> HIDE DEF h
<1>3. \A o \in os : h[o] \in Nat /\ h[o] \in Int BY <1>2
<1>4. ASSUME os # {} PROVE Total(h, os) \in Nat \ {0}
  <2> PICK o \in os : TRUE BY <1>4
  <2>1. Total(h, {}) = 0 /\ Total(h, os) \in Int /\ Total(h, os \ {o}) \in Int
        /\ Total(h, os) = h[o] + Total(h, os \ {o})
    BY <1>3, TotalTakes
  <2>2. IsFiniteSet(os \ {o}) /\ {} \in SUBSET (os \ {o}) /\ \A x \in os \ {o} : h[x] \in Nat BY <1>3, FS_Subset
  <2>3. Total(h, {}) <= Total(h, os \ {o}) BY <2>2, SumOverMore
  <2> QED BY <1>2, <2>1, <2>3
<1>5. os # {} => Cardinality(os) \in Nat \ {0} BY FS_EmptySet, FS_CardinalityType
<1>6. os = {} => Total(h, os) = 0 /\ Cardinality(os) = 0 BY <1>3, TotalTakes, FS_EmptySet
<1> QED BY <1>1, <1>4, <1>5, <1>6 DEF Fx!Null

LEMMA DaysHaveEnds ==
  ASSUME LastRateDay \in Nat, NEW S \in SUBSET Fx!Days, S # {}
  PROVE  /\ Fx!Min(S) \in S /\ \A d \in S : Fx!Min(S) <= d
         /\ Fx!Max(S) \in S /\ \A d \in S : d <= Fx!Max(S)
<1>1. S \in SUBSET Nat BY DEF Fx!Days
<1>2. \E m \in S : \A k \in S : m <= k BY <1>1, LeastNumber
<1> DEFINE T == {LastRateDay - d : d \in S}
<1>3. T \in SUBSET Nat /\ T # {}
  <2>1. \A d \in S : LastRateDay - d \in Nat
    <3> SUFFICES ASSUME NEW d \in S PROVE LastRateDay - d \in Nat OBVIOUS
    <3>1. d \in 1 .. LastRateDay BY DEF Fx!Days
    <3> QED BY <3>1
  <2> QED BY <2>1
<1>4. PICK t \in T : \A k \in T : t <= k BY <1>3, LeastNumber
<1>5. PICK m \in S : t = LastRateDay - m OBVIOUS
<1>6. \A k \in S : LastRateDay - m <= LastRateDay - k BY <1>4, <1>5
<1>7. \A k \in S : k <= m
  <2> SUFFICES ASSUME NEW k \in S PROVE k <= m OBVIOUS
  <2>1. LastRateDay - m <= LastRateDay - k /\ k \in Nat /\ m \in Nat BY <1>1, <1>6
  <2> QED BY <2>1
<1> QED BY <1>2, <1>5, <1>7 DEF Fx!Min, Fx!Max

\* Where a cache begins and ends.
LEMMA CacheEnds ==
  ASSUME RatesAreKnown, NEW h, h \subseteq Money \X Fx!Days, h # {}
  PROVE  /\ Fx!First(h) \in Fx!Days /\ Fx!Last(h) \in Fx!Days
         /\ \E o \in h : o[2] = Fx!First(h)
         /\ \E o \in h : o[2] = Fx!Last(h)
         /\ \A o \in h : Fx!First(h) <= o[2] /\ o[2] <= Fx!Last(h)
<1>1. Fx!DaysOf(h) \in SUBSET Fx!Days /\ Fx!DaysOf(h) # {} BY DEF Fx!DaysOf
<1>2. /\ Fx!First(h) \in Fx!DaysOf(h) /\ \A d \in Fx!DaysOf(h) : Fx!First(h) <= d
      /\ Fx!Last(h) \in Fx!DaysOf(h) /\ \A d \in Fx!DaysOf(h) : d <= Fx!Last(h)
  BY <1>1, DaysHaveEnds DEF Fx!First, Fx!Last, RatesAreKnown
<1>3. \A o \in h : o[2] \in Fx!DaysOf(h) BY DEF Fx!DaysOf
<1>4. \A d \in Fx!DaysOf(h) : \E o \in h : o[2] = d BY DEF Fx!DaysOf
<1> HIDE DEF Fx!DaysOf
<1> QED BY <1>1, <1>2, <1>3, <1>4

LEMMA PublishedIsKnown == Fx!Published \subseteq Money \X Fx!Days
BY DEF Fx!Published

LEMMA CachesAreFinite ==
  ASSUME RatesAreKnown, IsFiniteSet(Money), NEW h, h \subseteq Money \X Fx!Days
  PROVE  IsFiniteSet(h)
<1>1. IsFiniteSet(Fx!Days) BY FS_Interval DEF Fx!Days, RatesAreKnown
<1>2. IsFiniteSet(Money \X Fx!Days) BY <1>1, FS_Product
<1> QED BY <1>2, FS_Subset

\* What is published later is of a later day.
NewsIsLater ==
    /\ Fx!Published \subseteq Fx!Published'
    /\ \A o \in Fx!Published' \ Fx!Published, p \in Fx!Published : p[2] < o[2]

LEMMA NoHoleStays ==
  ASSUME RatesAreKnown, NewsIsLater, NEW h, Fx!HasNoHole(h)
  PROVE  /\ h \subseteq Fx!Published'
         /\ \A o \in Fx!Published' : h # {} /\ o[2] \in Fx!First(h) .. Fx!Last(h) => o \in h
<1>1. ASSUME NEW o \in Fx!Published', h # {}, o[2] \in Fx!First(h) .. Fx!Last(h) PROVE o \in h
  <2>1. h \subseteq Money \X Fx!Days BY PublishedIsKnown DEF Fx!HasNoHole
  <2>2. PICK p \in h : p[2] = Fx!Last(h) BY <1>1, <2>1, CacheEnds
  <2>3. Fx!First(h) \in Fx!Days /\ Fx!Last(h) \in Fx!Days BY <1>1, <2>1, CacheEnds
  <2>4. Fx!First(h) \in Int /\ Fx!Last(h) \in Int BY <2>3 DEF Fx!Days
  <2>5. CASE o \in Fx!Published BY <1>1, <2>5 DEF Fx!HasNoHole
  <2>6. CASE o \notin Fx!Published
    <3>1. p[2] < o[2] BY <2>6 DEF NewsIsLater, Fx!HasNoHole
    <3> QED BY <1>1, <2>2, <2>4, <3>1
  <2> QED BY <2>5, <2>6
<1> QED BY <1>1 DEF NewsIsLater, Fx!HasNoHole

LEMMA FetchFillsTheGap ==
  ASSUME RatesAreKnown, date \in Nat, NEW h, Fx!HasNoHole(h)
  PROVE  Fx!HasNoHole(h \cup {o \in Fx!Published : o[2] >= Fx!Start(h)})
<1> DEFINE more == {o \in Fx!Published : o[2] >= Fx!Start(h)}
           all == h \cup more
<1>1. h \subseteq Fx!Published /\ h \subseteq Money \X Fx!Days
      /\ all \subseteq Money \X Fx!Days /\ all \subseteq Fx!Published
  BY PublishedIsKnown DEF Fx!HasNoHole
<1>2. ASSUME NEW o \in Fx!Published, all # {}, o[2] \in Fx!First(all) .. Fx!Last(all) PROVE o \in all
  <2>1. o[2] \in Fx!Days BY PublishedIsKnown
  <2>2. Fx!First(all) \in Fx!Days /\ Fx!Last(all) \in Fx!Days BY <1>1, <1>2, CacheEnds
  <2>3. PICK p \in all : p[2] = Fx!First(all) BY <1>1, <1>2, CacheEnds
  <2>4. \A d \in Fx!Days : d \in Int BY DEF Fx!Days
  <2>5. Fx!First(all) <= o[2] /\ o[2] \in Int /\ Fx!First(all) \in Int BY <1>2, <2>1, <2>2, <2>4
  <2>6. CASE h = {}
    <3>1. p[2] >= Fx!Start(h) /\ Fx!Start(h) = date - History BY <2>3, <2>6 DEF Fx!Start
    <3>2. date - History \in Int BY DEF RatesAreKnown
    <3>3. o[2] >= Fx!Start(h) BY <2>3, <2>5, <3>1, <3>2
    <3> QED BY <3>3
  <2>7. CASE h # {}
    <3>1. Fx!Start(h) = Fx!Last(h) + 1 BY <2>7 DEF Fx!Start
    <3>2. /\ Fx!First(h) \in Fx!Days /\ Fx!Last(h) \in Fx!Days
          /\ (\A x \in h : Fx!First(h) <= x[2] /\ x[2] <= Fx!Last(h))
          /\ \E x \in h : x[2] = Fx!First(h)
      BY <1>1, <2>7, CacheEnds
    <3>3. Fx!First(h) \in Int /\ Fx!Last(h) \in Int /\ Fx!First(h) <= Fx!Last(h)
      <4>1. Fx!First(h) <= Fx!Last(h) BY <3>2
      <4> QED BY <2>4, <3>2, <4>1
    <3>4. CASE o[2] >= Fx!Start(h) BY <3>4
    <3>5. CASE ~(o[2] >= Fx!Start(h))
      <4>1. o[2] <= Fx!Last(h) BY <2>5, <3>1, <3>3, <3>5
      <4>2. p \in h
        <5>1. ~(p[2] >= Fx!Start(h)) BY <2>3, <2>5, <3>1, <3>3, <3>5
        <5> QED BY <5>1
      <4>3. Fx!First(h) <= o[2] BY <2>3, <2>5, <3>2, <3>3, <4>2
      <4>4. o[2] \in Fx!First(h) .. Fx!Last(h) BY <2>5, <3>3, <4>1, <4>3
      <4>5. o \in h BY <2>7, <4>4 DEF Fx!HasNoHole
      <4> QED BY <4>5
    <3> QED BY <3>4, <3>5
  <2> QED BY <2>6, <2>7
<1> HIDE DEF all
<1>3. Fx!HasNoHole(all) BY <1>1, <1>2 DEF Fx!HasNoHole
<1> QED BY <1>3 DEF all

LEMMA LaterNews == Fx!IInv /\ [Fx!Next]_(Fx!vars) => NewsIsLater
<1> SUFFICES ASSUME Fx!IInv, [Fx!Next]_(Fx!vars) PROVE NewsIsLater OBVIOUS
<1>1. CASE Fx!Publish
  <2>1. date' = date /\ ~published /\ published' /\ date \in Nat BY <1>1 DEF Fx!Publish, Fx!IInv
  <2>2. \A o \in Fx!Published : o[2] < date BY <2>1 DEF Fx!Published
  <2>3. \A o \in Fx!Published' \ Fx!Published : o[2] = date
    <3>1. \A o \in Fx!Published' : /\ o \in Money \X Fx!Days /\ o[2] \in Fixings[o[1]]
                                /\ (o[2] < date \/ o[2] = date)
      BY <2>1 DEF Fx!Published
    <3>2. \A o \in Money \X Fx!Days : o[2] \in Fixings[o[1]] /\ o[2] < date => o \in Fx!Published BY DEF Fx!Published
    <3> QED BY <3>1, <3>2
  <2>4. Fx!Published \subseteq Fx!Published' BY <2>1 DEF Fx!Published
  <2> QED BY <2>2, <2>3, <2>4 DEF NewsIsLater
<1>2. CASE Fx!NextDay
  <2>1. date' = date + 1 /\ published /\ ~published' /\ date \in Nat BY <1>2 DEF Fx!NextDay, Fx!IInv
  <2>2. \A d \in Fx!Days : d < date + 1 <=> d < date \/ d = date BY <2>1 DEF Fx!Days
  <2>3. Fx!Published' = Fx!Published BY <2>1, <2>2 DEF Fx!Published
  <2> QED BY <2>3 DEF NewsIsLater
<1>3. CASE UNCHANGED <<date, published>>
  <2>1. Fx!Published' = Fx!Published BY <1>3 DEF Fx!Published
  <2> QED BY <2>1 DEF NewsIsLater
<1>4. Fx!Publish \/ Fx!NextDay \/ UNCHANGED <<date, published>>
  BY DEF Fx!Next, Fx!vars, Fx!fileVars, Fx!Fetch, Fx!Write, Fx!Backup, Fx!Abort, Fx!Ask, Fx!Answer, Fx!Refuse,
         Fx!Corrupt, Fx!Load
<1> QED BY <1>1, <1>2, <1>3, <1>4

\* What is kept somewhere else is still without a hole.
LEMMA FileStaysWhole ==
  ASSUME RatesAreKnown, NewsIsLater, NEW h, Fx!HasNoHole(h), cache' = h PROVE Fx!HasNoHole(cache)'
BY NoHoleStays DEF Fx!HasNoHole, Fx!First, Fx!Last, Fx!DaysOf, Fx!Min, Fx!Max

LEMMA BackupStaysWhole ==
  ASSUME RatesAreKnown, NewsIsLater, NEW hs, \A h \in hs : Fx!HasNoHole(h), copied' = hs
  PROVE  (\A h \in copied : Fx!HasNoHole(h))'
BY NoHoleStays DEF Fx!HasNoHole, Fx!First, Fx!Last, Fx!DaysOf, Fx!Min, Fx!Max

LEMMA RunsStayWhole ==
  ASSUME RatesAreKnown, NewsIsLater, NEW rs, fetching' = rs,
         \A r \in Runs : rs[r].at = "fetched" => Fx!HasNoHole(rs[r].new)
  PROVE  (\A r \in Runs : fetching[r].at = "fetched" => Fx!HasNoHole(fetching[r].new))'
BY NoHoleStays DEF Fx!HasNoHole, Fx!First, Fx!Last, Fx!DaysOf, Fx!Min, Fx!Max

LEMMA InquiriesStand ==
  ASSUME NewsIsLater, UNCHANGED <<date, published>>, NEW rq, \A q \in Inquirers : Fx!AskedInTime(rq[q]), inquiry' = rq
  PROVE  (\A q \in Inquirers : Fx!AskedInTime(inquiry[q]))'
BY DEF Fx!AskedInTime, NewsIsLater

LEMMA RatesInitInv == RatesAreKnown /\ Fx!Init => Fx!IInv
<1> SUFFICES ASSUME RatesAreKnown, Fx!Init PROVE Fx!IInv OBVIOUS
<1>1. date \in Nat BY DEF Fx!Init, RatesAreKnown
<1>2. published \in BOOLEAN BY DEF Fx!Init
<1>3. Fx!HasNoHole(cache) /\ copied = {} BY DEF Fx!Init, Fx!HasNoHole
<1>4. DOMAIN fetching = Runs /\ DOMAIN inquiry = Inquirers BY DEF Fx!Init
<1>5. \A r \in Runs : fetching[r].at # "fetched" BY DEF Fx!Init, Fx!Idle
<1>6. \A q \in Inquirers : Fx!AskedInTime(inquiry[q]) BY DEF Fx!Init, Fx!AskedInTime, Fx!Quiet
<1> QED BY <1>1, <1>2, <1>3, <1>4, <1>5, <1>6 DEF Fx!IInv

\* What is loaded is the cache or its copied.
LEMMA LoadedIsWhole ==
  ASSUME Fx!IInv, NEW h, Fx!Load(h)
  PROVE  Fx!HasNoHole(h) /\ cache' = h
BY DEF Fx!IInv, Fx!Load, Fx!Loads

LEMMA AskedHasRates ==
  ASSUME RatesAreKnown, IsFiniteSet(Money), Fx!IInv, NEW h, Fx!HasNoHole(h), NEW needed,
         Fx!Current(h, needed \ {Base})
  PROVE  Fx!AskedInTime([at |-> "asking", needed |-> needed, day |-> date])
<1> SUFFICES ASSUME NEW c \in needed \ {Base} PROVE \E o \in Fx!Published : o[1] = c /\ o[2] >= date - Window
  BY DEF Fx!AskedInTime
<1> DEFINE os == {o \in h : o[1] = c /\ o[2] \in (date - Window) .. date}
<1>1. Fx!Mean(os) # Fx!Null BY DEF Fx!Current, Fx!AsOf
<1>2. h \subseteq Fx!Published /\ os \subseteq Money \X Fx!Days BY PublishedIsKnown DEF Fx!HasNoHole
<1>3. IsFiniteSet(os) BY <1>2, CachesAreFinite
<1>4. os # {} BY <1>1, <1>2, <1>3, MeanIsPositive
<1> PICK o \in os : TRUE BY <1>4
<1>5. date \in Int /\ Window \in Int /\ o[2] \in (date - Window) .. date BY DEF Fx!IInv, RatesAreKnown
<1>6. o[2] >= date - Window BY <1>5
<1> QED BY <1>2, <1>6

LEMMA RatesStepInv == RatesAreKnown /\ IsFiniteSet(Money) /\ Fx!IInv /\ [Fx!Next]_(Fx!vars) => Fx!IInv'
<1> SUFFICES ASSUME RatesAreKnown, IsFiniteSet(Money), Fx!IInv, [Fx!Next]_(Fx!vars) PROVE Fx!IInv' OBVIOUS
<1>0. NewsIsLater BY LaterNews
<1>a. Fx!HasNoHole(cache) /\ (\A h \in copied : Fx!HasNoHole(h))
      /\ (\A r \in Runs : fetching[r].at = "fetched" => Fx!HasNoHole(fetching[r].new))
      /\ (\A q \in Inquirers : Fx!AskedInTime(inquiry[q])) /\ date \in Nat /\ published \in BOOLEAN
      /\ DOMAIN fetching = Runs /\ DOMAIN inquiry = Inquirers
  BY DEF Fx!IInv
<1>b. ASSUME UNCHANGED <<date, published, inquiry>> PROVE (\A q \in Inquirers : Fx!AskedInTime(inquiry[q]))'
  BY <1>0, <1>a, <1>b, InquiriesStand
<1>c. ASSUME UNCHANGED copied PROVE (\A h \in copied : Fx!HasNoHole(h))' BY <1>0, <1>a, <1>c, BackupStaysWhole
<1>d. ASSUME UNCHANGED cache PROVE Fx!HasNoHole(cache)' BY <1>0, <1>a, <1>d, FileStaysWhole
<1>e. ASSUME UNCHANGED fetching PROVE (\A r \in Runs : fetching[r].at = "fetched" => Fx!HasNoHole(fetching[r].new))'
  BY <1>0, <1>a, <1>e, RunsStayWhole
<1>1. ASSUME NEW r \in Runs, Fx!Fetch(r) PROVE Fx!IInv'
  <2>1. PICK h : /\ h \in {cache} \cup copied /\ Fx!Load(h)
                 /\ fetching' = IF {o \in Fx!Published : o[2] >= Fx!Start(h)} = {} THEN fetching
                           ELSE [fetching EXCEPT ![r] = [at |-> "fetched",
                                                    new |-> h \cup {o \in Fx!Published : o[2] >= Fx!Start(h)}]]
    BY <1>1 DEF Fx!Fetch
  <2>2. UNCHANGED <<date, published, copied, inquiry>> BY <1>1 DEF Fx!Fetch
  <2>3. Fx!HasNoHole(h) /\ cache' = h BY <2>1, LoadedIsWhole
  <2>4. Fx!HasNoHole(h \cup {o \in Fx!Published : o[2] >= Fx!Start(h)}) BY <1>a, <2>3, FetchFillsTheGap
  <2> PICK rs : rs = fetching' OBVIOUS
  <2> PICK new : new = h \cup {o \in Fx!Published : o[2] >= Fx!Start(h)} OBVIOUS
  <2>5. rs = fetching \/ rs = [fetching EXCEPT ![r] = [at |-> "fetched", new |-> new]] BY <2>1
  <2>6. (\A s \in Runs : rs[s].at = "fetched" => Fx!HasNoHole(rs[s].new)) /\ DOMAIN rs = Runs
    <3>1. Fx!HasNoHole(new) BY <2>4
    <3> PICK fetched : fetched = [at |-> "fetched", new |-> new] OBVIOUS
    <3>2. fetched.new = new OBVIOUS
    <3>3. rs = fetching \/ rs = [fetching EXCEPT ![r] = fetched] BY <2>5
    <3>4. \A s \in Runs : rs[s] = fetching[s] \/ rs[s] = fetched BY <1>a, <3>3
    <3>5. DOMAIN rs = Runs BY <1>a, <3>3
    <3> QED BY <1>a, <3>1, <3>2, <3>4, <3>5
  <2>7. (\A s \in Runs : fetching[s].at = "fetched" => Fx!HasNoHole(fetching[s].new))' BY <1>0, <2>6, RunsStayWhole
  <2>8. Fx!HasNoHole(cache)' BY <1>0, <2>3, FileStaysWhole
  <2> QED BY <1>a, <1>b, <1>c, <2>2, <2>6, <2>7, <2>8 DEF Fx!IInv
<1>2. ASSUME NEW r \in Runs, Fx!Write(r) \/ Fx!Backup(r) \/ Fx!Abort(r) PROVE Fx!IInv'
  <2>1. UNCHANGED <<date, published, inquiry>> BY <1>2 DEF Fx!Write, Fx!Backup, Fx!Abort, Fx!fileVars
  <2> PICK rs : rs = fetching' OBVIOUS
  <2>2. \/ rs = [fetching EXCEPT ![r] = [at |-> "written", new |-> {}]]
        \/ rs = [fetching EXCEPT ![r] = Fx!Idle]
    BY <1>2 DEF Fx!Write, Fx!Backup, Fx!Abort
  <2>3. (\A s \in Runs : rs[s].at = "fetched" => Fx!HasNoHole(rs[s].new)) /\ DOMAIN rs = Runs
    BY <1>a, <2>2 DEF Fx!Idle
  <2>4. (\A s \in Runs : fetching[s].at = "fetched" => Fx!HasNoHole(fetching[s].new))' BY <1>0, <2>3, RunsStayWhole
  <2> PICK h : h = cache' OBVIOUS
  <2>5. Fx!HasNoHole(h) BY <1>2, <1>a DEF Fx!Write, Fx!Backup, Fx!Abort, Fx!fileVars
  <2>6. Fx!HasNoHole(cache)' BY <1>0, <2>5, FileStaysWhole
  <2> PICK hs : hs = copied' OBVIOUS
  <2>7. \A k \in hs : Fx!HasNoHole(k) BY <1>2, <1>a DEF Fx!Write, Fx!Backup, Fx!Abort, Fx!fileVars
  <2>8. (\A k \in copied : Fx!HasNoHole(k))' BY <1>0, <2>7, BackupStaysWhole
  <2> QED BY <1>a, <1>b, <2>1, <2>3, <2>4, <2>6, <2>8 DEF Fx!IInv
<1>3. ASSUME NEW q \in Inquirers, NEW needed \in Needs, Fx!Ask(q, needed) PROVE Fx!IInv'
  <2>1. PICK h : /\ Fx!Load(h)
                 /\ inquiry' = IF Fx!Current(h, needed \ {Base})
                               THEN [inquiry EXCEPT ![q] = [at |-> "asking", needed |-> needed, day |-> date]]
                               ELSE inquiry
    BY <1>3 DEF Fx!Ask
  <2>2. UNCHANGED <<date, published, copied, fetching>> BY <1>3 DEF Fx!Ask
  <2>3. Fx!HasNoHole(h) /\ cache' = h BY <2>1, LoadedIsWhole
  <2> PICK rq : rq = inquiry' OBVIOUS
  <2> PICK a : a = [at |-> "asking", needed |-> needed, day |-> date] OBVIOUS
  <2>4. Fx!Current(h, needed \ {Base}) => Fx!AskedInTime(a) BY <2>3, AskedHasRates
  <2>5. rq = inquiry \/ (Fx!AskedInTime(a) /\ rq = [inquiry EXCEPT ![q] = a]) BY <2>1, <2>4
  <2>6. (\A s \in Inquirers : Fx!AskedInTime(rq[s])) /\ DOMAIN rq = Inquirers BY <1>a, <2>5
  <2>7. (\A s \in Inquirers : Fx!AskedInTime(inquiry[s]))' BY <1>0, <2>2, <2>6, InquiriesStand
  <2>8. Fx!HasNoHole(cache)' BY <1>0, <2>3, FileStaysWhole
  <2> QED BY <1>a, <1>c, <1>e, <2>2, <2>6, <2>7, <2>8 DEF Fx!IInv
<1>4. ASSUME NEW q \in Inquirers, Fx!Answer(q) \/ Fx!Refuse(q) PROVE Fx!IInv'
  <2>1. PICK h : Fx!Load(h) BY <1>4 DEF Fx!Answer, Fx!Refuse
  <2>2. UNCHANGED <<date, published, copied, fetching>> /\ inquiry' = [inquiry EXCEPT ![q] = Fx!Quiet]
    BY <1>4 DEF Fx!Answer, Fx!Refuse
  <2>3. PICK k : Fx!HasNoHole(k) /\ cache' = k BY <2>1, LoadedIsWhole
  <2> PICK rq : rq = inquiry' OBVIOUS
  <2>4. Fx!AskedInTime(Fx!Quiet) BY DEF Fx!AskedInTime, Fx!Quiet
  <2>5. (\A s \in Inquirers : Fx!AskedInTime(rq[s])) /\ DOMAIN rq = Inquirers BY <1>a, <2>2, <2>4
  <2>6. (\A s \in Inquirers : Fx!AskedInTime(inquiry[s]))' BY <1>0, <2>2, <2>5, InquiriesStand
  <2>7. Fx!HasNoHole(cache)' BY <1>0, <2>3, FileStaysWhole
  <2> QED BY <1>a, <1>c, <1>e, <2>2, <2>5, <2>6, <2>7 DEF Fx!IInv
<1>5. CASE Fx!Publish
  <2>1. UNCHANGED <<date, cache, copied, fetching, inquiry>> /\ ~published /\ published'
        /\ \A q \in Inquirers : inquiry[q].at = "asking" => inquiry[q].day = date
    BY <1>5 DEF Fx!Publish, Fx!fileVars
  <2>2. (\A q \in Inquirers : Fx!AskedInTime(inquiry[q]))' BY <1>0, <1>a, <2>1 DEF Fx!AskedInTime, NewsIsLater
  <2>3. published' \in BOOLEAN BY <1>5 DEF Fx!Publish
  <2> QED BY <1>a, <1>c, <1>d, <1>e, <2>1, <2>2, <2>3 DEF Fx!IInv
<1>6. CASE Fx!NextDay
  <2>1. UNCHANGED <<cache, copied, fetching, inquiry>> /\ date' = date + 1 /\ published /\ ~published'
    BY <1>6 DEF Fx!NextDay, Fx!fileVars
  <2>2. (\A q \in Inquirers : Fx!AskedInTime(inquiry[q]))'
    <3>1. ASSUME NEW q \in Inquirers, inquiry[q].at = "asking" PROVE inquiry[q].day = date' - 1
      BY <1>a, <2>1, <3>1 DEF Fx!AskedInTime
    <3> QED BY <1>0, <1>a, <2>1, <3>1 DEF Fx!AskedInTime, NewsIsLater
  <2>3. published' \in BOOLEAN BY <1>6 DEF Fx!NextDay
  <2>4. date' \in Nat BY <1>a, <2>1
  <2> QED BY <1>c, <1>d, <1>e, <1>a, <2>1, <2>2, <2>3, <2>4 DEF Fx!IInv
<1>7. ASSUME UNCHANGED <<date, published, cache, copied, fetching, inquiry>> PROVE Fx!IInv'
  BY <1>a, <1>b, <1>c, <1>d, <1>e, <1>7 DEF Fx!IInv
<1>8. CASE Fx!Corrupt BY <1>7, <1>8 DEF Fx!Corrupt
<1>9. CASE UNCHANGED Fx!vars BY <1>7, <1>9 DEF Fx!vars, Fx!fileVars
<1> QED BY <1>1, <1>2, <1>3, <1>4, <1>5, <1>6, <1>8, <1>9 DEF Fx!Next

LEMMA NoHoleInTheFile == Fx!IInv => Fx!NoHole
BY DEF Fx!IInv, Fx!HasNoHole, Fx!NoHole

\* Somewhere in the window of the cache's last day each currency a inquiry is about has
\* a rate, whichever cache it reads after it has asked.
LEMMA LastDayHasRates ==
  ASSUME RatesAreKnown, NoLongPause, Fx!IInv, NEW h, Fx!HasNoHole(h), NEW a, Fx!AskedInTime(a), a.at = "asking",
         NEW c \in a.needed \ {Base}, \E o \in h : o[1] = c
  PROVE  Fx!Observed(h, c, Fx!Last(h)) # {}
<1>1. h \subseteq Fx!Published /\ h \subseteq Money \X Fx!Days /\ h # {} BY PublishedIsKnown DEF Fx!HasNoHole
<1>2. Fx!First(h) \in Fx!Days /\ Fx!Last(h) \in Fx!Days /\ \A o \in h : Fx!First(h) <= o[2] /\ o[2] <= Fx!Last(h)
  BY <1>1, CacheEnds
<1> PICK l : l = Fx!Last(h) OBVIOUS
<1> PICK f : f = Fx!First(h) OBVIOUS
<1> PICK w : w = Window OBVIOUS
<1>3. \A d \in Fx!Days : d \in Int BY DEF Fx!Days
<1>4. w \in Nat /\ l \in Int /\ f \in Int /\ l \in Fx!Days /\ f \in Fx!Days BY <1>2, <1>3 DEF RatesAreKnown
<1>5. PICK x \in h : x[1] = c OBVIOUS
<1>6. PICK o \in Fx!Published : o[1] = c /\ o[2] >= a.day - w BY DEF Fx!AskedInTime
<1>7. c \in Money /\ x[2] \in Fx!Days /\ o[2] \in Fx!Days /\ x[2] \in Int /\ o[2] \in Int
      /\ x[2] \in Fixings[c] /\ o[2] \in Fixings[c] /\ f <= x[2] /\ x[2] <= l
  BY <1>1, <1>2, <1>3, <1>5, <1>6, PublishedIsKnown DEF Fx!Published
<1>8. SUFFICES \E y \in h : y[1] = c /\ y[2] >= l - w /\ y[2] <= l BY DEF Fx!Observed
<1>9. CASE o[2] <= l
  <2>1. a.day - w <= o[2] /\ l <= a.day /\ a.day \in Int
    <3>1. PICK p \in h : p[2] = l BY <1>1, CacheEnds
    <3>2. p \in Fx!Published BY <1>1, <3>1
    <3>3. date \in Nat BY DEF Fx!IInv
    <3>4. l < date \/ (l = date /\ published) BY <3>1, <3>2 DEF Fx!Published
    <3>5. a.day = date \/ (a.day = date - 1 /\ ~published) BY DEF Fx!AskedInTime
    <3>6. a.day \in Int BY <3>3, <3>5
    <3> QED BY <1>4, <1>6, <3>3, <3>4, <3>5, <3>6
  <2>2. o[2] >= l - w BY <1>4, <1>7, <2>1
  <2>3. CASE f <= o[2]
    <3>1. o[2] \in f .. l BY <1>4, <1>7, <1>9, <2>3
    <3>2. o \in h BY <1>1, <3>1 DEF Fx!HasNoHole
    <3> QED BY <1>6, <1>9, <2>2, <3>2
  <2>4. CASE ~(f <= o[2])
    <3>1. x[2] >= l - w BY <1>4, <1>7, <2>2, <2>4
    <3> QED BY <1>5, <1>7, <3>1
  <2> QED BY <2>3, <2>4
<1>10. CASE ~(o[2] <= l)
  <2>1. l \in x[2] .. o[2] BY <1>4, <1>7, <1>10
  <2>2. PICK z \in Fixings[c] : z \in (l - w) .. l BY <1>7, <2>1 DEF NoLongPause
  <2>3. z \in Int /\ l - w <= z /\ z <= l BY <1>4, <2>2
  <2>4. CASE f <= z
    <3> PICK y : y = <<c, z>> OBVIOUS
    <3>1. z \in Fx!Days
      <4>1. LastRateDay \in Nat /\ f \in 1 .. LastRateDay /\ l \in 1 .. LastRateDay BY <1>4 DEF Fx!Days, RatesAreKnown
      <4>2. z \in 1 .. LastRateDay BY <2>3, <2>4, <4>1
      <4> QED BY <4>2 DEF Fx!Days
    <3>2. y \in Fx!Published
      <4>1. PICK p \in h : p[2] = l BY <1>1, CacheEnds
      <4>2. l < date \/ (l = date /\ published) BY <1>1, <4>1 DEF Fx!Published
      <4>3. date \in Nat BY DEF Fx!IInv
      <4>4. z < date \/ (z = date /\ published) BY <1>4, <2>3, <4>2, <4>3
      <4> QED BY <1>7, <2>2, <3>1, <4>4 DEF Fx!Published
    <3>3. y[2] \in f .. l BY <1>4, <2>3, <2>4
    <3>4. y \in h BY <1>1, <3>2, <3>3 DEF Fx!HasNoHole
    <3> QED BY <2>3, <3>4
  <2>5. CASE ~(f <= z)
    <3>1. x[2] >= l - w BY <1>4, <1>7, <2>3, <2>5
    <3> QED BY <1>5, <1>7, <3>1
  <2> QED BY <2>4, <2>5
<1> QED BY <1>9, <1>10

IsARate(m) == m[1] \in Nat \ {0} /\ m[2] \in Nat \ {0}

\* What a row of a day up to the cache's last is converted at.
LEMMA SeriesHasRates ==
  ASSUME RatesAreKnown, IsFiniteSet(Money), NEW h, h \subseteq Money \X Fx!Days, h # {}, NEW c,
         c = Base \/ Fx!Observed(h, c, Fx!Last(h)) # {}, NEW d \in Fx!Days, d <= Fx!Last(h)
  PROVE  /\ IsARate(Fx!Series(h, c, d))
         /\ Fx!AsOf(h, c, d) # Fx!Null => Fx!AsOf(h, c, d) = Fx!Series(h, c, d)
<1>1. CASE c = Base BY <1>1 DEF IsARate, Fx!Series, Fx!AsOf
<1>2. CASE c # Base
  <2> DEFINE known == {e \in d .. Fx!Last(h) : Fx!Observed(h, c, e) # {}}
             m == Fx!Min(known)
  <2>1. Fx!Last(h) \in Fx!Days BY CacheEnds
  <2>2. d .. Fx!Last(h) \subseteq Fx!Days /\ Fx!Last(h) \in d .. Fx!Last(h)
    <3>1. LastRateDay \in Nat BY DEF RatesAreKnown
    <3>2. d \in Int /\ Fx!Last(h) \in Int /\ 1 <= d /\ Fx!Last(h) <= LastRateDay BY <2>1, <3>1 DEF Fx!Days
    <3> QED BY <3>1, <3>2 DEF Fx!Days
  <2>3. known \subseteq Fx!Days /\ Fx!Last(h) \in known BY <1>2, <2>2
  <2>4. m \in known /\ \A e \in known : m <= e BY <2>3, DaysHaveEnds DEF RatesAreKnown
  <2>5. Fx!Series(h, c, d) = Fx!Mean(Fx!Observed(h, c, m)) BY <1>2, <2>3 DEF Fx!Series
  <2>6. \A e : Fx!Observed(h, c, e) \subseteq Money \X Fx!Days /\ IsFiniteSet(Fx!Observed(h, c, e))
    <3>1. \A e : Fx!Observed(h, c, e) \subseteq h BY DEF Fx!Observed
    <3> QED BY <3>1, CachesAreFinite, FS_Subset
  <2>7. IsARate(Fx!Series(h, c, d)) BY <2>4, <2>5, <2>6, MeanIsPositive DEF IsARate
  <2>8. ASSUME Fx!AsOf(h, c, d) # Fx!Null PROVE Fx!AsOf(h, c, d) = Fx!Series(h, c, d)
    <3> DEFINE os == {o \in h : o[1] = c /\ o[2] \in (d - Window) .. d}
    <3>1. Fx!AsOf(h, c, d) = Fx!Mean(os) BY <1>2 DEF Fx!AsOf
    <3>2. os = Fx!Observed(h, c, d)
      <4>1. \A o \in h : o[2] \in Int BY DEF Fx!Days
      <4>2. d \in Int /\ Window \in Int BY DEF Fx!Days, RatesAreKnown
      <4>3. \A x \in Int : x \in (d - Window) .. d <=> x >= d - Window /\ x <= d BY <4>2
      <4> QED BY <4>1, <4>3 DEF Fx!Observed
    <3>3. Fx!Observed(h, c, d) # {} BY <2>6, <2>8, <3>1, <3>2, MeanIsPositive
    <3>4. d \in Int /\ \A e \in known : e \in Int /\ d <= e BY <2>1 DEF Fx!Days
    <3>5. d \in known
      <4>1. d \in d .. Fx!Last(h) BY <2>1 DEF Fx!Days
      <4> QED BY <3>3, <4>1
    <3>6. m <= d /\ d <= m /\ m \in Int BY <2>4, <3>4, <3>5
    <3>7. m = d BY <3>4, <3>6
    <3> QED BY <2>5, <3>1, <3>2, <3>7
  <2> QED BY <2>7, <2>8
<1> QED BY <1>1, <1>2

LEMMA RateProducts ==
  ASSUME NEW a \in Nat \ {0}, NEW b \in Nat \ {0}, NEW c \in Nat \ {0}, NEW e \in Nat \ {0}
  PROVE  /\ a * b \in Nat /\ a * b > 0
         /\ (a * b) * e * c = (e * c) * a * b
OBVIOUS

LEMMA RequestsGetTheirRates ==
  RatesAreKnown /\ NoLongPause /\ IsFiniteSet(Money) /\ Fx!IInv => Fx!RequestsAreConverted
<1> SUFFICES ASSUME RatesAreKnown, NoLongPause, IsFiniteSet(Money), Fx!IInv, NEW q \in Inquirers, Fx!Answer(q),
                    inquiry[q].needed # {Base}
             PROVE  Fx!RowsAreConverted(cache', inquiry[q].needed)
  BY DEF Fx!RequestsAreConverted
<1> PICK a : a = inquiry[q] OBVIOUS
<1>1. PICK h : /\ a.at = "asking" /\ Fx!Load(h) /\ \A c \in a.needed \ {Base} : \E o \in h : o[1] = c BY DEF Fx!Answer
<1>2. Fx!HasNoHole(h) /\ cache' = h BY <1>1, LoadedIsWhole
<1>3. h \subseteq Money \X Fx!Days BY <1>2, PublishedIsKnown DEF Fx!HasNoHole
<1>4. Fx!AskedInTime(a) BY DEF Fx!IInv
<1>5. \A c \in a.needed : c = Base \/ Fx!Observed(h, c, Fx!Last(h)) # {} BY <1>1, <1>2, <1>4, LastDayHasRates
<1> SUFFICES Fx!RowsAreConverted(h, a.needed) BY <1>2
<1>6. SUFFICES ASSUME NEW c \in a.needed, NEW to \in a.needed, NEW d \in 0 .. LastRateDay + 1
               PROVE  LET rate == Fx!Converted(h, c, to, d)
                          own == Fx!AsOf(h, c, Fx!Clip(h, d))
                          into == Fx!AsOf(h, to, Fx!Clip(h, d))
                      IN  /\ rate[1] > 0 /\ rate[2] > 0
                          /\ c = to => rate[1] = rate[2]
                          /\ Fx!Null \notin {own, into} => rate[1] * own[2] * into[1] = rate[2] * own[1] * into[2]
  BY DEF Fx!RowsAreConverted
<1>7. h # {}
  <2>1. a.needed # {} BY <1>6
  <2>2. a.needed \ {Base} # {} BY <2>1
  <2> QED BY <1>1, <2>2
<1> PICK e : e = Fx!Clip(h, d) OBVIOUS
<1>8. e \in Fx!Days /\ e <= Fx!Last(h)
  <2>1. Fx!First(h) \in Fx!Days /\ Fx!Last(h) \in Fx!Days /\ Fx!First(h) <= Fx!Last(h)
    <3>1. PICK o \in h : o[2] = Fx!Last(h) BY <1>3, <1>7, CacheEnds
    <3> QED BY <1>3, <1>7, <3>1, CacheEnds
  <2>2. LastRateDay \in Nat BY DEF RatesAreKnown
  <2> PICK f, l : f = Fx!First(h) /\ l = Fx!Last(h) OBVIOUS
  <2>3. f \in 1 .. LastRateDay /\ l \in 1 .. LastRateDay /\ f <= l BY <2>1 DEF Fx!Days
  <2>4. e = IF d < f THEN f ELSE IF d > l THEN l ELSE d BY DEF Fx!Clip
  <2>5. e \in 1 .. LastRateDay /\ e <= l BY <2>2, <2>3, <2>4
  <2> QED BY <2>5 DEF Fx!Days
<1> PICK s, t : s = Fx!Series(h, c, e) /\ t = Fx!Series(h, to, e) OBVIOUS
<1>9. IsARate(s) /\ (Fx!AsOf(h, c, e) # Fx!Null => Fx!AsOf(h, c, e) = s) BY <1>3, <1>5, <1>7, <1>8, SeriesHasRates
<1>10. IsARate(t) /\ (Fx!AsOf(h, to, e) # Fx!Null => Fx!AsOf(h, to, e) = t) BY <1>3, <1>5, <1>7, <1>8, SeriesHasRates
<1>11. Fx!Converted(h, c, to, d) = <<s[1] * t[2], s[2] * t[1]>> BY DEF Fx!Converted
<1> PICK s1, s2, t1, t2 : s1 = s[1] /\ s2 = s[2] /\ t1 = t[1] /\ t2 = t[2] OBVIOUS
<1>12. s1 \in Nat \ {0} /\ s2 \in Nat \ {0} /\ t1 \in Nat \ {0} /\ t2 \in Nat \ {0} BY <1>9, <1>10 DEF IsARate
<1>13. s1 * t2 > 0 /\ s2 * t1 > 0 /\ (s1 * t2) * s2 * t1 = (s2 * t1) * s1 * t2 BY <1>12, RateProducts
<1>14. c = to => s1 * t2 = s2 * t1
  <2>1. s1 * s2 = s2 * s1 BY <1>12
  <2> QED BY <2>1
<1> PICK rate : rate = Fx!Converted(h, c, to, d) OBVIOUS
<1>15. rate[1] = s1 * t2 /\ rate[2] = s2 * t1 BY <1>11
<1>16. rate[1] > 0 /\ rate[2] > 0 /\ (c = to => rate[1] = rate[2]) BY <1>13, <1>14, <1>15
<1>17. ASSUME Fx!Null \notin {Fx!AsOf(h, c, e), Fx!AsOf(h, to, e)}
       PROVE  rate[1] * Fx!AsOf(h, c, e)[2] * Fx!AsOf(h, to, e)[1] =
              rate[2] * Fx!AsOf(h, c, e)[1] * Fx!AsOf(h, to, e)[2]
  <2>1. Fx!AsOf(h, c, e) = s /\ Fx!AsOf(h, to, e) = t BY <1>9, <1>10, <1>17
  <2>2. rate[1] * s2 * t1 = rate[2] * s1 * t2 BY <1>13, <1>15
  <2> QED BY <2>1, <2>2
<1> QED BY <1>16, <1>17

\* Between the first and the last day of the cache every rate published is in it, and a
\* request that is not refused converts every row, whatever its day, at the rates of that
\* day.
THEOREM EveryAmountHasARateHolds ==
  ASSUME RatesAreKnown, NoLongPause, IsFiniteSet(Money)
  PROVE  Fx!Spec => []Fx!NoHole /\ [][Fx!RequestsAreConverted]_(Fx!vars)
<1>1. RatesAreKnown /\ NoLongPause /\ IsFiniteSet(Money) /\ Fx!IInv
         => [Fx!RequestsAreConverted]_(Fx!vars)
  BY RequestsGetTheirRates
<1> QED BY <1>1, RatesInitInv, RatesStepInv, NoHoleInTheFile, PTL DEF Fx!Spec

-----------------------------------------------------------------------------
(* Provisioning.                                                           *)

CONSTANTS Accounts, Threads, Webhook, NoUser, MaxAttempts
VARIABLES clerk, users, identity, worker, attempts, events, ended
Users == INSTANCE Provisioning

\* What the parameters are: attempts are counted, and NoUser names no user.
UserParameters == MaxAttempts \in Nat /\ NoUser \notin Users!Users

LEMMA UserInitInv == UserParameters /\ Users!Init => Users!IInv
<1> SUFFICES ASSUME UserParameters, Users!Init PROVE Users!IInv OBVIOUS
<1>1. Users!TypeOK /\ Users!LinksStay /\ Users!OneUserPerAccount /\ Users!EndedUsersAreInactive
  BY DEF Users!Init, Users!TypeOK, Users!LinksStay, Users!OneUserPerAccount, Users!EndedUsersAreInactive,
         Users!AtRest, Users!Held
<1>2. \A w \in Users!Workers, a \in Accounts, n \in 1..MaxAttempts : users[<<w, a, n>>] = "none"
  BY DEF Users!Init, Users!Users
<1>3. Users!WorkersHoldFreshIds
  BY <1>2 DEF Users!Init, Users!WorkersHoldFreshIds, Users!AtRest, UserParameters
<1> QED
  BY <1>1, <1>3 DEF Users!IInv

\* The parts of an id.
LEMMA UserIdParts ==
  ASSUME NEW u \in Users!Users
  PROVE  u[1] \in Users!Workers /\ u[2] \in Accounts /\ u[3] \in 1..MaxAttempts /\ u = <<u[1], u[2], u[3]>>
  BY DEF Users!Users

\* Steps that move a worker and no row: it goes where what it holds is what it should be.
LEMMA UserMoveInv ==
  ASSUME Users!IInv, UNCHANGED <<users, identity, attempts, ended>>, NEW w \in Users!Workers, NEW r,
         worker' = [worker EXCEPT ![w] = r],
         r \in [at : {"idle", "confirming", "provision", "deactivating"}, account : Accounts \cup {NoUser},
                user : Users!Users \cup {NoUser}, answer : Users!Users \cup {NoUser}],
         r.at # "idle" \/ r.answer # NoUser => r.account \in Accounts,
         r.at = "deactivating" => identity[r.account] = r.user /\ r.user # NoUser,
         r.answer # NoUser => identity[r.account] = r.answer
  PROVE  Users!IInv'
<1> USE DEF Users!IInv, Users!Workers
<1>1. Users!TypeOK' BY DEF Users!TypeOK, Users!WorkersHoldFreshIds
<1>2. Users!WorkersHoldFreshIds' BY DEF Users!WorkersHoldFreshIds
<1>3. Users!LinksStay' BY DEF Users!LinksStay, Users!WorkersHoldFreshIds, Users!Held
<1>4. Users!OneUserPerAccount' BY DEF Users!OneUserPerAccount, Users!WorkersHoldFreshIds
<1>5. Users!EndedUsersAreInactive' BY DEF Users!EndedUsersAreInactive
<1> QED BY <1>1, <1>2, <1>3, <1>4, <1>5

\* Where it goes, in the code's three ways.
LEMMA UserRestInv ==
  ASSUME Users!IInv, UNCHANGED <<users, identity, attempts, ended>>, NEW w \in Users!Workers, worker' = [worker EXCEPT ![w] = Users!AtRest]
  PROVE  Users!IInv'
BY UserMoveInv DEF Users!AtRest

LEMMA UserAnsweredInv ==
  ASSUME Users!IInv, UNCHANGED <<users, identity, attempts, ended>>, NEW w \in Users!Workers, NEW a \in Accounts,
         worker' = [worker EXCEPT ![w] = Users!Answered(a, identity[a])]
  PROVE  Users!IInv'
<1>1. identity[a] \in Users!Users \cup {NoUser} BY DEF Users!IInv, Users!TypeOK
<1> QED BY <1>1, UserMoveInv DEF Users!Answered

LEMMA UserWorkingInv ==
  ASSUME Users!IInv, UNCHANGED <<users, identity, attempts, ended>>, NEW w \in Users!Workers, NEW a \in Accounts,
         NEW at \in {"confirming", "provision", "deactivating"}, NEW u \in Users!Users \cup {NoUser},
         at = "deactivating" => identity[a] = u /\ u # NoUser,
         worker' = [worker EXCEPT ![w] = Users!Working(at, a, u)]
  PROVE  Users!IInv'
<1> DEFINE r == Users!Working(at, a, u)
<1>1. /\ r \in [at : {"idle", "confirming", "provision", "deactivating"}, account : Accounts \cup {NoUser},
                user : Users!Users \cup {NoUser}, answer : Users!Users \cup {NoUser}]
      /\ r.at = at /\ r.account = a /\ r.user = u /\ r.answer = NoUser
  BY DEF Users!Working
<1>2. worker' = [worker EXCEPT ![w] = r] OBVIOUS
<1> HIDE DEF r
<1> QED BY <1>1, <1>2, UserMoveInv

\* Requests and deliveries, up to the insert of a user.
LEMMA UserRequestInv ==
  ASSUME UserParameters, Users!IInv, NEW t \in Threads,
         Users!Confirm(t) \/ Users!ConfirmFails(t) \/ \E a \in Accounts : Users!SignIn(t, a)
  PROVE  Users!IInv'
<1>0. /\ t \in Users!Workers
      /\ worker[t] \in [at : {"idle", "confirming", "provision", "inserted", "linked", "deactivating"},
                        account : Accounts \cup {NoUser}, user : Users!Users \cup {NoUser}, answer : Users!Users \cup {NoUser}]
  BY DEF Users!IInv, Users!WorkersHoldFreshIds, Users!Workers
<1>1. CASE Users!Confirm(t)
  <2>1. CASE clerk[worker[t].account] = "live"
    <3>1. worker' = [worker EXCEPT ![t] = [worker[t] EXCEPT !.at = "provision"]]
      BY <1>0, <1>1, <2>1 DEF Users!Confirm, Users!Go, Users!IInv, Users!WorkersHoldFreshIds
    <3> QED
      BY <1>0, <1>1, <3>1, UserMoveInv DEF Users!Confirm, Users!IInv, Users!WorkersHoldFreshIds,
         Users!OneUserPerAccount
  <2>2. CASE clerk[worker[t].account] # "live"
    BY <1>0, <1>1, <2>2, UserRestInv DEF Users!Confirm
  <2> QED BY <2>1, <2>2
<1>2. CASE Users!ConfirmFails(t)
  BY <1>0, <1>2, UserRestInv DEF Users!ConfirmFails
<1>3. ASSUME NEW a \in Accounts, Users!SignIn(t, a) PROVE Users!IInv'
  <2>1. CASE identity[a] # NoUser
    BY <1>0, <1>3, <2>1, UserAnsweredInv DEF Users!SignIn
  <2>2. CASE identity[a] = NoUser
    <3>1. /\ worker' = [worker EXCEPT ![t] = Users!Working("confirming", a, NoUser)]
          /\ UNCHANGED <<users, identity, attempts, ended>>
      BY <1>3, <2>2 DEF Users!SignIn
    <3> QED BY <1>0, <3>1, UserWorkingInv
  <2> QED BY <2>1, <2>2
<1> QED BY <1>1, <1>2, <1>3

LEMMA UserDeliveryInv ==
  ASSUME UserParameters, Users!IInv, NEW a \in Accounts, Users!Created(a) \/ Users!Deleted(a)
  PROVE  Users!IInv'
<1>0. Webhook \in Users!Workers /\ identity[a] \in Users!Users \cup {NoUser}
  BY DEF Users!IInv, Users!TypeOK, Users!Workers
<1>1. CASE Users!Created(a)
  <2>1. worker' = [worker EXCEPT ![Webhook] = Users!Working("provision", a, NoUser)] BY <1>1 DEF Users!Created
  <2> QED BY <1>0, <1>1, <2>1, UserWorkingInv DEF Users!Created
<1>2. CASE Users!Deleted(a) /\ identity[a] = NoUser
  BY <1>0, <1>2, UserRestInv DEF Users!Deleted
<1>3. CASE Users!Deleted(a) /\ identity[a] # NoUser
  <2>1. worker' = [worker EXCEPT ![Webhook] = Users!Working("deactivating", a, identity[a])] BY <1>3 DEF Users!Deleted
  <2> QED BY <1>0, <1>3, <2>1, UserWorkingInv DEF Users!Deleted
<1> QED BY <1>1, <1>2, <1>3

\* The user a worker inserts is new.
LEMMA UserProvisionInv ==
  ASSUME UserParameters, Users!IInv, NEW w \in Users!Workers, Users!Provision(w)
  PROVE  Users!IInv'
<1> DEFINE a == worker[w].account
<1>0. /\ a \in Accounts /\ identity[a] \in Users!Users \cup {NoUser} /\ attempts[w] \in Nat
      /\ worker[w] \in [at : {"idle", "confirming", "provision", "inserted", "linked", "deactivating"},
                        account : Accounts \cup {NoUser}, user : Users!Users \cup {NoUser}, answer : Users!Users \cup {NoUser}]
  BY DEF Users!Provision, Users!IInv, Users!TypeOK, Users!WorkersHoldFreshIds, UserParameters
<1>1. CASE identity[a] # NoUser
  BY <1>0, <1>1, UserAnsweredInv DEF Users!Provision
<1>2. CASE identity[a] = NoUser
  <2> DEFINE u == <<w, a, attempts[w] + 1>>
  <2>1. /\ UNCHANGED <<users, identity, ended>> /\ attempts[w] < MaxAttempts
        /\ attempts' = [attempts EXCEPT ![w] = @ + 1]
        /\ worker' = [worker EXCEPT ![w] = Users!Working("inserted", a, u)]
    BY <1>2 DEF Users!Provision
  <2>2. u \in Users!Users /\ attempts[w] + 1 \in 1..MaxAttempts BY <1>0, <2>1 DEF Users!Users, UserParameters
  <2>3. users[u] = "none" BY <1>0, <2>2 DEF Users!IInv, Users!WorkersHoldFreshIds
  <2> HIDE DEF u
  <2>4. Users!TypeOK' BY <1>0, <2>1, <2>2 DEF Users!IInv, Users!TypeOK, Users!WorkersHoldFreshIds, Users!Working
  <2>5. Users!WorkersHoldFreshIds'
    <3>1. worker' \in [Users!Workers -> [at : {"idle", "confirming", "provision", "inserted", "linked", "deactivating"},
                                   account : Accounts \cup {NoUser}, user : Users!Users \cup {NoUser},
                                   answer : Users!Users \cup {NoUser}]]
      BY <1>0, <2>1, <2>2 DEF Users!IInv, Users!WorkersHoldFreshIds, Users!Working
    <3>2. attempts' \in [Users!Workers -> 0..MaxAttempts]
      BY <2>1, <2>2 DEF Users!IInv, Users!WorkersHoldFreshIds, UserParameters
    <3>3. ASSUME NEW v \in Users!Workers
          PROVE  /\ worker'[v].at # "idle" \/ worker'[v].answer # NoUser => worker'[v].account \in Accounts
                 /\ worker'[v].at \in {"inserted", "linked"} =>
                       /\ attempts'[v] > 0
                       /\ worker'[v].user = <<v, worker'[v].account, attempts'[v]>>
                       /\ users'[worker'[v].user] = "none"
      <4>1. CASE v = w BY <1>0, <2>1, <2>3, <4>1 DEF Users!IInv, Users!WorkersHoldFreshIds, u, Users!Working
      <4>2. CASE v # w BY <2>1, <4>2 DEF Users!IInv, Users!WorkersHoldFreshIds
      <4> QED BY <4>1, <4>2
    <3>4. \A v \in Users!Workers, b \in Accounts, n \in 1..MaxAttempts : n > attempts'[v] => users'[<<v, b, n>>] = "none"
      BY <1>0, <2>1 DEF Users!IInv, Users!WorkersHoldFreshIds, UserParameters
    <3> QED BY <3>1, <3>2, <3>3, <3>4 DEF Users!WorkersHoldFreshIds
  <2>6. Users!LinksStay'
    BY <1>0, <2>1 DEF Users!IInv, Users!LinksStay, Users!WorkersHoldFreshIds, Users!Held, Users!Working
  <2>7. Users!OneUserPerAccount'
    BY <1>0, <2>1 DEF Users!IInv, Users!OneUserPerAccount, Users!WorkersHoldFreshIds, Users!Working
  <2>8. Users!EndedUsersAreInactive' BY <2>1 DEF Users!IInv, Users!EndedUsersAreInactive
  <2> QED BY <2>4, <2>5, <2>6, <2>7, <2>8 DEF Users!IInv
<1> QED BY <1>1, <1>2

\* The link is taken by whoever finds it free and unheld; the loser is answered with it.
LEMMA UserLinkInv ==
  ASSUME UserParameters, Users!IInv, NEW w \in Users!Workers, Users!Link(w)
  PROVE  Users!IInv'
<1> DEFINE a == worker[w].account
<1>0. /\ a \in Accounts /\ ~Users!Held(w) /\ worker[w].at = "inserted" /\ UNCHANGED <<users, identity, attempts, ended>>
      /\ worker \in [Users!Workers -> [at : {"idle", "confirming", "provision", "inserted", "linked", "deactivating"},
                                 account : Accounts \cup {NoUser}, user : Users!Users \cup {NoUser},
                                 answer : Users!Users \cup {NoUser}]]
  BY DEF Users!Link, Users!IInv, Users!WorkersHoldFreshIds
<1>1. CASE identity[a] # NoUser
  BY <1>0, <1>1, UserAnsweredInv DEF Users!Link
<1>2. CASE identity[a] = NoUser
  <2>1. worker' = [worker EXCEPT ![w].at = "linked"] BY <1>2 DEF Users!Link, Users!Go
  <2>2. Users!TypeOK' BY <1>0, <2>1 DEF Users!IInv, Users!TypeOK
  <2>3. Users!WorkersHoldFreshIds' BY <1>0, <2>1 DEF Users!IInv, Users!WorkersHoldFreshIds
  <2>4. Users!LinksStay' BY <1>0, <1>2, <2>1 DEF Users!IInv, Users!LinksStay, Users!Held
  <2>5. Users!OneUserPerAccount' BY <1>0, <2>1 DEF Users!IInv, Users!OneUserPerAccount
  <2>6. Users!EndedUsersAreInactive' BY <1>0 DEF Users!IInv, Users!EndedUsersAreInactive
  <2> QED BY <2>2, <2>3, <2>4, <2>5, <2>6 DEF Users!IInv
<1> QED BY <1>1, <1>2

\* The commit of a link makes the first and only user of its account.
LEMMA UserCommitInv ==
  ASSUME UserParameters, Users!IInv, NEW w \in Users!Workers, Users!Commit(w)
  PROVE  Users!IInv'
<1> DEFINE a == worker[w].account
           u == worker[w].user
<1>0. /\ a \in Accounts /\ identity[a] = NoUser /\ worker[w].at = "linked" /\ ~Users!Held(w)
      /\ u = <<w, a, attempts[w]>> /\ attempts[w] \in 1..MaxAttempts /\ users[u] = "none"
      /\ \A x \in Users!Workers : x # w => ~(worker[x].at = "linked" /\ worker[x].account = a)
  BY DEF Users!Commit, Users!IInv, Users!WorkersHoldFreshIds, Users!LinksStay, Users!Held, UserParameters
<1>1. /\ users' = [users EXCEPT ![u] = "active"] /\ identity' = [identity EXCEPT ![a] = u]
      /\ worker' = [worker EXCEPT ![w] = Users!Answered(a, u)] /\ UNCHANGED <<attempts, ended>>
  BY DEF Users!Commit
<1>2. u \in Users!Users /\ u # NoUser /\ u[2] = a
  BY <1>0 DEF Users!Users, UserParameters
<1> HIDE DEF u, a
<1>3. Users!TypeOK' BY <1>0, <1>1, <1>2 DEF Users!IInv, Users!TypeOK, Users!Answered, Users!WorkersHoldFreshIds
<1>4. Users!WorkersHoldFreshIds'
  <2>1. worker' \in [Users!Workers -> [at : {"idle", "confirming", "provision", "inserted", "linked", "deactivating"},
                                 account : Accounts \cup {NoUser}, user : Users!Users \cup {NoUser},
                                 answer : Users!Users \cup {NoUser}]]
    BY <1>0, <1>1, <1>2 DEF Users!IInv, Users!WorkersHoldFreshIds, Users!Answered
  <2>2. ASSUME NEW v \in Users!Workers
        PROVE  /\ worker'[v].at # "idle" \/ worker'[v].answer # NoUser => worker'[v].account \in Accounts
               /\ worker'[v].at \in {"inserted", "linked"} =>
                     /\ attempts'[v] > 0
                     /\ worker'[v].user = <<v, worker'[v].account, attempts'[v]>>
                     /\ users'[worker'[v].user] = "none"
    <3>1. CASE v = w BY <1>0, <1>1, <3>1 DEF Users!IInv, Users!WorkersHoldFreshIds, Users!Answered
    <3>2. CASE v # w
      <4>1. worker'[v] = worker[v] BY <1>1, <3>2 DEF Users!IInv, Users!WorkersHoldFreshIds
      <4>2. worker[v].at \in {"inserted", "linked"} => worker[v].user # u
        BY <1>0, <3>2 DEF Users!IInv, Users!WorkersHoldFreshIds
      <4> QED BY <1>1, <4>1, <4>2 DEF Users!IInv, Users!WorkersHoldFreshIds, Users!TypeOK
    <3> QED BY <3>1, <3>2
  <2>3. ASSUME NEW v \in Users!Workers, NEW b \in Accounts, NEW n \in 1..MaxAttempts, n > attempts'[v]
        PROVE  users'[<<v, b, n>>] = "none"
    <3>1. users[<<v, b, n>>] = "none" /\ <<v, b, n>> \in Users!Users
      BY <1>1, <2>3 DEF Users!IInv, Users!WorkersHoldFreshIds, Users!Users
    <3>2. <<v, b, n>> # u BY <1>0, <1>1, <2>3
    <3> QED BY <1>1, <3>1, <3>2 DEF Users!IInv, Users!TypeOK
  <2> QED BY <1>1, <2>1, <2>2, <2>3 DEF Users!IInv, Users!WorkersHoldFreshIds
<1>5. Users!LinksStay'
  <2>1. \A b \in Accounts : identity'[b] # NoUser => identity'[b][2] = b
    BY <1>1, <1>2 DEF Users!IInv, Users!LinksStay, Users!TypeOK
  <2>2. ASSUME NEW v \in Users!Workers
        PROVE  /\ worker'[v].at = "linked" =>
                     /\ identity'[worker'[v].account] = NoUser
                     /\ \A x \in Users!Workers \ {v} : ~(worker'[x].at = "linked" /\ worker'[x].account = worker'[v].account)
               /\ worker'[v].at = "deactivating" =>
                     identity'[worker'[v].account] = worker'[v].user /\ worker'[v].user # NoUser
    <3>1. CASE v = w BY <1>1, <3>1 DEF Users!IInv, Users!WorkersHoldFreshIds, Users!Answered
    <3>2. CASE v # w
      <4>1. worker'[v] = worker[v] /\ \A x \in Users!Workers : worker'[x].at = "linked" => worker'[x] = worker[x]
        BY <1>1, <3>2 DEF Users!IInv, Users!WorkersHoldFreshIds, Users!Answered
      <4>2. worker[v].at \in {"linked", "deactivating"} => worker[v].account \in Accounts /\ worker[v].account # a
        BY <1>0, <3>2 DEF Users!IInv, Users!WorkersHoldFreshIds, Users!LinksStay
      <4> QED BY <1>1, <4>1, <4>2 DEF Users!IInv, Users!LinksStay, Users!Held, Users!TypeOK
    <3> QED BY <3>1, <3>2
  <2> QED BY <2>1, <2>2 DEF Users!LinksStay, Users!Held
<1>6. Users!OneUserPerAccount'
  <2>1. \A b \in Accounts : identity'[b] # NoUser => users'[identity'[b]] # "none"
    BY <1>0, <1>1, <1>2 DEF Users!IInv, Users!OneUserPerAccount, Users!TypeOK
  <2>2. \A x \in Users!Users : users'[x] # "none" => identity'[x[2]] = x
    <3>1. ASSUME NEW x \in Users!Users, x # u, users'[x] # "none" PROVE identity'[x[2]] = x
      <4>1. identity[x[2]] = x /\ x # NoUser
        BY <1>1, <3>1 DEF Users!IInv, Users!OneUserPerAccount, Users!TypeOK, UserParameters
      <4>2. x[2] # a BY <1>0, <4>1
      <4> QED BY <1>1, <4>1, <4>2, UserIdParts DEF Users!IInv, Users!TypeOK
    <3>2. identity'[u[2]] = u BY <1>0, <1>1, <1>2 DEF Users!IInv, Users!TypeOK
    <3> QED BY <3>1, <3>2
  <2>3. ASSUME NEW v \in Users!Workers, worker'[v].answer # NoUser
        PROVE  worker'[v].answer = identity'[worker'[v].account]
    <3>1. CASE v = w BY <1>0, <1>1, <3>1 DEF Users!IInv, Users!WorkersHoldFreshIds, Users!Answered, Users!TypeOK
    <3>2. CASE v # w
      <4>1. worker'[v] = worker[v] /\ worker[v].account \in Accounts /\ worker[v].answer = identity[worker[v].account]
        BY <1>1, <2>3, <3>2 DEF Users!IInv, Users!WorkersHoldFreshIds, Users!OneUserPerAccount
      <4>2. worker[v].account # a BY <1>0, <2>3, <4>1
      <4> QED BY <1>1, <4>1, <4>2 DEF Users!IInv, Users!TypeOK
    <3> QED BY <3>1, <3>2
  <2> QED BY <2>1, <2>2, <2>3 DEF Users!OneUserPerAccount
<1>7. Users!EndedUsersAreInactive'
  <2>1. ASSUME NEW b \in ended PROVE b \in Accounts /\ identity'[b] # NoUser /\ users'[identity'[b]] = "inactive"
    <3>1. b \in Accounts /\ identity[b] # NoUser /\ users[identity[b]] = "inactive" /\ b # a
      BY <1>0 DEF Users!IInv, Users!EndedUsersAreInactive
    <3>2. identity[b] \in Users!Users /\ identity[b] # u BY <1>0, <3>1 DEF Users!IInv, Users!TypeOK
    <3> QED BY <1>1, <3>1, <3>2 DEF Users!IInv, Users!TypeOK
  <2> QED BY <1>1, <2>1 DEF Users!EndedUsersAreInactive
<1> QED BY <1>3, <1>4, <1>5, <1>6, <1>7 DEF Users!IInv

\* A deactivation finds the account's one user.
LEMMA UserDeactivateInv ==
  ASSUME UserParameters, Users!IInv, Users!Deactivate
  PROVE  Users!IInv'
<1> DEFINE a == worker[Webhook].account
           u == worker[Webhook].user
<1>0. Webhook \in Users!Workers /\ a \in Accounts /\ identity[a] = u /\ u \in Users!Users /\ u # NoUser
  BY DEF Users!Deactivate, Users!IInv, Users!WorkersHoldFreshIds, Users!LinksStay, Users!Workers
<1>1. /\ users' = [users EXCEPT ![u] = "inactive"] /\ ended' = ended \cup {a}
      /\ worker' = [worker EXCEPT ![Webhook] = Users!AtRest] /\ UNCHANGED <<identity, attempts>>
  BY DEF Users!Deactivate
<1>2. users[u] # "none" BY <1>0 DEF Users!IInv, Users!OneUserPerAccount
<1> HIDE DEF u, a
<1>3. Users!TypeOK' BY <1>0, <1>1 DEF Users!IInv, Users!TypeOK, Users!AtRest, Users!WorkersHoldFreshIds
<1>4. Users!WorkersHoldFreshIds'
  <2>1. \A x \in Users!Users : users'[x] = "none" <=> users[x] = "none"
    BY <1>0, <1>1, <1>2 DEF Users!IInv, Users!TypeOK
  <2>2. \A v \in Users!Workers : worker'[v] = worker[v] \/ (worker'[v].at = "idle" /\ worker'[v].answer = NoUser)
    BY <1>1 DEF Users!IInv, Users!WorkersHoldFreshIds, Users!AtRest
  <2>3. worker' \in [Users!Workers -> [at : {"idle", "confirming", "provision", "inserted", "linked", "deactivating"},
                                 account : Accounts \cup {NoUser}, user : Users!Users \cup {NoUser},
                                 answer : Users!Users \cup {NoUser}]]
    BY <1>1 DEF Users!IInv, Users!WorkersHoldFreshIds, Users!AtRest
  <2>4. ASSUME NEW v \in Users!Workers, worker[v].at \in {"inserted", "linked"} PROVE worker[v].user \in Users!Users
    <3>1. worker[v].account \in Accounts /\ attempts[v] \in 1..MaxAttempts
      BY <2>4 DEF Users!IInv, Users!WorkersHoldFreshIds, UserParameters
    <3>2. worker[v].user = <<v, worker[v].account, attempts[v]>>
      BY <2>4 DEF Users!IInv, Users!WorkersHoldFreshIds
    <3> QED BY <3>1, <3>2 DEF Users!Users
  <2>5. \A v \in Users!Workers, b \in Accounts, n \in 1..MaxAttempts : <<v, b, n>> \in Users!Users BY DEF Users!Users
  <2>6. ASSUME NEW v \in Users!Workers
        PROVE  /\ worker'[v].at # "idle" \/ worker'[v].answer # NoUser => worker'[v].account \in Accounts
               /\ worker'[v].at \in {"inserted", "linked"} => /\ attempts'[v] > 0
                                                              /\ worker'[v].user = <<v, worker'[v].account, attempts'[v]>>
                                                              /\ users'[worker'[v].user] = "none"
    <3>1. CASE worker'[v] = worker[v]
      BY <1>1, <2>1, <2>4, <3>1 DEF Users!IInv, Users!WorkersHoldFreshIds
    <3>2. CASE worker'[v].at = "idle" /\ worker'[v].answer = NoUser BY <3>2
    <3> QED BY <2>2, <3>1, <3>2
  <2>7. \A v \in Users!Workers, b \in Accounts, n \in 1..MaxAttempts : n > attempts'[v] => users'[<<v, b, n>>] = "none"
    BY <1>1, <2>1, <2>5 DEF Users!IInv, Users!WorkersHoldFreshIds
  <2>8. attempts' \in [Users!Workers -> 0..MaxAttempts] BY <1>1 DEF Users!IInv, Users!WorkersHoldFreshIds
  <2> QED BY <2>3, <2>6, <2>7, <2>8 DEF Users!WorkersHoldFreshIds
<1>5. Users!LinksStay' BY <1>1 DEF Users!IInv, Users!LinksStay, Users!WorkersHoldFreshIds, Users!Held, Users!AtRest
<1>6. Users!OneUserPerAccount'
  BY <1>0, <1>1, <1>2 DEF Users!IInv, Users!OneUserPerAccount, Users!TypeOK, Users!WorkersHoldFreshIds, Users!AtRest
<1>7. Users!EndedUsersAreInactive' BY <1>0, <1>1 DEF Users!IInv, Users!EndedUsersAreInactive, Users!TypeOK
<1> QED BY <1>3, <1>4, <1>5, <1>6, <1>7 DEF Users!IInv

LEMMA UserStepInv == UserParameters /\ Users!IInv /\ [Users!Next]_(Users!vars) => Users!IInv'
<1> SUFFICES ASSUME UserParameters, Users!IInv, [Users!Next]_(Users!vars) PROVE Users!IInv' OBVIOUS
<1>1. ASSUME NEW a \in Accounts, Users!SignUp(a) \/ Users!Remove(a) PROVE Users!IInv'
  BY <1>1 DEF Users!SignUp, Users!Remove, Users!IInv, Users!TypeOK, Users!WorkersHoldFreshIds, Users!LinksStay,
     Users!OneUserPerAccount, Users!EndedUsersAreInactive, Users!Held
<1>2. ASSUME NEW w \in Users!Workers, Users!Break(w) PROVE Users!IInv'
  BY <1>2, UserRestInv DEF Users!Break
<1>3. CASE UNCHANGED Users!vars
  BY <1>3 DEF Users!vars, Users!IInv, Users!TypeOK, Users!WorkersHoldFreshIds, Users!LinksStay,
     Users!OneUserPerAccount, Users!EndedUsersAreInactive, Users!Held
<1> QED
  BY <1>1, <1>2, <1>3, UserRequestInv, UserDeliveryInv, UserProvisionInv, UserLinkInv, UserCommitInv,
     UserDeactivateInv DEF Users!Next

\* In every reachable state: an id that a worker has minted is no row's yet, links stay, an
\* account has one user, and an ended one's is inactive.
THEOREM UserInvHolds == ASSUME UserParameters PROVE Users!Spec => []Users!IInv
BY UserInitInv, UserStepInv, PTL DEF Users!Spec

\* However sign-ins and deliveries race, an account has one user and whoever asked was
\* answered with it.
THEOREM OneUserPerAccountHolds == ASSUME UserParameters PROVE Users!Spec => []Users!OneUserPerAccount
<1>1. Users!IInv => Users!OneUserPerAccount BY DEF Users!IInv
<1> QED BY UserInvHolds, <1>1, PTL

LEMMA UserEndedAreFinal == UserParameters /\ Users!IInv => Users!DeletionIsFinal
<1> SUFFICES ASSUME UserParameters, Users!IInv, NEW u \in Users!Users, u[2] \in ended PROVE users[u] # "active"
  BY DEF Users!DeletionIsFinal
<1>1. identity[u[2]] # NoUser /\ users[identity[u[2]]] = "inactive" BY DEF Users!IInv, Users!EndedUsersAreInactive
<1>2. users[u] # "none" => identity[u[2]] = u BY DEF Users!IInv, Users!OneUserPerAccount
<1> QED BY <1>1, <1>2

\* Once a deletion has deactivated the user of an account, none of the account is active.
THEOREM DeletionIsFinalHolds == ASSUME UserParameters PROVE Users!Spec => []Users!DeletionIsFinal
BY UserInvHolds, UserEndedAreFinal, PTL

-----------------------------------------------------------------------------
(* Natural keys.                                                           *)

CONSTANTS Sessions, Batches, Attempts, NoSession
VARIABLES table, merge, outcome
Keys == INSTANCE NaturalKeys

\* What the parameters are.  A transaction that has committed writes no more, so as many
\* transactions as there are attempts cannot use them up.
KeyParameters ==
    /\ NoSession \notin Sessions /\ Sessions # {} /\ IsFiniteSet(Sessions)
    /\ Attempts \in Nat /\ Cardinality(Sessions) <= Attempts
    /\ \A b \in Batches : b \in Seq(Keys!Keys)

LEMMA KeyCounts == \A S : Keys!Cardinality(S) = Cardinality(S) BY DEF Keys!Cardinality, Cardinality

LEMMA KeySomeAttempts == KeyParameters => Attempts >= 1
<1> SUFFICES ASSUME KeyParameters PROVE Attempts >= 1 OBVIOUS
<1>1. Cardinality(Sessions) \in Nat /\ Cardinality(Sessions) # 0
  BY FS_CardinalityType, FS_EmptySet DEF KeyParameters
<1> QED BY <1>1 DEF KeyParameters

LEMMA KeyInitInv == KeyParameters /\ Keys!Init => Keys!IInv
<1> SUFFICES ASSUME KeyParameters, Keys!Init PROVE Keys!IInv OBVIOUS
<1>1. Keys!TypeOK
  <2>1. (CHOOSE s \in Sessions : TRUE) \in Sessions BY DEF KeyParameters
  <2>2. table \in [Keys!Keys -> Sessions \cup {NoSession}] BY <2>1 DEF Keys!Init
  <2>3. 1 \in 1..Attempts BY KeySomeAttempts DEF KeyParameters
  <2> QED BY <2>2, <2>3 DEF Keys!Init, Keys!TypeOK, Keys!NoMerge
<1>2. Keys!FlushesAreInOrder
  <2>1. 1 \in 1..Attempts BY KeySomeAttempts DEF KeyParameters
  <2> QED BY <2>1 DEF Keys!Init, Keys!FlushesAreInOrder, Keys!NoMerge
<1>3. Keys!RacesAreCounted BY DEF Keys!Init, Keys!RacesAreCounted, Keys!NoMerge
<1>4. Keys!LostRacesBecomeUpdates BY DEF Keys!Init, Keys!LostRacesBecomeUpdates
<1> QED BY <1>1, <1>2, <1>3, <1>4 DEF Keys!IInv

\* The rows of a batch, and the one a flush is at.
LEMMA KeyRowsOfBatches ==
  ASSUME KeyParameters, Keys!IInv, NEW s \in Sessions, merge[s].at = "flush"
  PROVE  /\ merge[s].batch \in Seq(Keys!Keys) /\ DOMAIN merge[s].batch = 1..Len(merge[s].batch)
         /\ Keys!BatchKeys(merge[s].batch) \subseteq Keys!Keys
         /\ merge[s].next <= Len(merge[s].batch) => Keys!Key(s) \in Keys!BatchKeys(merge[s].batch)
         /\ merge[s].next > Len(merge[s].batch) => merge[s].written = Keys!BatchKeys(merge[s].batch)
<1>1. merge[s].batch \in Seq(Keys!Keys) /\ DOMAIN merge[s].batch = 1..Len(merge[s].batch) /\ Len(merge[s].batch) \in Nat
  BY DEF KeyParameters, Keys!IInv, Keys!FlushesAreInOrder, Keys!WroteUpTo
<1>2. \A i \in 1..Len(merge[s].batch) : merge[s].batch[i] \in Keys!Keys
  BY <1>1
<1>3. /\ merge[s].next \in 1..(Len(merge[s].batch) + 1)
      /\ merge[s].written = {merge[s].batch[i] : i \in 1..(merge[s].next - 1)}
  BY DEF Keys!IInv, Keys!FlushesAreInOrder, Keys!WroteUpTo
<1> QED BY <1>1, <1>2, <1>3 DEF Keys!BatchKeys, Keys!Key

LEMMA KeyLookupInv ==
  ASSUME KeyParameters, Keys!IInv, NEW s \in Sessions, NEW b \in Batches, NEW bad \in BOOLEAN, Keys!Lookup(s, b, bad)
  PROVE  Keys!IInv'
<1>0. /\ b \in Seq(Keys!Keys) /\ Len(b) \in Nat /\ 1 \in 1..Attempts /\ Keys!Resolve(b) \in SUBSET Keys!Keys
      /\ UNCHANGED <<table, outcome>> /\ outcome[s] = "none"
  <2>1. b \in Seq(Keys!Keys) /\ \A i \in DOMAIN b : b[i] \in Keys!Keys BY DEF KeyParameters
  <2> QED BY <2>1, KeySomeAttempts DEF Keys!Resolve, Keys!BatchKeys, KeyParameters, Keys!Lookup
<1>1. /\ merge'[s] \in [at : {"idle", "flush"}, batch : Batches \cup {<<>>}, earlier : BOOLEAN,
                        known : SUBSET Keys!Keys, next : Nat, written : SUBSET Keys!Keys, attempt : 1..Attempts, bad : BOOLEAN]
      /\ merge'[s].at = "flush" /\ merge'[s].batch = b /\ merge'[s].earlier /\ merge'[s].next = 1
      /\ merge'[s].written = {} /\ merge'[s].known = Keys!Resolve(b) /\ merge'[s].attempt = 1
      /\ \A t \in Sessions : t # s => merge'[t] = merge[t]
      /\ merge' = [t \in Sessions |-> merge'[t]]
  BY <1>0 DEF Keys!Lookup, Keys!NoMerge, Keys!IInv, Keys!FlushesAreInOrder
<1>2. Keys!TypeOK' BY <1>0, <1>1 DEF Keys!IInv, Keys!TypeOK
<1>3. Keys!FlushesAreInOrder'
  <2>1. merge'[s].written = {b[i] : i \in 1..(1 - 1)} BY <1>1
  <2>2. 1 \in 1..(Len(b) + 1) BY <1>0
  <2>3. Keys!WroteUpTo(merge'[s]) BY <1>1, <2>1, <2>2 DEF Keys!WroteUpTo
  <2>4. merge' \in [Sessions -> [at : {"idle", "flush"}, batch : Batches \cup {<<>>}, earlier : BOOLEAN,
                                known : SUBSET Keys!Keys, next : Nat, written : SUBSET Keys!Keys,
                                attempt : 1..Attempts, bad : BOOLEAN]]
    BY <1>1 DEF Keys!IInv, Keys!FlushesAreInOrder
  <2>5. ASSUME NEW t \in Sessions, merge'[t].at = "flush"
        PROVE  outcome'[t] = "none" /\ Keys!WroteUpTo(merge'[t])
    BY <1>0, <1>1, <2>3, <2>5 DEF Keys!IInv, Keys!FlushesAreInOrder
  <2> QED BY <2>4, <2>5 DEF Keys!FlushesAreInOrder, Keys!WroteUpTo
<1>4. Keys!RacesAreCounted'
  <2>1. ASSUME NEW t \in Sessions, t # s, merge'[t].at = "flush" PROVE \E winners \in SUBSET Sessions : Keys!LostTo(t, winners)'
    BY <1>0, <1>1, <2>1 DEF Keys!IInv, Keys!RacesAreCounted, Keys!LostTo, Keys!Ended
  <2>2. Keys!LostTo(s, {})'
    <3>1. \A k \in Keys!BatchKeys(b) \ Keys!Resolve(b) : table[k] = NoSession BY DEF Keys!Resolve
    <3>2. Keys!Cardinality({}) = 0 BY KeyCounts, FS_EmptySet
    <3> QED BY <1>0, <1>1, <3>1, <3>2 DEF Keys!LostTo
  <2> QED BY <2>1, <2>2 DEF Keys!RacesAreCounted
<1>5. Keys!LostRacesBecomeUpdates' BY <1>0 DEF Keys!IInv, Keys!LostRacesBecomeUpdates
<1> QED BY <1>2, <1>3, <1>4, <1>5 DEF Keys!IInv

LEMMA KeyFlushRowInv ==
  ASSUME KeyParameters, Keys!IInv, NEW s \in Sessions, Keys!FlushRow(s)
  PROVE  Keys!IInv'
<1>0. /\ merge[s].at = "flush" /\ merge[s].next <= Len(merge[s].batch) /\ UNCHANGED <<table, outcome>>
      /\ Keys!Key(s) \in Keys!Keys
  BY KeyRowsOfBatches DEF Keys!FlushRow
<1>1. /\ merge' \in [Sessions -> [at : {"idle", "flush"}, batch : Batches \cup {<<>>}, earlier : BOOLEAN,
                                  known : SUBSET Keys!Keys, next : Nat, written : SUBSET Keys!Keys, attempt : 1..Attempts,
                                  bad : BOOLEAN]]
      /\ merge'[s].written = merge[s].written \cup {Keys!Key(s)} /\ merge'[s].next = merge[s].next + 1
      /\ \A t \in Sessions : /\ merge'[t].at = merge[t].at /\ merge'[t].batch = merge[t].batch
                             /\ merge'[t].earlier = merge[t].earlier /\ merge'[t].known = merge[t].known
                             /\ merge'[t].attempt = merge[t].attempt
                             /\ t # s => merge'[t] = merge[t]
  BY <1>0 DEF Keys!FlushRow, Keys!IInv, Keys!FlushesAreInOrder
<1>2. Keys!TypeOK' BY <1>0, <1>1 DEF Keys!IInv, Keys!TypeOK
<1>3. Keys!FlushesAreInOrder'
  <2>1. /\ merge[s].next \in 1..(Len(merge[s].batch) + 1) /\ Len(merge[s].batch) \in Nat
        /\ merge[s].written = {merge[s].batch[i] : i \in 1..(merge[s].next - 1)}
    BY <1>0, KeyRowsOfBatches DEF Keys!IInv, Keys!FlushesAreInOrder, Keys!WroteUpTo
  <2>2. merge'[s].next \in 1..(Len(merge'[s].batch) + 1) BY <1>0, <1>1, <2>1
  <2>3. merge'[s].written = {merge[s].batch[i] : i \in 1..(merge'[s].next - 1)}
    <3>1. merge'[s].next - 1 = merge[s].next /\ merge[s].next \in Nat /\ merge[s].next >= 1 BY <1>1, <2>1
    <3>2. \A i : i \in 1..merge[s].next <=> i \in 1..(merge[s].next - 1) \/ i = merge[s].next BY <3>1
    <3> QED BY <1>1, <2>1, <3>1, <3>2 DEF Keys!Key
  <2>4. merge'[s].batch = merge[s].batch /\ merge[s].batch \in Batches /\ merge'[s].earlier
    BY <1>0, <1>1 DEF Keys!IInv, Keys!FlushesAreInOrder, Keys!WroteUpTo
  <2>5. Keys!WroteUpTo(merge'[s]) BY <2>2, <2>3, <2>4 DEF Keys!WroteUpTo
  <2> QED BY <1>0, <1>1, <2>5 DEF Keys!IInv, Keys!FlushesAreInOrder
<1>4. Keys!RacesAreCounted' BY <1>0, <1>1 DEF Keys!IInv, Keys!RacesAreCounted, Keys!LostTo, Keys!Ended
<1>5. Keys!LostRacesBecomeUpdates' BY <1>0 DEF Keys!IInv, Keys!LostRacesBecomeUpdates
<1> QED BY <1>2, <1>3, <1>4, <1>5 DEF Keys!IInv

\* A transaction that ends: who still flushes has one more it may have lost to.
LEMMA KeyEndInv ==
  ASSUME KeyParameters, Keys!IInv, NEW s \in Sessions, merge[s].at = "flush",
         NEW how \in {"done", "raised", "victim"}, Keys!End(s, how),
         table' \in [Keys!Keys -> Sessions \cup {NoSession}], \A k \in Keys!Keys : table'[k] \in {table[k], s}
  PROVE  Keys!IInv'
<1>0. /\ merge' = [merge EXCEPT ![s] = Keys!NoMerge] /\ outcome' = [outcome EXCEPT ![s] = how]
      /\ outcome[s] = "none" /\ outcome \in [Sessions -> {"none", "done", "partial", "refused", "raised", "exhausted", "victim"}]
      /\ \A t \in Sessions : t # s => merge'[t] = merge[t]
  BY DEF Keys!End, Keys!IInv, Keys!FlushesAreInOrder, Keys!TypeOK
<1>1. 1 \in 1..Attempts BY KeySomeAttempts DEF KeyParameters
<1>2. Keys!TypeOK' BY <1>0, <1>1 DEF Keys!IInv, Keys!TypeOK, Keys!NoMerge
<1>3. Keys!FlushesAreInOrder'
  <2>1. merge'[s].at = "idle" BY <1>0 DEF Keys!NoMerge, Keys!IInv, Keys!FlushesAreInOrder
  <2>2. merge' \in [Sessions -> [at : {"idle", "flush"}, batch : Batches \cup {<<>>}, earlier : BOOLEAN,
                                 known : SUBSET Keys!Keys, next : Nat, written : SUBSET Keys!Keys, attempt : 1..Attempts,
                                 bad : BOOLEAN]]
    BY <1>0, <1>1 DEF Keys!NoMerge, Keys!IInv, Keys!FlushesAreInOrder
  <2> QED BY <1>0, <2>1, <2>2 DEF Keys!IInv, Keys!FlushesAreInOrder
<1>4. Keys!RacesAreCounted'
  <2> SUFFICES ASSUME NEW t \in Sessions, merge'[t].at = "flush" PROVE \E winners \in SUBSET Sessions : Keys!LostTo(t, winners)'
    BY DEF Keys!RacesAreCounted
  <2>1. t # s /\ merge'[t] = merge[t] BY <1>0 DEF Keys!NoMerge, Keys!IInv, Keys!FlushesAreInOrder
  <2>2. PICK winners \in SUBSET Sessions : Keys!LostTo(t, winners) BY <2>1 DEF Keys!IInv, Keys!RacesAreCounted
  <2>3. s \notin winners BY <1>0, <2>2 DEF Keys!LostTo, Keys!Ended
  <2>4. Keys!Ended(t)' = Keys!Ended(t) \cup {s} BY <1>0, <2>1 DEF Keys!Ended
  <2>5. Keys!BatchKeys(merge[t].batch) \subseteq Keys!Keys BY <2>1, KeyRowsOfBatches
  <2>6. \A k \in Keys!BatchKeys(merge[t].batch) \ merge[t].known : table'[k] \in {NoSession} \cup (Keys!Ended(t)' \ winners)
    BY <2>2, <2>3, <2>4, <2>5 DEF Keys!LostTo
  <2>7. Keys!LostTo(t, winners)' BY <2>1, <2>2, <2>4, <2>6 DEF Keys!LostTo
  <2> QED BY <2>7
<1>5. Keys!LostRacesBecomeUpdates' BY <1>0 DEF Keys!IInv, Keys!LostRacesBecomeUpdates
<1> QED BY <1>2, <1>3, <1>4, <1>5 DEF Keys!IInv

\* A key found committed was committed by one more transaction than the attempts were
\* lost to so far: there is another attempt.
LEMMA KeyAnotherWinner ==
  ASSUME KeyParameters, Keys!IInv, NEW s \in Sessions, merge[s].at = "flush",
         NEW k \in Keys!BatchKeys(merge[s].batch), k \notin merge[s].known, table[k] # NoSession
  PROVE  /\ merge[s].attempt < Attempts
         /\ \E winners \in SUBSET Keys!Ended(s) : Cardinality(winners) >= merge[s].attempt
<1>1. PICK winners \in SUBSET Sessions : Keys!LostTo(s, winners) BY DEF Keys!IInv, Keys!RacesAreCounted
<1>2. table[k] \in Keys!Ended(s) \ winners BY <1>1 DEF Keys!LostTo
<1> DEFINE more == winners \cup {table[k]}
<1>3. more \subseteq Keys!Ended(s) /\ Keys!Ended(s) \subseteq Sessions \ {s} BY <1>1, <1>2 DEF Keys!LostTo, Keys!Ended
<1>4. IsFiniteSet(winners) /\ IsFiniteSet(Sessions \ {s}) BY <1>1, FS_Subset, FS_RemoveElement DEF KeyParameters
<1>5. Cardinality(more) = Cardinality(winners) + 1 /\ Cardinality(winners) \in Nat
  BY <1>2, <1>4, FS_AddElement, FS_CardinalityType
<1>6. Cardinality(Sessions \ {s}) = Cardinality(Sessions) - 1 /\ Cardinality(Sessions) \in Nat
  BY FS_RemoveElement, FS_CardinalityType DEF KeyParameters
<1>7. Cardinality(more) <= Cardinality(Sessions \ {s})
  <2>1. more \subseteq Sessions \ {s} BY <1>3
  <2> QED BY <2>1, <1>4, FS_Subset
<1>8. merge[s].attempt \in Nat /\ Cardinality(winners) + 1 >= merge[s].attempt
  BY <1>1, KeyCounts DEF Keys!LostTo, Keys!IInv, Keys!FlushesAreInOrder, KeyParameters
<1> HIDE DEF more
<1> QED BY <1>3, <1>5, <1>6, <1>7, <1>8 DEF KeyParameters

\* Back to the savepoint, with the keys there are now.
LEMMA KeyRetryInv ==
  ASSUME KeyParameters, Keys!IInv, NEW s \in Sessions, merge[s].at = "flush", UNCHANGED <<table, outcome>>,
         ~(Keys!Resolve(merge[s].batch) \subseteq merge[s].known),
         Keys!Retry(s, Keys!Resolve(merge[s].batch))
  PROVE  Keys!IInv'
<1> DEFINE now == Keys!Resolve(merge[s].batch)
<1>1. merge[s].attempt < Attempts /\ \E winners \in SUBSET Keys!Ended(s) : Cardinality(winners) >= merge[s].attempt
  BY KeyAnotherWinner DEF Keys!Resolve
<1>2. now \in SUBSET Keys!Keys /\ merge[s].attempt + 1 \in 1..Attempts /\ merge[s].attempt \in Nat
  BY <1>1, KeyRowsOfBatches DEF Keys!Resolve, Keys!IInv, Keys!FlushesAreInOrder, KeyParameters
<1>3. /\ merge'[s].at = "flush" /\ merge'[s].batch = merge[s].batch /\ merge'[s].earlier = merge[s].earlier
      /\ merge'[s].known = now /\ merge'[s].next = 1 /\ merge'[s].written = {}
      /\ merge'[s].attempt = merge[s].attempt + 1
      /\ \A t \in Sessions : t # s => merge'[t] = merge[t]
  BY DEF Keys!Retry, Keys!IInv, Keys!FlushesAreInOrder
<1>4. merge' \in [Sessions -> [at : {"idle", "flush"}, batch : Batches \cup {<<>>}, earlier : BOOLEAN,
                               known : SUBSET Keys!Keys, next : Nat, written : SUBSET Keys!Keys, attempt : 1..Attempts,
                               bad : BOOLEAN]]
  BY <1>2 DEF Keys!Retry, Keys!IInv, Keys!FlushesAreInOrder
<1>5. Keys!TypeOK' BY <1>2, <1>3 DEF Keys!IInv, Keys!TypeOK
<1>6. Keys!FlushesAreInOrder'
  <2>1. merge[s].batch \in Batches /\ merge[s].earlier /\ Len(merge[s].batch) \in Nat
    BY KeyRowsOfBatches DEF Keys!IInv, Keys!FlushesAreInOrder, Keys!WroteUpTo
  <2>2. merge'[s].written = {merge[s].batch[i] : i \in 1..(1 - 1)} /\ 1 \in 1..(Len(merge[s].batch) + 1) BY <1>3, <2>1
  <2>3. Keys!WroteUpTo(merge'[s]) BY <1>3, <2>1, <2>2 DEF Keys!WroteUpTo
  <2> QED BY <1>3, <1>4, <2>3 DEF Keys!IInv, Keys!FlushesAreInOrder
<1>7. Keys!RacesAreCounted'
  <2>1. ASSUME NEW t \in Sessions, t # s, merge'[t].at = "flush" PROVE \E winners \in SUBSET Sessions : Keys!LostTo(t, winners)'
    BY <1>3, <2>1 DEF Keys!IInv, Keys!RacesAreCounted, Keys!LostTo, Keys!Ended
  <2>2. PICK winners \in SUBSET Keys!Ended(s) : Cardinality(winners) >= merge[s].attempt BY <1>1
  <2>3. Cardinality(winners) + 1 >= merge[s].attempt + 1
    <3>1. winners \subseteq Sessions BY DEF Keys!Ended
    <3>2. IsFiniteSet(winners) BY <3>1, FS_Subset DEF KeyParameters
    <3> QED BY <1>2, <2>2, <3>2, FS_CardinalityType
  <2>4. \A k \in Keys!BatchKeys(merge[s].batch) \ now : table[k] = NoSession BY DEF Keys!Resolve
  <2>5. Keys!LostTo(s, winners)'
    <3>1. Keys!Cardinality(winners) + 1 >= merge[s].attempt + 1 BY <2>3, KeyCounts
    <3> QED BY <1>3, <2>4, <3>1 DEF Keys!LostTo, Keys!Ended
  <2>6. winners \in SUBSET Sessions BY DEF Keys!Ended
  <2> QED BY <2>1, <2>5, <2>6 DEF Keys!RacesAreCounted
<1>8. Keys!LostRacesBecomeUpdates' BY DEF Keys!IInv, Keys!LostRacesBecomeUpdates
<1> QED BY <1>5, <1>6, <1>7, <1>8 DEF Keys!IInv

LEMMA KeyConflictInv ==
  ASSUME KeyParameters, Keys!IInv, NEW s \in Sessions, Keys!Conflict(s)
  PROVE  Keys!IInv'
<1>1. merge[s].at = "flush" /\ Keys!Key(s) \in Keys!BatchKeys(merge[s].batch) /\ Keys!Key(s) \notin merge[s].known
      /\ table[Keys!Key(s)] # NoSession
  BY KeyRowsOfBatches DEF Keys!Conflict
<1>2. merge[s].attempt < Attempts BY <1>1, KeyAnotherWinner
<1>3. ~(Keys!Resolve(merge[s].batch) \subseteq merge[s].known) BY <1>1 DEF Keys!Resolve
<1>4. merge[s].attempt # Attempts BY <1>2 DEF KeyParameters
<1> QED BY <1>1, <1>3, <1>4, KeyRetryInv DEF Keys!Conflict

LEMMA KeyViolationInv ==
  ASSUME KeyParameters, Keys!IInv, NEW s \in Sessions, Keys!Violation(s)
  PROVE  Keys!IInv'
<1>1. CASE Keys!Resolve(merge[s].batch) \subseteq merge[s].known
  <2>1. Keys!End(s, "raised") /\ UNCHANGED table /\ merge[s].at = "flush" BY <1>1 DEF Keys!Violation
  <2> QED BY <2>1, KeyEndInv DEF Keys!IInv, Keys!TypeOK
<1>2. CASE ~(Keys!Resolve(merge[s].batch) \subseteq merge[s].known)
  <2>1. merge[s].at = "flush" BY DEF Keys!Violation
  <2>2. merge[s].attempt < Attempts BY <1>2, <2>1, KeyAnotherWinner DEF Keys!Resolve
  <2>3. merge[s].attempt # Attempts BY <2>2 DEF KeyParameters
  <2> QED BY <1>2, <2>1, <2>3, KeyRetryInv DEF Keys!Violation
<1> QED BY <1>1, <1>2

LEMMA KeyCommitInv ==
  ASSUME KeyParameters, Keys!IInv, NEW s \in Sessions, Keys!Commit(s)
  PROVE  Keys!IInv'
<1>1. merge[s].at = "flush" /\ merge[s].earlier /\ merge[s].written = Keys!BatchKeys(merge[s].batch)
  BY KeyRowsOfBatches DEF Keys!Commit, Keys!IInv, Keys!FlushesAreInOrder, Keys!WroteUpTo
<1>2. Keys!End(s, "done") BY <1>1 DEF Keys!Commit
<1>3. table' \in [Keys!Keys -> Sessions \cup {NoSession}] /\ \A k \in Keys!Keys : table'[k] \in {table[k], s}
  BY DEF Keys!Commit, Keys!IInv, Keys!TypeOK
<1> QED BY <1>1, <1>2, <1>3, KeyEndInv

LEMMA KeyVictimInv ==
  ASSUME KeyParameters, Keys!IInv, NEW s \in Sessions, Keys!Victim(s)
  PROVE  Keys!IInv'
<1>1. merge[s].at = "flush" /\ Keys!End(s, "victim") /\ UNCHANGED table BY DEF Keys!Victim, Keys!Waits
<1> QED BY <1>1, KeyEndInv DEF Keys!IInv, Keys!TypeOK

LEMMA KeyStepInv == KeyParameters /\ Keys!IInv /\ [Keys!Next]_(Keys!vars) => Keys!IInv'
<1> SUFFICES ASSUME KeyParameters, Keys!IInv, [Keys!Next]_(Keys!vars) PROVE Keys!IInv' OBVIOUS
<1>1. CASE UNCHANGED Keys!vars
  <2>1. UNCHANGED <<table, merge, outcome>> BY <1>1 DEF Keys!vars
  <2>2. Keys!TypeOK' /\ Keys!LostRacesBecomeUpdates'
    BY <2>1 DEF Keys!IInv, Keys!TypeOK, Keys!LostRacesBecomeUpdates
  <2>3. Keys!FlushesAreInOrder' BY <2>1 DEF Keys!IInv, Keys!FlushesAreInOrder, Keys!WroteUpTo
  <2>4. Keys!RacesAreCounted' BY <2>1 DEF Keys!IInv, Keys!RacesAreCounted, Keys!LostTo, Keys!Ended
  <2> QED BY <2>2, <2>3, <2>4 DEF Keys!IInv
<1> QED
  BY <1>1, KeyLookupInv, KeyFlushRowInv, KeyConflictInv, KeyViolationInv, KeyCommitInv, KeyVictimInv DEF Keys!Next

\* With no more transactions than attempts, a batch that loses races is written whole and
\* the races never reach its caller.
THEOREM LostRacesBecomeUpdatesHolds == ASSUME KeyParameters PROVE Keys!Spec => []Keys!LostRacesBecomeUpdates
<1>1. Keys!IInv => Keys!LostRacesBecomeUpdates BY DEF Keys!IInv
<1> QED BY KeyInitInv, KeyStepInv, <1>1, PTL DEF Keys!Spec

===============================================================================
