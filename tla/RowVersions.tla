---------------------------- MODULE RowVersions ----------------------------
(***************************************************************************)
(* A row that several clients edit: a transfer rule, a category pattern or *)
(* a goal.  PATCH sends the whole row and, for an edit, the version it was *)
(* read at; check_and_bump_row_version checks and bumps in one statement.  *)
(* A toggle sends no version and always wins.  POST of a rule that exists  *)
(* replaces its priority, carries its switch forward and leaves its        *)
(* version alone; DELETE checks nothing.                                   *)
(***************************************************************************)
EXTENDS Naturals

CONSTANTS
    Clients,
    Priorities,     \* what a POST or an edit can set
    MaxVersion,     \* how far the version is followed
    Nobody

VARIABLES
    row,            \* the committed row
    seen,           \* the row as each client last read it
    patch,          \* the handler's transaction of each client
    holder,         \* who holds the row's lock
    reposted        \* history: clients who read the row before a POST replaced it

vars == <<row, seen, patch, holder, reposted>>

Bodies == [priority : Priorities, active : BOOLEAN]
Gone == [version |-> 0, body |-> [priority |-> CHOOSE p \in Priorities : TRUE, active |-> FALSE]]
NoPatch == [op |-> "none", body |-> Gone.body, expected |-> 0, version |-> 0]

Init ==
    /\ row = Gone
    /\ seen = [c \in Clients |-> Gone]
    /\ patch = [c \in Clients |-> NoPatch]
    /\ holder = Nobody
    /\ reposted = {}

\* GET: what the client will base its edit on.
Read(c) ==
    /\ patch[c].op = "none"
    /\ seen' = [seen EXCEPT ![c] = row]
    /\ reposted' = reposted \ {c}
    /\ UNCHANGED <<row, patch, holder>>

\* PATCH: the id is resolved (404 without a row); an edit names the version it saw,
\* a toggle none (0).
Send(c, body, checked) ==
    /\ patch[c].op = "none"
    /\ row # Gone
    /\ seen[c] # Gone
    /\ patch' = [patch EXCEPT ![c] = [op |-> "patch", body |-> body, version |-> 0,
                                      expected |-> IF checked THEN seen[c].version ELSE 0]]
    /\ UNCHANGED <<row, seen, holder, reposted>>

\* A save that compares nothing.
Matches_Any(expected) == TRUE

\* A toggle takes any version, an edit the one it names.
Matches(expected) == expected \in {0, row.version}

\* check_and_bump_row_version: the UPDATE waits for the row's lock, then finds the
\* version it names and keeps the lock, or does not: 409.
CheckAndBump(c) ==
    /\ patch[c].op = "patch"
    /\ holder = Nobody
    /\ IF Matches(patch[c].expected)
       THEN /\ row.version < MaxVersion
            /\ holder' = c
            /\ patch' = [patch EXCEPT ![c].op = "bumped", ![c].version = row.version + 1]
       ELSE /\ patch' = [patch EXCEPT ![c] = NoPatch]
            /\ UNCHANGED holder
    /\ UNCHANGED <<row, seen, reposted>>

\* The fields are set and the request commits; the client reads the row it wrote.
CommitPatch(c) ==
    LET new == [version |-> patch[c].version, body |-> patch[c].body]
    IN  /\ patch[c].op = "bumped"
        /\ row' = new
        /\ seen' = [seen EXCEPT ![c] = new]
        /\ reposted' = reposted \ {c}
        /\ patch' = [patch EXCEPT ![c] = NoPatch]
        /\ holder' = Nobody

\* What follows in the request fails (the rule's links are reconciled in the same
\* transaction): the bump is rolled back with it.
Rollback(c) ==
    /\ patch[c].op # "none"
    /\ patch' = [patch EXCEPT ![c] = NoPatch]
    /\ holder' = IF holder = c THEN Nobody ELSE holder
    /\ UNCHANGED <<row, seen, reposted>>

\* POST of the same text reads the row that is there, if any ...
Post(c, p) ==
    /\ patch[c].op = "none"
    /\ patch' = [patch EXCEPT ![c] = [op |-> "post", expected |-> 0, version |-> 0,
                     body |-> [priority |-> p, active |-> IF row = Gone THEN TRUE ELSE row.body.active]]]
    /\ UNCHANGED <<row, seen, holder, reposted>>

\* ... and upserts it: the version of a row that is there does not move.
Upsert(c) ==
    LET new == [version |-> IF row = Gone THEN 1 ELSE row.version, body |-> patch[c].body]
    IN  /\ patch[c].op = "post"
        /\ holder = Nobody
        /\ row' = new
        /\ seen' = [seen EXCEPT ![c] = new]
        /\ reposted' = Clients \ {c}
        /\ patch' = [patch EXCEPT ![c] = NoPatch]
        /\ UNCHANGED holder

\* An edit whose id is resolved loses its row for good: a row made again has another
\* id, and the edit ends in a 404 (Rollback).
Delete(c) ==
    /\ patch[c].op = "none"
    /\ holder = Nobody
    /\ row # Gone
    /\ row' = Gone
    /\ patch' = [d \in Clients |-> IF patch[d].op = "patch" THEN [patch[d] EXCEPT !.op = "orphan"] ELSE patch[d]]
    /\ UNCHANGED <<seen, holder, reposted>>

Next ==
    \E c \in Clients :
        \/ Read(c) \/ CheckAndBump(c) \/ CommitPatch(c) \/ Rollback(c) \/ Upsert(c) \/ Delete(c)
        \/ \E body \in Bodies, checked \in BOOLEAN : Send(c, body, checked)
        \/ \E p \in Priorities : Post(c, p)

Spec == Init /\ [][Next]_vars

-----------------------------------------------------------------------------
(* Properties.                                                             *)

TypeOK ==
    /\ row \in [version : 0..MaxVersion, body : Bodies]
    /\ seen \in [Clients -> [version : 0..MaxVersion, body : Bodies]]
    /\ holder \in Clients \cup {Nobody}

\* An edit that names a version replaces the very row its client read, whatever other
\* edits, toggles and deletions came between, unless another client's POST of the same
\* rule did: that replaces the row and leaves the version alone on purpose, or makes
\* a deleted row again, at version 1.
EditsReplaceWhatWasSeen ==
    \A c \in Clients :
       (CommitPatch(c) /\ patch[c].expected # 0 /\ c \notin reposted) => row = seen[c]

\* The strengthening every step preserves.  A row gets no version twice but by a POST; so
\* what a client read is there, or was replaced by a later version, or is gone.
LaterThanSeen(c) == row = Gone \/ row = seen[c] \/ row.version > seen[c].version

PatchesNameWhatWasSeen ==
    \A c \in Clients : patch[c].expected # 0 => patch[c].op # "none" /\ seen[c] # Gone
                                                /\ patch[c].expected = seen[c].version

BumpsHoldTheRow ==
    \A c \in Clients :
       /\ patch[c].op = "patch" => row # Gone
       /\ patch[c].op = "bumped" =>
              /\ holder = c /\ row # Gone
              /\ Matches(patch[c].expected) /\ patch[c].version = row.version + 1

Versioned ==
    /\ row \in [version : Nat, body : Bodies] /\ (row # Gone => row.version > 0)
    /\ seen \in [Clients -> [version : Nat, body : Bodies]]
    /\ patch \in [Clients -> [op : {"none", "patch", "orphan", "bumped", "post"}, body : Bodies, expected : Nat, version : Nat]]
    /\ \A c \in Clients : c \notin reposted /\ seen[c] # Gone => LaterThanSeen(c)

IInv == Versioned /\ PatchesNameWhatWasSeen /\ BumpsHoldTheRow

=============================================================================
