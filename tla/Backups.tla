------------------------------ MODULE Backups ------------------------------
(***************************************************************************)
(* run_backup: dump the database, prove that the dump restores into a      *)
(* scratch database, store it under its time, delete the oldest.  A job    *)
(* may end anywhere; the daily one and one started by hand may overlap.    *)
(*                                                                         *)
(* The bucket stores an object whole or not at all; it lists at most       *)
(* PageSize names, in their order, and pruning reads one page: that is the *)
(* oldest one.  The local directory has no pages, but a file is there,     *)
(* under its name, from the moment it is opened: a job that ends while it  *)
(* writes leaves a dump cut short.                                         *)
(***************************************************************************)
EXTENDS Integers, FiniteSets

CONSTANTS
    Jobs,
    MaxJobs,        \* how many jobs there are
    Retention,      \* BACKUP_RETENTION_COUNT
    PageSize        \* of list_objects_v2

VARIABLES
    remote,         \* is there a bucket, or only the local directory?
    stored,         \* the backups there are: time -> whole, broken, cut or mixed
    clock,          \* counts the moments at which a backup got its name
    scratch,        \* scratch databases there are
    job,            \* where each job is
    jobs,           \* how many jobs there were
    uploads         \* history: the names ever stored

vars == <<remote, stored, clock, scratch, job, jobs, uploads>>

NoJob == [at |-> "idle", good |-> TRUE, name |-> 0, doomed |-> {}]

Init ==
    /\ remote \in BOOLEAN
    /\ stored = <<>>
    /\ clock = 0
    /\ scratch = {}
    /\ job = [j \in Jobs |-> NoJob]
    /\ jobs = 0
    /\ uploads = {}

Step(j, from, to) == job[j].at = from /\ job' = [job EXCEPT ![j].at = to]

\* run_pg_dump: what it returns may not restore.
Dump(j, good) ==
    /\ job[j].at = "idle" /\ jobs < MaxJobs
    /\ jobs' = jobs + 1
    /\ job' = [job EXCEPT ![j] = [NoJob EXCEPT !.at = "dumped", !.good = good]]
    /\ UNCHANGED <<remote, stored, clock, scratch, uploads>>

\* verify_backup_restorable: create a database, restore into it, drop it always.
CreateScratch(j) ==
    /\ Step(j, "dumped", "restoring")
    /\ scratch' = scratch \cup {j}
    /\ UNCHANGED <<remote, stored, clock, jobs, uploads>>

Restore(j) ==
    /\ Step(j, "restoring", IF job[j].good THEN "verified" ELSE "failed")
    /\ UNCHANGED <<remote, stored, clock, scratch, jobs, uploads>>

DropScratch(j) ==
    /\ job[j].at \in {"verified", "failed"}
    /\ scratch' = scratch \ {j}
    /\ job' = [job EXCEPT ![j] = IF @.at = "verified" THEN [@ EXCEPT !.at = "ready"] ELSE NoJob]
    /\ UNCHANGED <<remote, stored, clock, jobs, uploads>>

\* The name is the second it is; two jobs may take one.
Name(j) ==
    \E time \in {clock, clock + 1} \ {0} :
        /\ job[j].at = "ready"
        /\ job' = [job EXCEPT ![j].at = "named", ![j].name = time]
        /\ clock' = time
        /\ UNCHANGED <<remote, stored, scratch, jobs, uploads>>

Put(j, content) ==
    /\ stored' = [t \in DOMAIN stored \cup {job[j].name} |-> IF t = job[j].name THEN content ELSE stored[t]]
    /\ uploads' = uploads \cup {job[j].name}
    /\ UNCHANGED <<remote, clock, scratch, jobs>>

Content(j) == IF job[j].good THEN "whole" ELSE "broken"

\* upload_backup: one call to the bucket.
PutObject(j) ==
    /\ remote
    /\ Step(j, "named", "stored")
    /\ Put(j, Content(j))

\* ... or a local file, opened and emptied first; another job may be writing it.
BeginWrite(j) ==
    /\ ~remote
    /\ Step(j, "named", "writing")
    /\ Put(j, IF \E k \in Jobs : job[k].at = "writing" /\ job[k].name = job[j].name THEN "mixed" ELSE "cut")

\* ... and written; a file that was deleted meanwhile stays so.
EndWrite(j) ==
    LET t == job[j].name
    IN  /\ Step(j, "writing", "stored")
        /\ \/ stored' = [u \in DOMAIN stored |-> IF u = t THEN Content(j) ELSE stored[u]]
           \/ t \in DOMAIN stored /\ stored[t] # "cut" /\ stored' = [stored EXCEPT ![t] = "mixed"]
        /\ UNCHANGED <<remote, clock, scratch, jobs, uploads>>

\* The n greatest of a set of times.
Newest(n, times) == {t \in times : Cardinality({u \in times : u > t}) < n}

\* What a listing returns.
Page(times) == IF remote THEN {t \in times : Cardinality({u \in times : u < t}) < PageSize} ELSE times

\* The names are sorted the other way round.
Doomed_Ascending == Newest(Cardinality(Page(DOMAIN stored)) - Retention, Page(DOMAIN stored))

\* prune_r2_timestamped_objects, prune_local_timestamped_files: of what is listed,
\* what is not among the newest.
Doomed == Page(DOMAIN stored) \ Newest(Retention, Page(DOMAIN stored))

List(j) ==
    /\ job[j].at = "stored"
    /\ job' = [job EXCEPT ![j] = [@ EXCEPT !.at = "pruning", !.doomed = Doomed]]
    /\ UNCHANGED <<remote, stored, clock, scratch, jobs, uploads>>

\* A local file that another job has deleted raises, and the job ends (Crash).
DeleteOne(j) ==
    /\ job[j].at = "pruning"
    /\ \E t \in job[j].doomed :
          /\ remote \/ t \in DOMAIN stored
          /\ stored' = [u \in DOMAIN stored \ {t} |-> stored[u]]
          /\ job' = [job EXCEPT ![j].doomed = @ \ {t}]
    /\ UNCHANGED <<remote, clock, scratch, jobs, uploads>>

Finish(j) ==
    /\ job[j].at = "pruning" /\ job[j].doomed = {}
    /\ job' = [job EXCEPT ![j] = NoJob]
    /\ UNCHANGED <<remote, stored, clock, scratch, jobs, uploads>>

\* The job ends: a scratch database it created stays behind.
Crash(j) ==
    /\ job[j].at # "idle"
    /\ job' = [job EXCEPT ![j] = NoJob]
    /\ UNCHANGED <<remote, stored, clock, scratch, jobs, uploads>>

Next ==
    \E j \in Jobs :
        \/ \E good \in BOOLEAN : Dump(j, good)
        \/ CreateScratch(j) \/ Restore(j) \/ DropScratch(j)
        \/ Name(j) \/ PutObject(j) \/ BeginWrite(j) \/ EndWrite(j)
        \/ List(j) \/ DeleteOne(j) \/ Finish(j) \/ Crash(j)

Spec == Init /\ [][Next]_vars

-----------------------------------------------------------------------------
(* Properties.                                                             *)

TypeOK ==
    /\ stored \in [DOMAIN stored -> {"whole", "broken", "cut", "mixed"}]
    /\ DOMAIN stored \subseteq 1 .. clock
    /\ scratch \subseteq Jobs
    /\ \A j \in Jobs : job[j].doomed \subseteq 1 .. clock /\ job[j].name \in 0 .. clock

\* Wherever jobs end and however they overlap, of the newest Retention backups ever
\* stored none is deleted, no dump that failed to restore is stored, and what is in the
\* bucket is whole.  (A file of the local directory may be cut short; it counts among
\* the newest all the same.)
NewestBackupsAreKept ==
    /\ Newest(Retention, uploads) \subseteq DOMAIN stored
    /\ \A t \in DOMAIN stored : stored[t] # "broken" /\ (remote => stored[t] = "whole")

\* The strengthening every step preserves.  What a job is about to delete was not among
\* the newest when the job listed what there is, and later uploads only push it further
\* down.
Outlived == {t \in uploads : Cardinality({u \in uploads : u > t}) >= Retention}

OnlyOutlivedAreDoomed == \A j \in Jobs : job[j].doomed \subseteq Outlived

OnlyVerifiedAreStored ==
    \A j \in Jobs : job[j].at \in {"verified", "ready", "named", "writing"} => job[j].good

NamesAreTaken ==
    \A j \in Jobs : /\ job[j].at \in {"named", "writing"} => job[j].name \in 1 .. clock
                    /\ job[j].at = "writing" => ~remote

IInv ==
    /\ job \in [Jobs -> [at : {"idle", "dumped", "restoring", "verified", "failed", "ready", "named", "writing",
                                "stored", "pruning"},
                         good : BOOLEAN, name : Nat, doomed : SUBSET Nat]]
    /\ clock \in Nat /\ uploads \subseteq 1 .. clock /\ IsFiniteSet(uploads) /\ DOMAIN stored \subseteq uploads
    /\ OnlyOutlivedAreDoomed /\ OnlyVerifiedAreStored /\ NamesAreTaken /\ NewestBackupsAreKept

=============================================================================
