-------------------------- MODULE StatementLedger --------------------------
(***************************************************************************)
(* The imported half of one user's posting ledger: uploads are archived,   *)
(* parsed and merged into the ledger; a rebuild replays the archive.       *)
(*                                                                         *)
(* A fingerprint stands for the facts a transaction's id is hashed from:   *)
(* account, day, amount, description.  An id is <<importer, fingerprint,   *)
(* n>>, n = 1 for the plain hash and n > 1 for the suffix "#n".  A file is *)
(* a record: its account, whether it is a spreadsheet, which importers can *)
(* parse it, and how many rows it has of each fingerprint.                 *)
(*                                                                         *)
(* Imports run on the event loop, one at a time; a rebuild runs on a       *)
(* thread beside them.  Each reads (the ledger, or the archive), reads the *)
(* ids the ledger has when it begins to write, and commits: rows it did    *)
(* not find are inserted, what it found and does not have is pruned.  An   *)
(* id that the other job committed in between is neither.  The override,   *)
(* split and merge rows of what is pruned cascade, its links are deleted.  *)
(***************************************************************************)
EXTENDS Naturals, FiniteSets

CONSTANTS
    Files,          \* what may be uploaded
    Prints,         \* fingerprints, each of one account
    BankAccounts,   \* accounts of an institution and kind with an importer
    Manual,         \* transactions typed in by hand
    MaxUploads,     \* how many uploads the archive holds
    MaxLinks        \* how many transfer links there are at once

VARIABLES
    archive,        \* file to how many copies of it are archived
    accounts,       \* accounts that exist
    ledger,         \* ids of the imported transactions
    links,          \* transfer links, each two transactions
    importing,      \* the import under way
    rebuilding      \* the rebuild under way

ledgerVars == <<ledger, links>>
vars == <<archive, accounts, ledgerVars, importing, rebuilding>>

\* A job that is idle has no file of its own: any stands there.
Idle == [at |-> "idle", file |-> CHOOSE f \in Files : TRUE, route |-> "none",
         seen |-> {}, found |-> {}, overtaken |-> FALSE]

\* How many transactions of a fingerprint a set of ids has.
Copies(ids, p) == {id \in ids : id[2] = p}
Covered(ids, f) == \A p \in Prints : Cardinality(Copies(ids, p)) >= f.rows[p]

\* Rows are matched by their ids alone, whichever importer made the ones there are.
Merge_Blind(ids, importer, rows) ==
    ids \cup UNION {{<<importer, p, n>> : n \in 1..rows[p]} : p \in Prints}

\* _merge_ledger: rows match the copies already there by count, in the order of
\* their suffixes; the rest get the importer's hash and their place as suffix.
Merge(ids, importer, rows) ==
    ids \cup UNION {{<<importer, p, n>> : n \in (Cardinality(Copies(ids, p)) + 1)..rows[p]} : p \in Prints}

Uploads == LET count[S \in SUBSET Files] ==
                   IF S = {} THEN 0
                   ELSE LET f == CHOOSE x \in S : TRUE IN archive[f] + count[S \ {f}]
           IN  count[Files]

TypeOK ==
    /\ archive \in [Files -> 0..MaxUploads]
    /\ accounts \subseteq {f.account : f \in Files}
    /\ \A id \in ledger : id[1] \in {"bank", "canonical"} /\ id[2] \in Prints /\ id[3] \in Nat \ {0}
    /\ Cardinality(links) <= MaxLinks
    /\ \A link \in links : Cardinality(link) = 2 /\ link \subseteq ledger \cup Manual
    /\ importing.at \in {"idle", "archived", "read", "writing"}
    /\ rebuilding.at \in {"idle", "read", "writing"}
    /\ importing.found \cup rebuilding.found \subseteq ledger

Init ==
    /\ archive = [f \in Files |-> 0]
    /\ accounts = {f.account : f \in Files}
    /\ ledger = {}
    /\ links = {}
    /\ importing = Idle
    /\ rebuilding = Idle

\* A posting needs its account; one that was deleted meanwhile raises a KeyError.
HaveAccounts(ids) ==
    {id[2] : id \in ids} \subseteq {p \in Prints : \E f \in Files : f.account \in accounts /\ f.rows[p] > 0}

\* existing_transaction_ids: what the ledger has when the job begins to write.
Begin(job) == [job EXCEPT !.at = "writing", !.found = ledger]

\* What a job may become when the other one commits and leaves the ledger as it is then:
\* the rows it found that were pruned are gone; those of them it has to write are
\* inserted again, or not, if it had merged them already.
Behind(job, lost) == [job EXCEPT !.overtaken = TRUE, !.found = @ \cap ledger', !.seen = @ \ lost]

Overtaken(job) ==
    IF job.at \in {"read", "writing"}
    THEN {Behind(job, lost) : lost \in SUBSET ((job.seen \cap job.found) \ ledger')}
    ELSE {job}

\* A pruned transaction takes its own end of a link only.
Write_LinksCascade(job) ==
    /\ job.at = "writing"
    /\ HaveAccounts(job.seen)
    /\ (job.seen \ job.found) \cap ledger = {}
    /\ ledger' = (ledger \ job.found) \cup job.seen
    /\ links' = {link \cap (ledger' \cup Manual) : link \in links}

\* _write_ledger: what the job found becomes what it has, and a link goes with either of
\* its two.  The unique key refuses a row that the other job has inserted meanwhile.
Write(job) ==
    /\ job.at = "writing"
    /\ HaveAccounts(job.seen)
    /\ (job.seen \ job.found) \cap ledger = {}
    /\ ledger' = (ledger \ job.found) \cup job.seen
    /\ links' = {link \in links : link \subseteq ledger' \cup Manual}

-----------------------------------------------------------------------------
(* Imports.                                                                *)

\* The upload is archived first, once its account and importer are known.
\* The bank route needs an importer for the account; a spreadsheet has one route.
Upload(f, route) ==
    /\ importing.at = "idle"
    /\ Uploads < MaxUploads
    /\ f.account \in accounts
    /\ route = "bank" => f.account \in BankAccounts /\ ~f.spreadsheet
    /\ archive' = [archive EXCEPT ![f] = @ + 1]
    /\ importing' = [Idle EXCEPT !.at = "archived", !.file = f, !.route = route]
    /\ UNCHANGED <<accounts, ledgerVars, rebuilding>>

\* The importer that takes the file; a bank upload falls back to the canonical one.
Importer(f, route) ==
    CASE route = "bank" /\ f.bank -> "bank"
      [] f.canonical              -> "canonical"
      [] OTHER                    -> "none"

\* Parse the file and load the ledger.
Load ==
    /\ importing.at = "archived"
    /\ Importer(importing.file, importing.route) # "none"
    /\ importing' = [importing EXCEPT !.at = "read", !.seen = ledger]
    /\ UNCHANGED <<archive, accounts, ledgerVars, rebuilding>>

\* Neither parser takes it (500, or 422 on the canonical route), or a statement
\* fails: the file stays in the archive.
ImportFails ==
    /\ importing.at # "idle"
    /\ importing' = Idle
    /\ UNCHANGED <<archive, accounts, ledgerVars, rebuilding>>

\* Merge the file into what was loaded, and begin to write.
ImportBegins ==
    LET f == importing.file
    IN  /\ importing.at = "read"
        /\ importing' = [Begin(importing) EXCEPT !.seen = Merge(@, Importer(f, importing.route), f.rows)]
        /\ UNCHANGED <<archive, accounts, ledgerVars, rebuilding>>

ImportWrites ==
    /\ Write(importing)
    /\ importing' = Idle
    /\ rebuilding' \in Overtaken(rebuilding)
    /\ UNCHANGED <<archive, accounts>>

-----------------------------------------------------------------------------
(* Rebuild.                                                                *)

\* Files the canonical importer takes are left out.
Listed_BankOnly == {f \in Files : archive[f] > 0 /\ ~f.spreadsheet /\ ~f.canonical}

\* The text files of the archive.
Listed == {f \in Files : archive[f] > 0 /\ ~f.spreadsheet}

\* Every archived text file goes through the bank importer of its account; the
\* rows of all files are one file to the merge.
Replayed ==
    LET total(p) == LET sum[S \in SUBSET Files] ==
                            IF S = {} THEN 0
                            ELSE LET f == CHOOSE x \in S : TRUE
                                 IN  archive[f] * f.rows[p] + sum[S \ {f}]
                    IN  sum[Listed]
    IN  [p \in Prints |-> total(p)]

\* List, read and parse the archive.  A missing account, an account without an
\* importer or a file its importer refuses raises, and nothing is written.
RebuildReads ==
    /\ rebuilding.at = "idle"
    /\ Listed # {}
    /\ \A f \in Listed : f.account \in accounts /\ f.account \in BankAccounts /\ f.bank
    /\ rebuilding' = [Idle EXCEPT !.at = "read", !.seen = Merge({}, "bank", Replayed)]
    /\ UNCHANGED <<archive, accounts, ledgerVars, importing>>

RebuildFails ==
    /\ rebuilding.at # "idle"
    /\ rebuilding' = Idle
    /\ UNCHANGED <<archive, accounts, ledgerVars, importing>>

RebuildBegins ==
    /\ rebuilding.at = "read"
    /\ rebuilding' = Begin(rebuilding)
    /\ UNCHANGED <<archive, accounts, ledgerVars, importing>>

RebuildWrites ==
    /\ Write(rebuilding)
    /\ rebuilding' = Idle
    /\ importing' \in Overtaken(importing)
    /\ UNCHANGED <<archive, accounts>>

-----------------------------------------------------------------------------
(* What the user does between.                                             *)

Transactions == ledger \cup Manual

\* Two transactions are linked, each at most once.
Link(id, other) ==
    /\ {id, other} \subseteq Transactions
    /\ id # other
    /\ Cardinality(links) < MaxLinks
    /\ \A link \in links : {id, other} \cap link = {}
    /\ links' = links \cup {{id, other}}
    /\ UNCHANGED <<archive, accounts, ledger, importing, rebuilding>>

\* An account with postings cannot be deleted; one with archived files can.
DeleteAccount(a) ==
    /\ a \in accounts
    /\ \A f \in Files : f.account = a => \A p \in Prints : f.rows[p] > 0 => Copies(ledger, p) = {}
    /\ accounts' = accounts \ {a}
    /\ UNCHANGED <<archive, ledgerVars, importing, rebuilding>>

Next ==
    \/ \E f \in Files, route \in {"bank", "canonical"} : Upload(f, route)
    \/ Load \/ ImportFails \/ ImportBegins \/ ImportWrites
    \/ RebuildReads \/ RebuildFails \/ RebuildBegins \/ RebuildWrites
    \/ \E id, other \in Transactions : Link(id, other)
    \/ \E a \in accounts : DeleteAccount(a)

Spec == Init /\ [][Next]_vars

-----------------------------------------------------------------------------
(* Properties.                                                             *)

\* The copies of a fingerprint carry the suffixes 1 to n, whichever importers and
\* rebuilds made them: the suffix _reassign_colliding_transaction_ids hands out
\* next is never one that is taken, which unique(keep="last") would overwrite.
CopiesAreNumbered ==
    \A p \in Prints :
        {id[3] : id \in Copies(ledger, p)} = 1..Cardinality(Copies(ledger, p))

\* Copies that are numbered stay so, unless the write is one that the other job
\* committed beside: an import next to a rebuild may leave the union of both.
CopiesStayNumbered ==
    CopiesAreNumbered => CopiesAreNumbered' \/ importing.overtaken \/ rebuilding.overtaken

\* A transaction, with all that is attached to it, leaves the ledger only through
\* a job that another job's write overtook, or through a rebuild if the canonical
\* importer made it: the rebuild knows the bank importers only.
OnlyOvertakenJobsLose ==
    \A id \in ledger \ ledger' :
       \/ importing.overtaken \/ rebuilding.overtaken
       \/ id[1] = "canonical"

\* Importing again what the ledger has adds nothing and renames nothing, whatever
\* the order of rows and whoever imported it first.
ReimportAddsNothing ==
    ImportWrites /\ ~importing.overtaken /\ Covered(ledger, importing.file)
       => ledger' = ledger

-----------------------------------------------------------------------------
(* What the properties rest on.                                            *)

IsAnId(id) ==
    /\ id = <<id[1], id[2], id[3]>>
    /\ id[1] \in {"bank", "canonical"} /\ id[2] \in Prints /\ id[3] \in Nat \ {0}

Numbered(ids) ==
    \A p \in Prints :
        /\ IsFiniteSet(Copies(ids, p))
        /\ {id[3] : id \in Copies(ids, p)} = 1..Cardinality(Copies(ids, p))

\* What a bank importer made is in the archive.
Archived(ids) == \A id \in ids : id[1] = "bank" => id[3] <= Replayed[id[2]]

Sound(ids) ==
    /\ \A id \in ids : IsAnId(id)
    /\ \A p \in Prints : IsFiniteSet(Copies(ids, p))
    /\ Archived(ids)

\* An import knows its file; unless a rebuild wrote since it loaded the ledger, it has
\* the ledger, or its file merged into the ledger it found.
ImportStands ==
    LET f == importing.file
        importer == Importer(f, importing.route)
    IN  /\ importing.at # "idle" =>
              /\ f \in Files /\ archive[f] > 0
              /\ importing.route = "bank" => ~f.spreadsheet
        /\ importing.at \in {"read", "writing"} => importer # "none"
        /\ importing.at = "read" /\ ~importing.overtaken => importing.seen = ledger
        /\ importing.at = "writing" /\ ~importing.overtaken =>
              importing.found = ledger /\ importing.seen = Merge(ledger, importer, f.rows)

\* Unless an import wrote since it read, a rebuild has what the bank importers made, its
\* copies numbered, and has found the ledger.
RebuildStands ==
    rebuilding.at \in {"read", "writing"} /\ ~rebuilding.overtaken =>
        /\ \A id \in ledger : id[1] = "bank" => id \in rebuilding.seen
        /\ Numbered(rebuilding.seen)
        /\ rebuilding.at = "writing" => rebuilding.found = ledger

IsAJob(job) == DOMAIN job = {"at", "file", "route", "seen", "found", "overtaken"}

IInv ==
    /\ archive \in [Files -> Nat]
    /\ Sound(ledger) /\ Sound(importing.seen) /\ Sound(rebuilding.seen)
    /\ IsAJob(importing) /\ IsAJob(rebuilding)
    /\ ImportStands /\ RebuildStands

=============================================================================
