------------------------------ MODULE Catalog ------------------------------
(***************************************************************************)
(* The experiment catalog: workers insert artifacts, exporters rebuild the *)
(* catalog files from them when the highest id differs from the watermark  *)
(* of the last export (research_runtime.py), and commands that write       *)
(* reports append entries of their own to the same files (catalog.py).     *)
(* Each file is replaced atomically; the files are written one by one.     *)
(*                                                                         *)
(* The files come from the rows of the artifacts, the profile histories    *)
(* from the jobs that are completed.  A report makes both, but a failure   *)
(* that is reported late takes the job out of the completed ones and       *)
(* leaves its artifacts: module JobQueue models how that comes about.      *)
(***************************************************************************)
EXTENDS Integers, FiniteSets, FiniteSetsExt

CONSTANTS
  Exporter,      \* processes that export: the coordinator, a command line
  Registrar,     \* processes that register an entry
  Profile,       \* profiles, each with a history file of its own
  ProfileOf,     \* the profile that the job of an artifact evaluates
  MaxArtifacts,  \* bound: artifacts ever inserted, one by each report
  MaxDeaths,     \* bound: exports and registrations that die half-way
  Concurrent     \* whether write transactions overlap (Postgres), or not (SQLite)

ASSUME CatalogAssumption ==
  /\ MaxArtifacts \in Nat /\ MaxDeaths \in Nat /\ Concurrent \in BOOLEAN
  /\ ProfileOf \in [1 .. MaxArtifacts -> Profile]
  /\ Exporter \intersect Registrar = {} /\ Registrar \intersect (1 .. MaxArtifacts) = {}

VARIABLES
  ids,         \* artifact ids handed out so far
  open,        \* ids whose transaction has not committed
  artifacts,   \* ids of the committed rows
  completed,   \* those of them whose job is completed
  files,       \* entries of catalog.jsonl, experiment_catalog.json, .csv, latest
  history,     \* artifacts behind the profile history files
  watermark,   \* max_artifact_id of .export_state.json, -1 without the file
  proc,        \* what each process does
  deaths,      \* processes that died half-way
  raced,       \* two processes wrote the catalog at the same time
  inverted     \* a lower id committed after a higher one

vars == <<ids, open, artifacts, completed, files, history, watermark, proc, deaths, raced, inverted>>

Process == Exporter \union Registrar
File == 1 .. 4
Idle == [pc |-> "idle", max |-> 0, rows |-> {}]
Newest(set) == IF set = {} THEN 0 ELSE Max(set)

Init ==
  /\ ids = 0 /\ open = {} /\ artifacts = {} /\ completed = {}
  /\ files = [i \in File |-> {}] /\ history = {} /\ watermark = -1
  /\ proc = [p \in Process |-> Idle]
  /\ deaths = 0 /\ raced = FALSE /\ inverted = FALSE

---------------------------------------------------------------------------
(* A worker's report: the id is taken when the row is inserted. *)

Insert ==
  /\ ids < MaxArtifacts /\ (Concurrent \/ open = {})
  /\ ids' = ids + 1 /\ open' = open \union {ids'}
  /\ UNCHANGED <<artifacts, completed, files, history, watermark, proc, deaths, raced, inverted>>

\* complete_job first deletes what an earlier report of the job left, which is
\* of the same profile.
Commit(a) ==
  /\ a \in open /\ open' = open \ {a}
  /\ \E old \in {{}} \union {{b} : b \in {c \in artifacts : ProfileOf[c] = ProfileOf[a]}} :
       /\ artifacts' = (artifacts \ old) \union {a}
       /\ completed' = (completed \ old) \union {a}
  /\ inverted' = (inverted \/ a < Newest(artifacts))
  /\ UNCHANGED <<ids, files, history, watermark, proc, deaths, raced>>

\* fail_job, or the coordinator's take-back, by the id of a job that is completed
\* by now: it is queued or failed again, and its result and its artifacts stay.
LateFailure(a) ==
  /\ a \in completed /\ completed' = completed \ {a}
  /\ UNCHANGED <<ids, open, artifacts, files, history, watermark, proc, deaths, raced, inverted>>

---------------------------------------------------------------------------
(* export_runtime_catalog. *)

\* Mutant: whether the catalog file is there is all that is asked.
DueIfMissing(max) == watermark = -1

\* The guard of the rebuild.
Due(max) == watermark # max

\* Nothing else writes the catalog files.
Alone(p) == \A q \in Process \ {p} : proc[q].pc = "idle"

ExportCheck(p) ==
  /\ proc[p].pc = "idle" /\ Due(Newest(artifacts))
  /\ proc' = [proc EXCEPT ![p].pc = "rows", ![p].max = Newest(artifacts)]
  /\ raced' = (raced \/ ~Alone(p))
  /\ UNCHANGED <<ids, open, artifacts, completed, files, history, watermark, deaths, inverted>>

\* Mutant: the watermark is written before the files.
SelectAndMark(p) ==
  /\ proc[p].pc = "rows" /\ watermark' = proc[p].max
  /\ proc' = [proc EXCEPT ![p].pc = "file1", ![p].rows = artifacts]
  /\ UNCHANGED <<ids, open, artifacts, completed, files, history, deaths, raced, inverted>>

\* A second SELECT, which sees what was committed since.
ExportSelect(p) ==
  /\ proc[p].pc = "rows"
  /\ proc' = [proc EXCEPT ![p].pc = "file1", ![p].rows = artifacts]
  /\ UNCHANGED <<ids, open, artifacts, completed, files, history, watermark, deaths, raced, inverted>>

\* Mutant: the newest entries are left to the next export.
PcSkippingLatest(i) == CASE i = 1 -> "file2" [] i = 2 -> "file3" [] OTHER -> "history"

PcAfter(i) == CASE i = 1 -> "file2" [] i = 2 -> "file3" [] i = 3 -> "file4" [] i = 4 -> "history"

\* write_catalog_snapshot: one file of the four.
WriteFile(p, i) ==
  /\ proc[p].pc = <<"file1", "file2", "file3", "file4">>[i]
  /\ files' = [files EXCEPT ![i] = proc[p].rows]
  /\ proc' = IF i = 4 /\ p \in Registrar THEN [proc EXCEPT ![p] = Idle]
             ELSE [proc EXCEPT ![p].pc = PcAfter(i)]
  /\ UNCHANGED <<ids, open, artifacts, completed, history, watermark, deaths, raced, inverted>>

\* _write_profile_history_snapshot reads the completed jobs and replaces the
\* file of each profile that has one; the others are left as they are.
WriteHistory(p) ==
  /\ proc[p].pc = "history"
  /\ history' = completed \union {h \in history : \A a \in completed : ProfileOf[a] # ProfileOf[h]}
  /\ proc' = [proc EXCEPT ![p].pc = "watermark"]
  /\ UNCHANGED <<ids, open, artifacts, completed, files, watermark, deaths, raced, inverted>>

WriteWatermark(p) ==
  /\ proc[p].pc = "watermark" /\ watermark' = proc[p].max
  /\ proc' = [proc EXCEPT ![p] = Idle]
  /\ UNCHANGED <<ids, open, artifacts, completed, files, history, deaths, raced, inverted>>

---------------------------------------------------------------------------
(* register_catalog_entry: the entries of the first file and one more. *)

Register(p) ==
  /\ proc[p].pc = "idle" /\ p \notin files[1]
  /\ proc' = [proc EXCEPT ![p].pc = "file1", ![p].rows = files[1] \union {p}]
  /\ raced' = (raced \/ ~Alone(p))
  /\ UNCHANGED <<ids, open, artifacts, completed, files, history, watermark, deaths, inverted>>

\* The process ends, or a file cannot be replaced.
Die(p) ==
  /\ deaths < MaxDeaths /\ deaths' = deaths + 1 /\ proc[p].pc # "idle"
  /\ proc' = [proc EXCEPT ![p] = Idle]
  /\ UNCHANGED <<ids, open, artifacts, completed, files, history, watermark, raced, inverted>>

Export(p) ==
  ExportCheck(p) \/ ExportSelect(p) \/ WriteHistory(p) \/ WriteWatermark(p) \/ \E i \in File : WriteFile(p, i)

Next ==
  \/ Insert \/ (\E a \in open : Commit(a)) \/ \E a \in completed : LateFailure(a)
  \/ \E p \in Exporter : Export(p)
  \/ \E p \in Registrar : Register(p) \/ \E i \in File : WriteFile(p, i)
  \/ \E p \in Process : Die(p)

\* Transactions end, the coordinator's loop goes on exporting, and a process
\* that has begun to write its files goes on.
Spec ==
  /\ Init /\ [][Next]_vars
  /\ WF_vars(\E a \in open : Commit(a))
  /\ \A p \in Exporter : WF_vars(Export(p))
  /\ \A p \in Registrar : WF_vars(\E i \in File : WriteFile(p, i))

---------------------------------------------------------------------------
(* Properties. *)

Settled == (\A p \in Process : proc[p].pc = "idle") /\ watermark = Newest(artifacts)

TypeOK ==
  /\ ids \in 0 .. MaxArtifacts /\ open \subseteq 1 .. ids
  /\ artifacts \subseteq (1 .. ids) \ open /\ completed \subseteq artifacts
  /\ files \in [File -> SUBSET (1 .. ids \union Registrar)]
  /\ history \subseteq 1 .. ids /\ watermark \in -1 .. ids
  /\ \A p \in Process : proc[p].max \in 0 .. ids /\ (proc[p].pc = "idle" => proc[p] = Idle)

Of(f, set) == {a \in set : ProfileOf[a] = f}

\* The history files have every report that counts, and a profile none of whose
\* reports was taken back by a late failure has these and no others.
HistoriesAreExact ==
  /\ completed \subseteq history
  /\ \A f \in Profile : Of(f, artifacts) \subseteq completed => Of(f, history) = Of(f, artifacts)

\* An export that counts as up to date is exact, in every file and in the
\* profile histories, wherever exports and registrations died before and
\* whatever a second report of a job replaced: the watermark is written last.
\* Only two writers at once, or an id that committed after a higher one, leave
\* an artifact out, or an entry that was replaced in, for good.  A late failure
\* does not move the watermark: the profile of the job may keep the report in
\* its history or not have it, but it never loses one that is still completed.
UpToDateIsExact ==
  Settled /\ ~raced /\ ~inverted =>
    (\A i \in File : files[i] \ Registrar = artifacts) /\ HistoriesAreExact

\* The files hold the same entries when nobody writes them, unless a writer died
\* between them or two wrote at once.
FilesAgree ==
  (\A p \in Process : proc[p].pc = "idle") /\ deaths = 0 /\ ~raced =>
    \A i, j \in File : files[i] = files[j]

\* Every committed artifact reaches the last of the files, unless it is
\* replaced first and races apart.
CatalogCatchesUp ==
  \A a \in 1 .. MaxArtifacts :
    a \in artifacts ~> (a \notin artifacts \/ raced \/ inverted \/ \A i \in File : a \in files[i])
=============================================================================
