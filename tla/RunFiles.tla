------------------------------ MODULE RunFiles ------------------------------
(***************************************************************************)
(* The files of a measurement: how the engine records a run (`execute`,    *)
(* iv-core's CsvWriter, raw_csv.rs) and how the user interface saves a     *)
(* copy of one (run_export.rs), on a directory that several processes use  *)
(* at the same time.  Every file operation may fail; a process may be      *)
(* killed and the power may fail between any two.                          *)
(***************************************************************************)
EXTENDS Naturals

CONSTANTS
    Recorders,     \* measurement engines
    Exporters,     \* user interfaces, each with at most one file task
    Stems,         \* file names without extension
    Old,           \* the stem of a run completed earlier
    None,
    MaxJobs,       \* bound: runs and copies begun
    MaxFaults      \* bound: killed processes and power failures

ASSUME RunFilesAssumption ==
    /\ Old \in Stems /\ Recorders \cap Exporters = {}
    /\ MaxJobs \in Nat /\ MaxFaults \in Nat

\* What can be recorded: contents, hashes of the recordings, manifests, files.
Data == Nat \X (0..3)
Hash == [csv : Data, raw : Data \cup {None}]
Says == {m \in [final : BOOLEAN, audit : BOOLEAN, hashed : BOOLEAN, hash : Hash \cup {None}, error : BOOLEAN] :
           ~m.hashed => m.hash = None}
Files == [by : Nat, data : Data, synced : BOOLEAN, says : Says \cup {None}]
ASSUME NoneAssumption == None \notin Files \cup Data

VARIABLES
    disk,      \* external: the file at every path
    job,       \* what each process is doing
    jobs,      \* runs and copies begun
    left,      \* files whose removal failed
    faults     \* killed processes and power failures

vars == <<disk, job, jobs, left, faults>>

Actors == Recorders \cup Exporters
Kinds == {"csv", "raw", "json", "tmp"}     \* .csv, .raw.csv, .run.json, .run.json.tmp
Outcome == {"csv", "raw", "json"}

\* data: which content, of which run and how far.  says: what a manifest says.
\* A hash identifies a content.
Torn == <<0, 0>>
Header(id) == <<id, 1>>
Rows(id) == <<id, 2>>
Whole(id) == <<id, 3>>
File(by, data, synced, says) == [by |-> by, data |-> data, synced |-> synced, says |-> says]
\* audit, hashed: it mentions an audit, hashes (perhaps null).  error: it reports one.
Progress == [final |-> FALSE, audit |-> TRUE, hashed |-> FALSE, hash |-> None, error |-> FALSE]
Final(audit, hashed, hash, error) ==
    [final |-> TRUE, audit |-> audit, hashed |-> hashed, hash |-> hash, error |-> error]

Idle == [pc |-> "idle", id |-> 0, to |-> None, from |-> None, says |-> None, hash |-> None,
         error |-> FALSE, created |-> {}]

\* A run of an earlier version may have no hashes, or no audit either.
Init ==
    /\ \E audit, hashed \in BOOLEAN :
         LET hash == IF hashed THEN [csv |-> Whole(0), raw |-> Whole(0)] ELSE None
         IN  (hashed => audit) /\ disk = [f \in Stems \X Kinds |->
               CASE f = <<Old, "csv">> -> File(0, Whole(0), TRUE, None)
                 [] f = <<Old, "raw">> /\ audit -> File(0, Whole(0), TRUE, None)
                 [] f = <<Old, "json">> -> File(0, Whole(0), TRUE, Final(audit, hashed, hash, FALSE))
                 [] OTHER -> None]
    /\ job = [a \in Actors |-> Idle]
    /\ jobs = 0 /\ left = {} /\ faults = 0

-----------------------------------------------------------------------------
(* Steps of one process *)

At(a, p) == job[a].pc = p
Path(a, k) == <<job[a].to, k>>
Exists(s, k) == disk[<<s, k>>] # None
Step(a, j) == job' = [job EXCEPT ![a] = j] /\ UNCHANGED <<jobs, faults>>
Goto(a, p) == Step(a, [job[a] EXCEPT !.pc = p])
Put(f, x) == disk' = [disk EXCEPT ![f] = x]
New(a, k, data) == Put(Path(a, k), File(job[a].id, data, FALSE, None))

Start(a, j) ==
    /\ At(a, "idle") /\ jobs < MaxJobs
    /\ jobs' = jobs + 1
    /\ job' = [job EXCEPT ![a] = [j EXCEPT !.id = jobs + 1]]
    /\ UNCHANGED <<disk, left, faults>>

-----------------------------------------------------------------------------
(* The engine records a run *)

\* check_recording_destinations; a run that is refused leaves no trace.
Record(a, s) ==
    /\ \A k \in Outcome : ~Exists(s, k)
    /\ Start(a, [Idle EXCEPT !.pc = "csv", !.to = s])

\* An error before the measurement keeps what was created.
Abandon(a) == Step(a, Idle)

\* CsvWriter::create: the file and its header.
CreateCsv(a) ==
    /\ At(a, "csv")
    /\ \/ ~Exists(job[a].to, "csv") /\ New(a, "csv", Header(job[a].id)) /\ (Goto(a, "raw") \/ Abandon(a))
       \/ UNCHANGED disk /\ Abandon(a)
    /\ UNCHANGED left

\* RawWriter::create: a file whose header cannot be written is removed again,
\* if that is possible.
CreateAudit(a) ==
    /\ At(a, "raw")
    /\ \/ ~Exists(job[a].to, "raw") /\ New(a, "raw", Header(job[a].id)) /\ (Goto(a, "json") \/ Abandon(a))
       \/ UNCHANGED disk /\ Abandon(a)
    /\ UNCHANGED left

\* write_json_new: created, written, synced.
CreateManifest(a) ==
    /\ At(a, "json")
    /\ \/ /\ ~Exists(job[a].to, "json")
          /\ \/ Put(Path(a, "json"), File(job[a].id, Whole(job[a].id), TRUE, Progress)) /\ Goto(a, "measure")
             \/ New(a, "json", Torn) /\ Abandon(a)
       \/ UNCHANGED disk /\ Abandon(a)
    /\ UNCHANGED left

\* Rows and audit events are appended and flushed, not synced.
Measure(a) ==
    /\ At(a, "measure") /\ Goto(a, "finish csv")
    /\ disk' = [disk EXCEPT ![Path(a, "csv")].data = Whole(job[a].id),
                            ![Path(a, "raw")].data = Rows(job[a].id)]
    /\ UNCHANGED left

\* CsvWriter::finish.
FinishCsv(a) ==
    /\ At(a, "finish csv")
    /\ \/ Goto(a, "finish raw") /\ disk' = [disk EXCEPT ![Path(a, "csv")].synced = TRUE]
       \/ Step(a, [job[a] EXCEPT !.pc = "finish raw", !.error = TRUE]) /\ UNCHANGED disk
    /\ UNCHANGED left

\* The event run_finished and RawWriter::finish.
FinishAudit(a) ==
    /\ At(a, "finish raw")
    /\ \E data \in {Rows(job[a].id), Whole(job[a].id)}, synced \in BOOLEAN :
         /\ synced => data = Whole(job[a].id)
         /\ disk' = [disk EXCEPT ![Path(a, "raw")].data = data,
                                 ![Path(a, "raw")].synced = synced]
         /\ Step(a, [job[a] EXCEPT !.pc = "hash", !.error = @ \/ ~synced])
    /\ UNCHANGED left

HashOf(s, audit) == [csv |-> disk[<<s, "csv">>].data, raw |-> IF audit THEN disk[<<s, "raw">>].data ELSE None]

\* Mutant: an error of the recordings is forgotten once they have been hashed.
HashesForgive(a) ==
    /\ At(a, "hash")
    /\ Step(a, [job[a] EXCEPT !.pc = "tmp", !.hash = HashOf(job[a].to, TRUE), !.error = FALSE])
    /\ UNCHANGED <<disk, left>>
\* recording_hashes.
Hashes(a) ==
    /\ At(a, "hash")
    /\ \/ Step(a, [job[a] EXCEPT !.pc = "tmp", !.hash = HashOf(job[a].to, TRUE)])
       \/ Step(a, [job[a] EXCEPT !.pc = "tmp", !.error = TRUE])
    /\ UNCHANGED <<disk, left>>

\* replace_json: a new temporary file, then renamed over the manifest.
WriteTemporary(a) ==
    /\ At(a, "tmp")
    /\ \/ /\ ~Exists(job[a].to, "tmp")
          /\ \/ /\ Put(Path(a, "tmp"), File(job[a].id, Whole(job[a].id), TRUE, Final(TRUE, TRUE, job[a].hash, job[a].error)))
                /\ Goto(a, "rename")
             \/ New(a, "tmp", Torn) /\ Abandon(a)
       \/ UNCHANGED disk /\ Abandon(a)
    /\ UNCHANGED left
Rename(a) ==
    /\ At(a, "rename") /\ Abandon(a)
    /\ \/ disk' = [disk EXCEPT ![Path(a, "json")] = disk[Path(a, "tmp")], ![Path(a, "tmp")] = None]
       \/ UNCHANGED disk
    /\ UNCHANGED left

-----------------------------------------------------------------------------
(* The user interface saves a copy *)

\* parse_completed_metadata: whole, and not in progress.
Completed(s) == Exists(s, "json") /\ disk[<<s, "json">>].data # Torn /\ disk[<<s, "json">>].says.final

Kept(says) == IF says.audit THEN Outcome ELSE Outcome \ {"raw"}

\* same_location: stems stand for resolved places.
SameLocation(from, to) == from = to

\* save_run_copy up to the first file that it creates; a refusal leaves no trace.
\* The sources are open from here on.
SaveCopy(a, from, to) ==
    /\ ~SameLocation(from, to) /\ Completed(from)
    /\ LET says == disk[<<from, "json">>].says
       IN  /\ \A k \in Kept(says) : ~Exists(to, k)
           /\ \A k \in Kept(says) : Exists(from, k)
           /\ Start(a, [Idle EXCEPT !.pc = "open csv", !.to = to, !.from = from, !.says = says,
                                    !.hash = HashOf(from, says.audit)])

\* Mutant: a file counts as created before it is opened.
OpenMarksFirst(a, p, k, next) ==
    /\ At(a, p)
    /\ \/ /\ ~Exists(job[a].to, k) /\ New(a, k, Torn)
          /\ Step(a, [job[a] EXCEPT !.pc = next, !.created = @ \cup {k}])
       \/ UNCHANGED disk /\ Step(a, [job[a] EXCEPT !.pc = "undo json", !.created = @ \cup {k}])
    /\ UNCHANGED left
\* create_new, then the flag; an error begins the cleanup.
Open(a, p, k, next) ==
    /\ At(a, p)
    /\ \/ /\ ~Exists(job[a].to, k) /\ New(a, k, Torn)
          /\ Step(a, [job[a] EXCEPT !.pc = next, !.created = @ \cup {k}])
       \/ UNCHANGED disk /\ Goto(a, "undo json")
    /\ UNCHANGED left

\* io::copy or to_writer_pretty, then sync_all.  What is written may be whole
\* although the sync fails.
Fill(a, p, k, data, says, next) ==
    /\ At(a, p)
    /\ \/ Put(Path(a, k), File(job[a].id, data, TRUE, says)) /\ Goto(a, next)
       \/ Put(Path(a, k), File(job[a].id, data, FALSE, says)) /\ Goto(a, "undo json")
       \/ UNCHANGED disk /\ Goto(a, "undo json")
    /\ UNCHANGED left

CopyCsv(a) ==
    \/ Open(a, "open csv", "csv", "fill csv")
    \/ At(a, "fill csv") /\ Fill(a, "fill csv", "csv", job[a].hash.csv, None,
                                 IF job[a].says.audit THEN "open raw" ELSE "rehash")
CopyAudit(a) ==
    \/ Open(a, "open raw", "raw", "fill raw")
    \/ At(a, "fill raw") /\ Fill(a, "fill raw", "raw", job[a].hash.raw, None, "rehash")

\* The hashes are those of the copy, if the original mentions any.
Rehash(a) ==
    /\ At(a, "rehash")
    /\ \/ /\ job[a].says.hashed
          /\ Step(a, [job[a] EXCEPT !.pc = "open json",
                                    !.says.hash = HashOf(job[a].to, job[a].says.audit)])
       \/ ~job[a].says.hashed /\ Goto(a, "open json")
       \/ job[a].says.hashed /\ Goto(a, "undo json")
    /\ UNCHANGED <<disk, left>>
CopyManifest(a) ==
    \/ Open(a, "open json", "json", "fill json")
    \/ At(a, "fill json") /\ Fill(a, "fill json", "json", Whole(job[a].id), job[a].says, "saved")

\* Only what this call created is removed, and a failure goes into the report.
Remove(a, p, k, next) ==
    /\ At(a, p) /\ Goto(a, next)
    /\ \/ k \notin job[a].created /\ UNCHANGED <<disk, left>>
       \/ k \in job[a].created /\ Put(Path(a, k), None) /\ UNCHANGED left
       \/ k \in job[a].created /\ left' = left \cup {Path(a, k)} /\ UNCHANGED disk
Undo(a) ==
    \/ Remove(a, "undo json", "json", "undo raw")
    \/ Remove(a, "undo raw", "raw", "undo csv")
    \/ Remove(a, "undo csv", "csv", "failed")

\* poll_file_task: the file task is over.
Report(a) ==
    /\ At(a, "saved") \/ At(a, "failed")
    /\ Step(a, Idle)
    /\ UNCHANGED <<disk, left>>

-----------------------------------------------------------------------------
(* Faults *)

Killed(a) ==
    /\ faults < MaxFaults /\ faults' = faults + 1
    /\ ~At(a, "idle") /\ job' = [job EXCEPT ![a] = Idle]
    /\ UNCHANGED <<disk, jobs, left>>

\* external: what was not synced may be lost.
PowerLoss ==
    /\ faults < MaxFaults /\ faults' = faults + 1
    /\ \E F \in SUBSET {f \in DOMAIN disk : disk[f] # None /\ ~disk[f].synced} :
         disk' = [f \in DOMAIN disk |-> IF f \in F THEN [disk[f] EXCEPT !.data = Torn] ELSE disk[f]]
    /\ job' = [a \in Actors |-> Idle]
    /\ UNCHANGED <<jobs, left>>

Next ==
    \/ \E a \in Recorders :
         \/ \E s \in Stems : Record(a, s)
         \/ CreateCsv(a) \/ CreateAudit(a) \/ CreateManifest(a) \/ Measure(a)
         \/ FinishCsv(a) \/ FinishAudit(a) \/ Hashes(a) \/ WriteTemporary(a) \/ Rename(a)
    \/ \E a \in Exporters :
         \/ \E from, to \in Stems : SaveCopy(a, from, to)
         \/ CopyCsv(a) \/ CopyAudit(a) \/ Rehash(a) \/ CopyManifest(a) \/ Undo(a) \/ Report(a)
    \/ \E a \in Actors : Killed(a)
    \/ PowerLoss
Spec == Init /\ [][Next]_vars

-----------------------------------------------------------------------------
(* Properties *)

\* A manifest that calls its run finished, and reports no error, is telling the
\* truth about the files beside it: they are there and have the hashes that it
\* lists, also after a power failure.  The exception is a manifest whose own
\* removal failed, which the report of the copy names.
HashesTrue ==
    \A s \in Stems :
        Completed(s) /\ <<s, "json">> \notin left =>
            LET says == disk[<<s, "json">>].says
            IN  says.hash # None /\ ~says.error =>
                  (\A k \in Kept(says) : Exists(s, k)) /\ HashOf(s, says.audit) = says.hash
\* A copy that is reported as saved has every file of the original with the same
\* content; one that failed leaves nothing of its own that it does not report.
CopyWhole ==
    \A a \in Exporters :
        LET own == {k \in Outcome : Exists(job[a].to, k) /\ disk[Path(a, k)].by = job[a].id}
        IN  /\ At(a, "saved") => own = Kept(job[a].says) /\ HashOf(job[a].to, job[a].says.audit) = job[a].hash
            /\ At(a, "failed") => \A k \in own : Path(a, k) \in left
\* Both: no reader of the directory, and no user who saved a copy, is misled by
\* what save_run_copy and `execute` leave behind.
RunsTrue == HashesTrue /\ CopyWhole

\* Whatever the interleaving of engines and copies, a file is changed, replaced
\* or removed only by the run or copy that created it, or by a power failure.
OwnFilesOnly ==
    [][\A f \in DOMAIN disk :
         disk[f] # None /\ disk'[f] # disk[f] /\ faults' = faults =>
             \E a \in Actors : job'[a] # job[a] /\ job[a].id = disk[f].by]_vars
=============================================================================
