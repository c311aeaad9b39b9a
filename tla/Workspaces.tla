------------------------------ MODULE Workspaces ------------------------------
(***************************************************************************)
(* A workspace: its configuration versions (ConfigBundles) and the runs    *)
(* that execute them (TerraformRuns).  Uploads and workers share the       *)
(* bundle files and nothing else: a run refers to a version by             *)
(* config_version_id, the worker finds the path in the version's row and   *)
(* opens the file only when the run is executed, while other uploads and   *)
(* runs go on.  The API and the workers see one working directory.         *)
(***************************************************************************)
EXTENDS ConfigBundles

CONSTANTS Run, Worker, NoRun, Texts, FaultKinds, MaxFaults     \* of TerraformRuns

CONSTANT NoUpload   \* no version, nothing extracted

ASSUME NoUploadAssumption == NoUpload \notin Upload \cup {Torn}
\* Those of TerraformRuns.
ASSUME RunsAssumption ==
    /\ NoRun \notin Run
    /\ "text" \in Texts /\ Texts \subseteq {"text", "bytes"}
    /\ FaultKinds \subseteq {"crash", "shutdown", "db"} /\ MaxFaults \in Nat

VARIABLES
    request, config, clock, created, status, job, pc, cur, cancelled, dir, proc,
    faults, ahead, refused,     \* of TerraformRuns
    version,    \* tf_runs.config_version_id: the upload that made the version
    seen,       \* what the bundle of a run has held since its worker opened it
    used,       \* whose bytes a run has extracted and executes
    settled     \* history: runs whose bundle nobody was about to write any more

R == INSTANCE TerraformRuns

runVars == <<request, config, clock, created, status, job, pc, cur, cancelled, dir, proc,
             faults, ahead, refused>>

ownVars == <<version, seen, used, settled>>

wvars == <<vars, runVars, ownVars>>

WInit ==
    /\ Init
    /\ R!Init
    /\ version = [r \in Run |-> NoUpload]
    /\ seen = [r \in Run |-> {}]
    /\ used = [r \in Run |-> NoUpload]
    /\ settled = {}

-----------------------------------------------------------------------------
\* The file that bundle_path of a run's version names.
Bundle(r) == file[Path(ver[version[r]])]

Unpacking == {r \in Run : \E w \in Worker : pc[w] = "unpack" /\ cur[w] = r}

\* A step of an upload; a worker that is reading the file may see the change.
UploadStep ==
    /\ Next
    /\ UNCHANGED <<runVars, version, used, settled>>
    /\ seen' = [r \in Run |-> IF r \in Unpacking THEN seen[r] \cup {Bundle(r)'} ELSE seen[r]]

\* A client knows the id of a version from the answer to its upload; the foreign
\* key of tf_runs wants a row and nothing else.
Enqueue(r) ==
    /\ R!EnqueueBegin(r)
    /\ \E u \in Committed \cup {NoUpload} :
          /\ config'[r] = "null" <=> u = NoUpload
          /\ version' = [version EXCEPT ![r] = u]
    /\ UNCHANGED <<vars, seen, used, settled>>

\* No upload is left that got the number of the run's version, and no later one
\* will get it.
Quiet(r) == \A u \in InFlight : ver[u] # ver[version[r]]

\* The path comes from the row that the claim statement returned.
OpenBundle(w) ==
    /\ R!MakeWorkDir(w)
    /\ seen' = [seen EXCEPT ![cur[w]] = {Bundle(cur[w])}]
    /\ settled' = IF Quiet(cur[w]) THEN settled \cup {cur[w]} ELSE settled
    /\ UNCHANGED <<vars, version, used>>

\* Bug: the newest bundle of the workspace instead of the run's.
ExtractNewest(w) ==
    /\ R!Extract(w)
    /\ \E u \in Committed :
          /\ \A x \in Committed : ver[x] <= ver[u]
          /\ used' = [used EXCEPT ![cur[w]] = file[Path(ver[u])]]
    /\ seen' = [seen EXCEPT ![cur[w]] = {}]
    /\ UNCHANGED <<vars, version, settled>>

\* extractTGZ reads to the end: the bytes of one state of the file, or of several.
ExtractBundle(w) ==
    /\ R!Extract(w)
    /\ \E bytes \in seen[cur[w]] \cup {Torn} :
          /\ bytes \in seen[cur[w]] \/ seen[cur[w]] # {Bundle(cur[w])}
          /\ used' = [used EXCEPT ![cur[w]] = bytes]
    /\ seen' = [seen EXCEPT ![cur[w]] = {}]
    /\ UNCHANGED <<vars, version, settled>>

\* Everything else that happens to runs and workers.
OtherRunStep ==
    /\ R!Next
    /\ config' = config
    /\ UNCHANGED <<vars, ownVars>>
    /\ \A w \in Worker :
          <<pc[w], pc'[w]>> \notin {<<"prepare", "unpack">>, <<"unpack", "init">>}

WNext ==
    \/ UploadStep
    \/ \E r \in Run : Enqueue(r)
    \/ \E w \in Worker : OpenBundle(w) \/ ExtractBundle(w)
    \/ OtherRunStep

WSpec == WInit /\ [][WNext]_wvars

-----------------------------------------------------------------------------
Executed == {r \in Run : used[r] # NoUpload}

\* A run executes what was uploaded as its version (terraform.go:28-29, 47,
\* handler_tf.go:114-132), however many uploads and runs there have been since it
\* was queued.  Only an upload that had read the same number at the same time can
\* get its own bytes into the run, or spoil them; no other version ever does.
RunsUseTheirVersion ==
    \A r \in Executed :
        \/ used[r] = version[r]
        \/ /\ Raced(version[r])
           /\ used[r] = Torn \/ ver[used[r]] = ver[version[r]]

\* A plan and an apply of one version execute the same bytes, once no upload
\* with its number is left: also when that version is not what was uploaded, and
\* whatever is uploaded between the two (handler_tf.go:115, terraform.go:47).
PlanIsWhatIsApplied ==
    \A r, q \in Executed \cap settled : version[r] = version[q] => used[r] = used[q]
-----------------------------------------------------------------------------
(* The inductive invariant behind the two properties: what uploads and runs *)
(* are by themselves, and what ties the runs to the versions.               *)

Outside == {"down", "stopped", "idle"}

\* Of TerraformRuns: a run is in one hand, and from its claim on not in the queue.
RunInv ==
    /\ request \in [Run -> {"unsent", "open", "closed"}]
    /\ config \in [Run -> {"none", "null", "set"}]
    /\ status \in [Run -> R!Statuses]
    /\ pc \in [Worker -> R!PCs]
    /\ cur \in [Worker -> Run \cup {NoRun}]
    /\ \A w \in Worker : pc[w] \in Outside <=> cur[w] = NoRun
    /\ R!ExclusiveRun
    /\ \A r \in Run : request[r] # "closed" => status[r] = "absent"
    /\ \A w \in Worker :
          /\ pc[w] = "claiming" => status[cur[w]] = "pending"
          /\ pc[w] \notin Outside \cup {"claiming"} => status[cur[w]] \notin {"absent", "pending"}

OwnTypes ==
    /\ version \in [Run -> Upload \cup {NoUpload}]
    /\ seen \in [Run -> SUBSET (Upload \cup {Torn})]
    /\ used \in [Run -> Upload \cup {Torn, NoUpload}]
    /\ settled \subseteq Run

\* A run refers to a committed version, and its worker knows that it does.
VersionInv ==
    /\ \A r \in Run : config[r] = "set" => version[r] \in Committed /\ request[r] # "unsent"
    /\ \A w \in Worker : pc[w] \in {"prepare", "unpack"} => config[cur[w]] = "set"

\* The bundle of a run is opened once and extracted once.
Opened(r) == seen[r] # {} \/ r \in settled \/ r \in Executed

OpenedInv ==
    /\ \A r \in Run : Opened(r) => config[r] = "set" /\ status[r] \notin {"absent", "pending"}
    /\ \A w \in Worker : pc[w] \in {"claiming", "claimed", "prepare"} => ~Opened(cur[w])
    /\ \A w \in Worker : pc[w] = "unpack" => cur[w] \notin Executed

\* Only uploads of its own number have written to a path.
BytesInv == \A p \in DOMAIN file : p # 0 /\ (file[p] # Torn => ver[file[p]] = p)

Acceptable(r, bytes) ==
    \/ bytes = version[r]
    \/ Raced(version[r]) /\ (bytes = Torn \/ ver[bytes] = ver[version[r]])

ReadInv ==
    /\ \A r \in Unpacking : Bundle(r) \in seen[r]
    /\ \A r \in Run : \A bytes \in seen[r] : Acceptable(r, bytes)
    /\ \A r \in Executed : Acceptable(r, used[r])

\* Nothing is written any more to the bundle of a settled run.
SettledInv ==
    \A r \in settled :
        Quiet(r) /\ seen[r] \subseteq {Bundle(r)} /\ used[r] \in {NoUpload, Bundle(r)}

WInv ==
    IInv /\ RunInv /\ OwnTypes /\ VersionInv /\ OpenedInv /\ BytesInv /\ ReadInv /\ SettledInv
=============================================================================
