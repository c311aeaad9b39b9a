---------------------------- MODULE TerraformRuns ----------------------------
(***************************************************************************)
(* Terraform runs: the enqueue transaction of the API                      *)
(* (internal/api/handler_tf.go, enqueueTF), the tables tf_runs and         *)
(* work_jobs, and the worker processes that claim and execute the runs     *)
(* (internal/worker/terraform.go, RunOnce; cmd/worker/main.go).            *)
(*                                                                         *)
(* A worker is one cloudmanager-worker process: it calls RunOnce from one  *)
(* goroutine, so it holds at most one run; several workers share the       *)
(* database.  Every SQL statement of RunOnce is its own transaction.       *)
(*                                                                         *)
(* Time is the order of BEGINs: created_at is now(), the start of the      *)
(* enqueuing transaction, while the row becomes visible at its COMMIT.     *)
(***************************************************************************)
EXTENDS Integers

CONSTANTS
    Run,            \* the requests that may enqueue a run, and their rows
    Worker,         \* worker processes
    NoRun,          \* "no claimed run"
    Texts,          \* what an error or log may look like to PostgreSQL
    FaultKinds,     \* which of "crash", "shutdown", "db" may happen
    MaxFaults       \* bound on the faults of each kind in a behaviour

ASSUME NoRunAssumption == NoRun \notin Run
ASSUME TextAssumption == "text" \in Texts /\ Texts \subseteq {"text", "bytes"}
ASSUME FaultAssumption ==
    FaultKinds \subseteq {"crash", "shutdown", "db"} /\ MaxFaults \in Nat

VARIABLES
    request,    \* enqueueTF per run: unsent, open (BEGIN done) or closed
    config,     \* tf_runs.config_version_id: none (not sent), null or set
    clock,      \* the database server's clock, one tick per BEGIN
    created,    \* tf_runs.created_at
    status,     \* tf_runs.status as committed; "absent" before the commit
    job,        \* work_jobs.status of the run's job, likewise
    pc,         \* where each worker is in main's loop and RunOnce
    cur,        \* the run a worker is selecting or has claimed
    cancelled,  \* the worker's context is done (SIGINT or SIGTERM seen)
    dir,        \* the runs that have a temporary directory on disk
    proc,       \* terraform plan/apply of a run: none, live, ok or err
    faults,     \* faults of each kind so far, capped by MaxFaults
    ahead,      \* history: the runs that must leave the queue before a run
    refused     \* history: the runs whose result PostgreSQL did not take

vars == <<request, config, clock, created, status, job, pc, cur, cancelled, dir, proc,
          faults, ahead, refused>>

\* What only the API writes: workers leave it alone.
apiVars == <<request, config, clock, created>>

Statuses == {"absent", "pending", "running", "succeeded", "failed"}

PCs == {"down", "stopped", "idle", "claiming", "claimed", "prepare", "unpack", "init",
        "exec", "waiting", "failing", "succeed", "jobdone", "cleanup"}

Init ==
    /\ request = [r \in Run |-> "unsent"]
    /\ config = [r \in Run |-> "none"]
    /\ clock = 1
    /\ created = [r \in Run |-> 0]
    /\ status = [r \in Run |-> "absent"]
    /\ job = [r \in Run |-> "absent"]
    /\ pc = [w \in Worker |-> "idle"]
    /\ cur = [w \in Worker |-> NoRun]
    /\ cancelled = [w \in Worker |-> FALSE]
    /\ dir = {}
    /\ proc = [r \in Run |-> "none"]
    /\ faults = [kind \in FaultKinds |-> 0]
    /\ ahead = [r \in Run |-> {}]
    /\ refused = {}

-----------------------------------------------------------------------------
(* Faults.  A database fault loses one statement; once the context of a    *)
(* worker is cancelled pgx refuses every further statement.                *)

Fault(kind) ==
    /\ kind \in FaultKinds
    /\ faults[kind] < MaxFaults
    /\ faults' = [faults EXCEPT ![kind] = @ + 1]

Happened(kind) == kind \in FaultKinds /\ faults[kind] > 0

\* A statement that changes nothing, its error ignored or returned.
Lost(w) ==
    \/ cancelled[w] /\ UNCHANGED faults
    \/ ~cancelled[w] /\ Fault("db")

\* UPDATE tf_runs SET status = value, with the error or log of the run, WHERE id
\* = run, error ignored.  PostgreSQL takes no text that is not UTF-8 or holds a
\* NUL: such are names of a bundle's files, what terraform prints, and what is
\* left when tailStr cuts a log or an error inside a character.
SetStatus(w, value, text) ==
    \/ /\ ~cancelled[w]
       /\ text = "text"
       /\ status' = [status EXCEPT ![cur[w]] = value]
       /\ UNCHANGED <<faults, refused>>
    \/ /\ ~cancelled[w]
       /\ text = "bytes"
       /\ refused' = refused \cup {cur[w]}
       /\ UNCHANGED <<status, faults>>
    \/ Lost(w) /\ UNCHANGED <<status, refused>>

-----------------------------------------------------------------------------
(* The API: one transaction inserts the run and its job.                   *)

\* BEGIN stamps created_at.  configVersionId is optional in the request.
\* The history variable remembers the runs that were already queued.
EnqueueBegin(r) ==
    /\ request[r] = "unsent"
    /\ request' = [request EXCEPT ![r] = "open"]
    /\ \E c \in {"null", "set"} : config' = [config EXCEPT ![r] = c]
    /\ created' = [created EXCEPT ![r] = clock]
    /\ clock' = clock + 1
    /\ ahead' = [ahead EXCEPT ![r] = {q \in Run : status[q] = "pending"}]
    /\ UNCHANGED <<status, job, pc, cur, cancelled, dir, proc, faults, refused>>

EnqueueCommit(r) ==
    /\ request[r] = "open"
    /\ request' = [request EXCEPT ![r] = "closed"]
    /\ status' = [status EXCEPT ![r] = "pending"]
    /\ job' = [job EXCEPT ![r] = "pending"]
    /\ UNCHANGED <<config, clock, created, pc, cur, cancelled, dir, proc, faults,
                   ahead, refused>>

\* An INSERT or the COMMIT fails, or the client goes away: the rollback leaves
\* neither row.
EnqueueRollback(r) ==
    /\ request[r] = "open"
    /\ request' = [request EXCEPT ![r] = "closed"]
    /\ UNCHANGED <<config, clock, created, status, job, pc, cur, cancelled, dir,
                   proc, faults, ahead, refused>>

-----------------------------------------------------------------------------
(* The claim statement (terraform.go:22-36): SELECT ... WHERE status =     *)
(* 'pending' ORDER BY created_at FOR UPDATE SKIP LOCKED LIMIT 1, then      *)
(* UPDATE ... SET status = 'running' RETURNING, one autocommit statement.  *)
(* The row lock is held from the select to the commit.                     *)

Locks(w, r) == pc[w] = "claiming" /\ cur[w] = r

\* Bug: FOR UPDATE SKIP LOCKED dropped from the select.
ClaimableIgnoringLocks == {r \in Run : status[r] = "pending"}

Claimable == {r \in Run : status[r] = "pending" /\ \A w \in Worker : ~Locks(w, r)}

\* Bug: ORDER BY created_at dropped.
Unordered(S) == S

Oldest(S) == {r \in S : \A q \in S : created[r] <= created[q]}

ClaimSelect(w) ==
    /\ pc[w] = "idle"
    /\ ~cancelled[w]
    /\ \E r \in Oldest(Claimable) : cur' = [cur EXCEPT ![w] = r]
    /\ pc' = [pc EXCEPT ![w] = "claiming"]
    /\ UNCHANGED <<apiVars, status, job, cancelled, dir, proc, faults, ahead, refused>>

\* The select finds no row: RunOnce returns nil and the ticker goes on.
PollEmpty(w) ==
    /\ pc[w] = "idle"
    /\ ~cancelled[w]
    /\ Claimable = {}
    /\ UNCHANGED vars

\* Bug: the row is selected but not marked as running.
ClaimWithoutUpdate(w) ==
    /\ pc[w] = "claiming"
    /\ pc' = [pc EXCEPT ![w] = "claimed"]
    /\ UNCHANGED <<apiVars, status, job, cur, cancelled, dir, proc, faults, ahead, refused>>

ClaimUpdate(w) ==
    /\ pc[w] = "claiming"
    /\ status' = [status EXCEPT ![cur[w]] = "running"]
    /\ pc' = [pc EXCEPT ![w] = "claimed"]
    /\ UNCHANGED <<apiVars, job, cur, cancelled, dir, proc, faults, ahead, refused>>

\* Claimed, or locked by a claim statement.
LeftQueue(r) ==
    \/ status[r] \notin {"absent", "pending"}
    \/ \E w \in Worker : Locks(w, r)

\* The run goes back to the queue: whoever overtook it while it was locked
\* was right to.
Requeued(r) ==
    ahead' = [q \in Run |-> IF LeftQueue(q) THEN ahead[q] \ {r} ELSE ahead[q]]

\* RunOnce returns without a run; main's loop waits for the next tick.
BackToLoop(w) ==
    /\ pc' = [pc EXCEPT ![w] = "idle"]
    /\ cur' = [cur EXCEPT ![w] = NoRun]

\* The statement fails before its commit and is rolled back (34-36).
ClaimAbort(w) ==
    /\ pc[w] = "claiming"
    /\ Lost(w)
    /\ Requeued(cur[w])
    /\ BackToLoop(w)
    /\ UNCHANGED <<apiVars, status, job, cancelled, dir, proc, refused>>

\* Bug: a run that does not scan is put back in the queue.
RequeueUnscannable(w) ==
    /\ pc[w] = "claimed"
    /\ \/ /\ config[cur[w]] = "null"
          /\ status' = [status EXCEPT ![cur[w]] = "pending"]
          /\ UNCHANGED faults
       \/ config[cur[w]] = "set" /\ Lost(w) /\ UNCHANGED status
    /\ BackToLoop(w)
    /\ UNCHANGED <<apiVars, job, cancelled, dir, proc, ahead, refused>>

\* The claim is committed but RunOnce returns an error (34-36): either the
\* reply was lost, or the bundle_path subselect is NULL, because the run has
\* no config_version_id, and a NULL does not scan into a string.
ClaimError(w) ==
    /\ pc[w] = "claimed"
    /\ \/ config[cur[w]] = "null" /\ UNCHANGED faults
       \/ config[cur[w]] = "set" /\ Lost(w)
    /\ BackToLoop(w)
    /\ UNCHANGED <<apiVars, status, job, cancelled, dir, proc, ahead, refused>>

ClaimScanned(w) ==
    /\ pc[w] = "claimed"
    /\ config[cur[w]] = "set"
    /\ pc' = [pc EXCEPT ![w] = "prepare"]
    /\ UNCHANGED <<apiVars, status, job, cur, cancelled, dir, proc, faults, ahead, refused>>

-----------------------------------------------------------------------------
(* The execution (terraform.go:41-98).  bundlePath is never empty here:    *)
(* the column is NOT NULL and UploadConfig stores a path, so the "no       *)
(* bundle" branch (37-40) is not reached.                                  *)

\* os.MkdirTemp fails: the run fails and nothing is deferred yet.  The error
\* names the working directory and the run's id, which are text.
NoWorkDir(w) ==
    /\ pc[w] = "prepare"
    /\ SetStatus(w, "failed", "text")
    /\ BackToLoop(w)
    /\ UNCHANGED <<apiVars, job, cancelled, dir, proc, ahead>>

MakeWorkDir(w) ==
    /\ pc[w] = "prepare"
    /\ dir' = dir \cup {cur[w]}
    /\ pc' = [pc EXCEPT ![w] = "unpack"]
    /\ UNCHANGED <<apiVars, status, job, cur, cancelled, proc, faults, ahead, refused>>

Extract(w) ==
    /\ pc[w] = "unpack"
    /\ pc' = [pc EXCEPT ![w] = "init"]
    /\ UNCHANGED <<apiVars, status, job, cur, cancelled, dir, proc, faults, ahead, refused>>

\* terraform init exits 0.
TerraformInit(w) ==
    /\ pc[w] = "init"
    /\ pc' = [pc EXCEPT ![w] = "exec"]
    /\ UNCHANGED <<apiVars, status, job, cur, cancelled, dir, proc, faults, ahead, refused>>

\* exec.CommandContext refuses to start under a cancelled context.
TerraformStart(w) ==
    /\ pc[w] = "exec"
    /\ ~cancelled[w]
    /\ proc' = [proc EXCEPT ![cur[w]] = "live"]
    /\ pc' = [pc EXCEPT ![w] = "waiting"]
    /\ UNCHANGED <<apiVars, status, job, cur, cancelled, dir, faults, ahead, refused>>

\* Terraform ends by itself, is killed because the context is done, or goes on
\* as an orphan after its worker died and ends then.
TerraformExit(r) ==
    /\ proc[r] = "live"
    /\ \E result \in {"ok", "err"} : proc' = [proc EXCEPT ![r] = result]
    /\ UNCHANGED <<apiVars, status, job, pc, cur, cancelled, dir, faults, ahead, refused>>

\* Bug: a cancelled context makes the worker return before the process is reaped.
LeaveWithoutWaiting(w) ==
    /\ pc[w] = "waiting"
    /\ proc[cur[w]] # "live" \/ cancelled[w]
    /\ pc' = [pc EXCEPT ![w] = IF proc[cur[w]] = "ok" THEN "succeed" ELSE "failing"]
    /\ UNCHANGED <<apiVars, status, job, cur, cancelled, dir, proc, faults, ahead, refused>>

\* CombinedOutput returns once the process is gone.
TerraformWait(w) ==
    /\ pc[w] = "waiting"
    /\ proc[cur[w]] # "live"
    /\ pc' = [pc EXCEPT ![w] = IF proc[cur[w]] = "ok" THEN "succeed" ELSE "failing"]
    /\ UNCHANGED <<apiVars, status, job, cur, cancelled, dir, proc, faults, ahead, refused>>

\* Bug: the error path returns without calling fail.
ReturnWithoutFail(w) ==
    /\ pc[w] \in {"unpack", "init", "exec", "failing"}
    /\ pc' = [pc EXCEPT ![w] = "cleanup"]
    /\ UNCHANGED <<apiVars, status, job, cur, cancelled, dir, proc, faults, ahead, refused>>

\* The bundle does not extract, terraform init fails, terraform does not start
\* or exits with an error: 'failed' is written, work_jobs is not touched.
FailRun(w) ==
    /\ pc[w] \in {"unpack", "init", "exec", "failing"}
    /\ \E text \in Texts : SetStatus(w, "failed", text)
    /\ pc' = [pc EXCEPT ![w] = "cleanup"]
    /\ UNCHANGED <<apiVars, job, cur, cancelled, dir, proc, ahead>>

SucceedRun(w) ==
    /\ pc[w] = "succeed"
    /\ \E text \in Texts : SetStatus(w, "succeeded", text)
    /\ pc' = [pc EXCEPT ![w] = "jobdone"]
    /\ UNCHANGED <<apiVars, job, cur, cancelled, dir, proc, ahead>>

\* Bug: the job is closed under a context of its own.
CloseJobUncancelled(w) ==
    /\ pc[w] = "jobdone"
    /\ job' = [job EXCEPT ![cur[w]] = "done"]
    /\ pc' = [pc EXCEPT ![w] = "cleanup"]
    /\ UNCHANGED <<apiVars, status, cur, cancelled, dir, proc, faults, ahead, refused>>

CloseJob(w) ==
    /\ pc[w] = "jobdone"
    /\ \/ /\ ~cancelled[w]
          /\ job' = [job EXCEPT ![cur[w]] = "done"]
          /\ UNCHANGED faults
       \/ Lost(w) /\ UNCHANGED job
    /\ pc' = [pc EXCEPT ![w] = "cleanup"]
    /\ UNCHANGED <<apiVars, status, cur, cancelled, dir, proc, ahead, refused>>

\* Bug: the worker forgets to drop the run it has finished.
CleanupKeepingRun(w) ==
    /\ pc[w] = "cleanup"
    /\ dir' = dir \ {cur[w]}
    /\ pc' = [pc EXCEPT ![w] = "idle"]
    /\ UNCHANGED <<apiVars, status, job, cur, cancelled, proc, faults, ahead, refused>>

\* Bug: the deferred os.RemoveAll is missing.
CleanupLeaking(w) ==
    /\ pc[w] = "cleanup"
    /\ BackToLoop(w)
    /\ UNCHANGED <<apiVars, status, job, cancelled, dir, proc, faults, ahead, refused>>

\* The deferred os.RemoveAll(tmp), then RunOnce returns.
Cleanup(w) ==
    /\ pc[w] = "cleanup"
    /\ dir' = dir \ {cur[w]}
    /\ BackToLoop(w)
    /\ UNCHANGED <<apiVars, status, job, cancelled, proc, faults, ahead, refused>>

-----------------------------------------------------------------------------
(* The worker process (cmd/worker/main.go).                                *)

\* SIGINT or SIGTERM: signal.NotifyContext cancels the context of RunOnce.
Shutdown(w) ==
    /\ pc[w] \notin {"down", "stopped"}
    /\ ~cancelled[w]
    /\ Fault("shutdown")
    /\ cancelled' = [cancelled EXCEPT ![w] = TRUE]
    /\ UNCHANGED <<apiVars, status, job, pc, cur, dir, proc, ahead, refused>>

\* main's loop sees ctx.Done between two calls of RunOnce and returns: the
\* process ends without an error.
ExitLoop(w) ==
    /\ pc[w] = "idle"
    /\ cancelled[w]
    /\ pc' = [pc EXCEPT ![w] = "stopped"]
    /\ cancelled' = [cancelled EXCEPT ![w] = FALSE]
    /\ UNCHANGED <<apiVars, status, job, cur, dir, proc, faults, ahead, refused>>

\* The process dies: deferred calls do not run, terraform may live on, and a
\* claim statement in flight is rolled back or committed by the server.
Crash(w) ==
    /\ pc[w] \notin {"down", "stopped"}
    /\ Fault("crash")
    /\ IF pc[w] = "claiming"
         THEN \/ Requeued(cur[w]) /\ UNCHANGED status
              \/ /\ status' = [status EXCEPT ![cur[w]] = "running"]
                 /\ UNCHANGED ahead
         ELSE UNCHANGED <<status, ahead>>
    /\ pc' = [pc EXCEPT ![w] = "down"]
    /\ cur' = [cur EXCEPT ![w] = NoRun]
    /\ cancelled' = [cancelled EXCEPT ![w] = FALSE]
    /\ UNCHANGED <<apiVars, job, dir, proc, refused>>

\* A worker is up again; nothing is recovered.
Up(w) ==
    /\ pc' = [pc EXCEPT ![w] = "idle"]
    /\ UNCHANGED <<apiVars, status, job, cur, cancelled, dir, proc, faults, ahead, refused>>

\* The service manager starts a worker that failed (Restart=on-failure), an
\* operator one that was stopped.
Restart(w) == pc[w] = "down" /\ Up(w)

Start(w) == pc[w] = "stopped" /\ Up(w)

-----------------------------------------------------------------------------
\* The steps of RunOnce and of main's loop, the ones a running process takes.
WorkerStep(w) ==
    \/ ClaimSelect(w) \/ ClaimUpdate(w) \/ ClaimAbort(w) \/ ClaimError(w)
    \/ ClaimScanned(w) \/ NoWorkDir(w) \/ MakeWorkDir(w) \/ Extract(w)
    \/ TerraformInit(w) \/ TerraformStart(w) \/ TerraformWait(w) \/ FailRun(w)
    \/ SucceedRun(w) \/ CloseJob(w) \/ Cleanup(w) \/ ExitLoop(w)

Next ==
    \/ \E r \in Run : \/ EnqueueBegin(r) \/ EnqueueCommit(r) \/ EnqueueRollback(r)
                      \/ TerraformExit(r)
    \/ \E w \in Worker : \/ WorkerStep(w) \/ PollEmpty(w)
                         \/ Shutdown(w) \/ Crash(w) \/ Restart(w) \/ Start(w)

Spec == Init /\ [][Next]_vars

\* A worker that is up keeps running its loop (a goroutine with a ticker), the
\* service manager brings a failed one back, and terraform is assumed to end:
\* RunOnce gives it no timeout.  Nothing makes a request, a fault or a signal
\* happen, and nobody has to start a stopped worker again.
Fairness ==
    /\ \A w \in Worker : WF_vars(WorkerStep(w)) /\ WF_vars(Restart(w))
    /\ \A r \in Run : WF_vars(TerraformExit(r))

FairSpec == Spec /\ Fairness

-----------------------------------------------------------------------------
(* Properties.                                                             *)

\* Every variable keeps its type, and a worker holds a run exactly while it is
\* inside RunOnce with a selected or claimed row.
TypeOK ==
    /\ request \in [Run -> {"unsent", "open", "closed"}]
    /\ config \in [Run -> {"none", "null", "set"}]
    /\ clock \in Nat
    /\ created \in [Run -> Nat]
    /\ status \in [Run -> Statuses]
    /\ job \in [Run -> {"absent", "pending", "done"}]
    /\ pc \in [Worker -> PCs]
    /\ cur \in [Worker -> Run \cup {NoRun}]
    /\ \A w \in Worker : pc[w] \in {"down", "stopped", "idle"} <=> cur[w] = NoRun
    /\ cancelled \in [Worker -> BOOLEAN]
    /\ dir \subseteq Run
    /\ proc \in [Run -> {"none", "live", "ok", "err"}]
    /\ faults \in [FaultKinds -> 0..MaxFaults]
    /\ ahead \in [Run -> SUBSET Run]
    /\ refused \subseteq Run

\* Two workers never have the same run in hand, from the row lock of the claim
\* statement to the return of RunOnce (terraform.go:22-30): SKIP LOCKED and the
\* 'running' status hand the row over without a gap.
ExclusiveRun ==
    \A v, w \in Worker : v # w /\ cur[v] = cur[w] => cur[v] = NoRun

\* ORDER BY created_at respects real time although created_at is the start of
\* the enqueuing transaction and several workers skip each other's locks: a run
\* whose enqueue was committed before another enqueue began leaves the queue
\* first, unless the claim that held it was rolled back meanwhile.
QueueOrder ==
    \A r \in Run : LeftQueue(r) => \A q \in ahead[r] : LeftQueue(q)

\* Terraform never works in a directory that the deferred RemoveAll has deleted
\* (terraform.go:46, 77-82): not on cancellation, and not as an orphan.
LiveProcessHasDir == \A r \in Run : proc[r] = "live" => r \in dir

\* A job is closed only after terraform has exited without an error and its run
\* was published as succeeded (terraform.go:93-94), whatever crash or signal comes
\* between the two statements.  The first one alone is lost only by a database
\* fault, or because PostgreSQL refuses the log of that run (92, 106-111).
JobAfterRun ==
    \A r \in Run : job[r] = "done" =>
        /\ proc[r] = "ok"
        /\ status[r] = "succeeded" \/ Happened("db") \/ r \in refused

\* The workers implement RunLifecycle: terraform starts at most once per run
\* and the published result is final and true, whatever faults happen.
RL == INSTANCE RunLifecycle WITH Run <- Run, status <- status, proc <- proc
Lifecycle == RL!Spec

-----------------------------------------------------------------------------
(* The inductive invariant behind the safety properties.                   *)

\* What a worker at each point of RunOnce knows about the run it holds.
WorkerInv(w) ==
    LET r == cur[w] IN
    /\ pc[w] = "claiming" => status[r] = "pending"
    /\ pc[w] \in {"claimed", "prepare", "unpack", "init", "exec", "waiting",
                  "failing", "succeed"} => status[r] = "running"
    /\ pc[w] \in {"jobdone", "cleanup"} => status[r] \notin {"absent", "pending"}
    /\ pc[w] \in {"claiming", "claimed", "prepare", "unpack", "init", "exec"}
          => proc[r] = "none"
    /\ pc[w] = "waiting" => proc[r] # "none"
    /\ pc[w] = "failing" => proc[r] = "err"
    /\ pc[w] \in {"succeed", "jobdone"} => proc[r] = "ok"
    /\ pc[w] = "cleanup" => proc[r] # "live"
    /\ pc[w] \in {"unpack", "init", "exec", "waiting"} => r \in dir
    /\ pc[w] = "jobdone" =>
          status[r] = "succeeded" \/ cancelled[w] \/ Happened("db") \/ r \in refused

\* How a row, its request and its terraform process go together.
RowInv(r) ==
    /\ request[r] # "closed" => status[r] = "absent"
    /\ status[r] \in {"absent", "pending"} => proc[r] = "none"
    /\ status[r] = "succeeded" => proc[r] = "ok"
    /\ status[r] = "failed" => proc[r] \in {"none", "err"}

\* The clock is ahead of every row, and the runs ahead of a run are committed
\* and older.
ClockInv ==
    \A r \in Run :
        /\ created[r] < clock
        /\ \A q \in ahead[r] : status[q] # "absent" /\ created[q] < created[r]

IInv ==
    /\ TypeOK
    /\ ExclusiveRun
    /\ \A w \in Worker : WorkerInv(w)
    /\ \A r \in Run : RowInv(r)
    /\ LiveProcessHasDir
    /\ JobAfterRun
    /\ ClockInv
    /\ QueueOrder

-----------------------------------------------------------------------------
(* What the liveness properties below rest on: nothing leaves the hands of *)
(* the workers half done but by a fault or a refused text.                 *)

InHand(r) == \E w \in Worker : cur[w] = r

AnyFault == \E kind \in FaultKinds : Happened(kind)

\* A run with a configuration version that is 'running' has a worker that is at
\* it, unless there was a fault or PostgreSQL refused its result: no other way
\* through RunOnce drops it (terraform.go:34-104).
DroppedForCause ==
    \A r \in Run : status[r] = "running" /\ config[r] = "set" =>
        InHand(r) \/ AnyFault \/ r \in refused

\* A temporary directory belongs to a run that a worker is at, unless a worker
\* crashed (terraform.go:46).
OnlyCrashesLitter == \A r \in dir : InHand(r) \/ Happened("crash")

\* Their inductive invariant: who drops a run knows why.
HandInv ==
    /\ DroppedForCause
    /\ OnlyCrashesLitter
    /\ \A w \in Worker : cancelled[w] => Happened("shutdown")
    /\ \A w \in Worker : pc[w] = "cleanup" =>
          status[cur[w]] # "running" \/ AnyFault \/ cur[w] \in refused
    /\ \A w \in Worker : pc[w] \in {"claimed", "prepare"} => cur[w] \notin dir
    /\ \A r \in dir : status[r] \notin {"absent", "pending"}

-----------------------------------------------------------------------------
(* Liveness, under FairSpec.                                               *)

\* Every committed run is eventually claimed while a worker is left that is not
\* stopped: neither a run without a bundle, nor a crashed or stopped worker, nor
\* a rolled back claim blocks the queue.
EveryRunClaimed ==
    \A r \in Run : status[r] = "pending"
                      ~> status[r] # "pending" \/ \A w \in Worker : pc[w] = "stopped"

\* A run with a configuration version ends and its result is published, unless
\* a fault strands it, or its error or log is no text that PostgreSQL takes
\* (terraform.go:47-111): nothing else can, not another run's text either.
ConfiguredRunEnds ==
    \A r \in Run : config[r] = "set" /\ status[r] = "pending"
                      ~> status[r] \in {"succeeded", "failed"} \/ AnyFault \/ r \in refused

\* Every temporary directory is eventually removed (terraform.go:46), also when
\* a signal stops the worker or the database loses the result: only a crash
\* leaves one behind.
DirReclaimed == \A r \in Run : r \in dir ~> r \notin dir \/ Happened("crash")

\* TF jobs are durable (00001_init_core.sql:107): a run with a configuration
\* version, once queued, is executed to its end.
DurableRun ==
    \A r \in Run : config[r] = "set" /\ status[r] = "pending"
                      ~> status[r] \in {"succeeded", "failed"}

\* A claimed run without a bundle fails with 'no bundle' (terraform.go:37-40).
NoBundleFails ==
    \A r \in Run : config[r] = "null" /\ status[r] = "running" ~> status[r] = "failed"
=============================================================================
