# CloudManager: specifications

TLA+ specifications of the Go control plane in this repository (`cmd/api`,
`cmd/worker`, `internal/...`), the TLC configurations that check them on small
instances, and theorems proved with TLAPS for all values of the constants.
`PROJECT.json` relates every definition to the lines it models.

Paths below are relative to the repository. Run `tlc -config X.cfg M` for a
configuration and `tlapm M.tla` for a module of proofs.

## 1. The system

Two programs share one PostgreSQL database and one directory.

```
 browser --HTTP--> cloudmanager-api --SQL--> PostgreSQL <--SQL-- cloudmanager-worker (n)
                     |   |   |               (tf_runs is the queue)      |
                     |   |   +--HTTPS--> Proxmox                         +--> terraform
                     |   +--> managed.env (admin page)                   +--> temporary dirs
                     +--> <workdir>/tf-bundles/...  <------- reads ------+
```

There is no message bus and no in-memory state shared by requests apart from
the process environment and the connection pool: components interact through
rows, files and the environment. Every handler runs in a goroutine of its own.

| Component | State | Operations | What makes it hard | What makes it correct |
|---|---|---|---|---|
| Terraform runs (`handler_tf.go` enqueueTF, `worker/terraform.go`, `cmd/worker`) | `tf_runs`, `work_jobs`, temporary directories, child processes | enqueue, claim, execute, publish, signal, restart | several workers claim at once; every statement of `RunOnce` is its own transaction; signals cancel the context of the statements that report; crashes | a run is executed at most once and in order, the result is final and true, every run is claimed, directories are removed |
| Configuration bundles (`handler_tf.go` UploadConfig) | `tf_config_versions`, bundle files | upload; read by workers | the number is read outside the inserting transaction, the file is written before the row, workers read it without a lock | versions are 1..n, a version has its file, the file is the uploaded one, a run executes its version, a plan and an apply of a version execute the same |
| Proxmox connection (`handler_v1.go`, `crypto/aes.go`) | `org_pve_secrets`, the key on disk, the key in each process | save with or without a secret, use, change the key, restart | read in one transaction and write back in another; several processes with different keys | token id and secret belong together, a blank secret keeps the stored one, entering it again repairs the connection |
| managed.env (`handler_admin_env.go`, `config/managedenv.go`, `config.go`) | the file, the process environment | patch, show, load at start | read, merge, truncate and write without a lock; a text format with quotes | keys that nobody touched survive, the environment follows the file |
| Connection pool and API-key sign-in (`db.go`, `middleware.go`) | connections, queue of waiting requests | acquire, release, disconnect | `authAPIKey` holds one connection while it waits for a second | no connection is lost, the pool does not stall |
| Authentication decision (`middleware.go`, `auth/session.go`, `context.go`) | session tokens, `org_memberships` | API key, dev bearer, JWT, choice of organisation | three methods in order, each with early answers and several queries, between which memberships change; flags frozen in the token | what is done was asked for by someone who has the role for it; exactly one answer is written |
| API keys (`handler_apikey.go`) | `api_keys` | create, list, look up by prefix | several keys may have one prefix; expiry and membership at use | a key that was handed out signs its user in |
| Audit log (`repo/queries.go` InsertAudit) | `audit_log` | insert, list | a transaction of its own after the commit, its error ignored | an entry tells of something done; what is done has its entry unless a fault came between |
| Start-up (`config.go`, `migrate.go`, `repo/bootstrap.go`, `cmd/api`) | Config, schema, dev user | load, migrate, bootstrap, restart | processes start at once on one database without a lock; the first migration file has no transaction | who serves has schema and dev user, one dev user, every process comes to serve |
| HTTP life cycle (`cmd/api`) | the server, a goroutine per request | route, answer, end | clients go away in the middle; `ListenAndServe` returns before `Shutdown` has finished | every request is answered and ends |
| Catalogue (`handler_misc.go`, `handler_tf.go`) | organisations, workspaces, templates, flavors | single inserts and selects behind guards | guards, audit entry and answer as everywhere; the rows rely on the database alone | as for every request |
| Proxmox client (`pve/client.go`, `handler_v1.go`) | none: one HTTP call at a time | list guests, power, console | 60 s and no retry: a POST may be executed after its 502; a list is put together from many calls | done at most once and "ok" only when done; a list names every guest once |
| Row-level security (`00003_rls.sql`) | policies, session variables | set per transaction | the owner of the tables is exempt | - |
| Web interface (`apps/web`) | cached organisation, form fields | - | stale fields | - |
| Installation (`scripts`, `deploy`) | unit files | - | restart policy | - |

The last column is where the properties come from; `PROJECT.json` lists under
"hazards" each place where one of them is at stake, with its line.

## 2. Modules

| Module | What it is | Extends / instantiates |
|---|---|---|
| `RunLifecycle` | what the run subsystem promises about a row of `tf_runs` (abstract) | - |
| `TerraformRuns` | enqueue, claim, execution, worker processes | `INSTANCE RunLifecycle` |
| `TerraformRunsProofs` | its theorems | `TerraformRuns` |
| `VersionLog` | what the API promises of the versions of a workspace (abstract) | - |
| `ConfigBundles`, `ConfigBundlesProofs` | uploads of one workspace | `INSTANCE VersionLog` |
| `Workspaces`, `WorkspacesProofs` | uploads and the runs that execute them, composed | `ConfigBundles`; `INSTANCE TerraformRuns` |
| `PveConnection`, `PveConnectionProofs` | the connection of one organisation | - |
| `EnvFile` | parser and writer of `managed.env` as operators | - |
| `ManagedEnv`, `ManagedEnvProofs` | the requests that rewrite the file, the process environment | `EnvFile` |
| `ApiKeyPool`, `ApiKeyPoolProofs` | pool and sign-in with API keys | - |
| `Startup`, `StartupProofs` | API processes that start on one database | - |
| `RequestContract` | what the API promises about each request (abstract) | - |
| `ProxmoxCluster` | the calls of the Proxmox client and the cluster behind them | - |
| `Requests`, `RequestsProofs` | sign-in, guards, effect, audit entry and answer of every handler | `ProxmoxCluster`; `INSTANCE RequestContract` |
| `MC*` | the same modules with the symmetry sets and inputs for TLC | each its module |

Operators that end in the name of a bug and are commented `Bug:` (for instance
`ClaimableIgnoringLocks`) are not part of `Next`: each is a wrong variant of the
definition below it, and putting it in that place breaks a property. They show
that the property depends on the code and they are listed under "mutants".

### TerraformRuns

State: `request`, `config` (the optional `configVersionId`), `created`, `status`
and `job` are the rows (`absent` before the commit); `clock` orders the BEGINs,
because `created_at` is `now()`, the start of the transaction. Per worker, `pc`
is the place in main's loop and `RunOnce`, `cur` the run it has, `cancelled` the
state of its context. `dir` and `proc` are what exists outside the database:
temporary directories and terraform processes, which survive a crash of their
worker. `ahead` is a history variable for the order of the queue, `refused` one
for the runs whose result PostgreSQL did not take.

| Action | Code |
|---|---|
| `EnqueueBegin`, `EnqueueCommit`, `EnqueueRollback` | the transaction of `enqueueTF` (`handler_tf.go:166-189`) |
| `ClaimSelect`, `ClaimUpdate`, `ClaimAbort` | the single claim statement: row lock with SKIP LOCKED, commit, rollback |
| `ClaimScanned`, `ClaimError` | `Scan`: `bundle_path` is NULL without a configuration version and does not scan into a string |
| `NoWorkDir`, `MakeWorkDir`, `Extract`, `TerraformInit`, `TerraformStart`, `TerraformExit`, `TerraformWait`, `FailRun`, `SucceedRun`, `CloseJob`, `Cleanup` | the rest of `RunOnce` in its order; each has the failure of its statement (`Lost`), ignored as in the code |
| `Shutdown`, `ExitLoop` | `signal.NotifyContext`, `ctx.Done` in main's loop |
| `Crash`, `Restart`, `Start` | death of a process, systemd's `Restart=on-failure`, an operator |

A claim statement takes two steps so that two workers can be inside it at once.
A crash during it is rolled back or committed by the server, both are possible.
Once the context is cancelled every further statement fails, which is what pgx
does. `SetStatus` is the statement that publishes a result with its error or log.
It has a third way to end: `tailStr` cuts both by bytes, so that a text may begin
inside a character, and terraform or the names in a bundle may bring bytes of
their own; PostgreSQL refuses a text that is not UTF-8 or holds a NUL, and the
error is ignored. `Texts` says which texts there are (`"text"`, `"bytes"`).

### ConfigBundles

`at` is the line of `UploadConfig` an upload has reached, `ver` the number it has
read, `file` the files by path, `mixed` the uploads whose `os.WriteFile` calls
overlapped. `Number`, `BeginWrite`, `EndWrite`, `Insert` are the four steps with
an effect; `Abandon` is every way to end between them (error, duplicate version,
client gone, process dead), which leaves the file. One workspace is enough: path
and unique constraint contain the workspace.

`VersionLog` is the abstract specification: versions are a log that is only
appended to, and whether the bundle of a version is what was uploaded changes only
while an upload is open that was open together with its own. `open` is mapped to
the uploads in flight, `log` to the uploads of the committed versions, `whole` to
the versions whose file holds their upload's bytes; `Number` is `Begin`, `Insert`
is `Accept`, `Abandon` is `Withdraw`, and the two ends of a write `Disturb` at most
the version with that number.

### Workspaces

`Workspaces` puts `ConfigBundles` and `TerraformRuns` side by side: a step is a
step of one of them, and the other's variables stay, except where they meet.
They meet in two places. `Enqueue` is `EnqueueBegin` with a `configVersionId`:
any version the client got an answer about, or none (`version`). `OpenBundle`
and `ExtractBundle` are `MakeWorkDir` and `Extract` with what they read: the
path comes from the version's row in the claim statement, the file is opened
when the run is executed and read until its end, while uploads go on. `seen`
collects what the file has held since it was opened; if that is more than one
content, the worker may get a mixture (`Torn`). `used` is what the run executes.
`settled` is history: the runs whose file nobody was about to write any more
when it was opened. Everything else a run or a worker does is `OtherRunStep`.

### PveConnection

`row` is `org_pve_secrets`, `diskKey` what the admin page wrote, `procKey` what
each process loaded. `SealSecret`, `KeepSecret`, `ReadExisting`, `Upsert` are the
two ways through `PostPVEConnection`; `RefuseForm`, `RefuseExisting`, `Drop` its
early ends; `RotateKey` and `RestartApi` change the keys. `Client` is what
`pveForOrg` gets out of the row. AES-GCM is ideal: a sealed value is the record
of what was sealed and of the key.

### EnvFile and ManagedEnv

`EnvFile` works on texts: sequences over an alphabet with a symbol for each
character that the reader or the writer looks for, one for the white space that
only `strings.TrimSpace` knows (`\r`, which stands for `\v`, `\f`, U+0085, U+00A0
and the other spaces of Unicode too), NUL, the word `export` and the names.
`ParseEnvFile`, `QuoteEnvValue` and `EnvText` are the functions of
`managedenv.go`, with trimming, comments, the prefix `export`, quotes, escapes and
the order of keys. `Kept` says what is read of a value that was written, `Odd`
which names turn into something else when their line is written: a comment, or,
after `export`, another name. Such names come only from a value with a newline.
In `ManagedEnv` a request reads and merges
(`ReadMerge`), truncates (`BeginWrite`), writes (`EndWrite`, `FailWrite`) and
applies (`Apply`); `Restart` is a dead process that loads the file again. Both
set every entry (`SetAll`) except a value with NUL, which `os.Setenv` refuses, its
error ignored. `known`, `blind`, `mixed` and `stale` are history: what an admin is
entitled to expect of each key, which requests read a truncated file or
overlapped in writing, and whether a write failed since the file was last
applied.

### ApiKeyPool

Per request `pc` is the query it is at and `conns` how many connections it has;
`queue` is the pool's queue, first come first served. `Arrive`, `NoKey`,
`KeyFits`, `NoMember`, `Member`, `SignedIn` are `authAPIKey`, whose deferred
`rows.Close` gives the first connection back only when it returns; `HandlerDone`
and `AuditDone` stand for a handler's transaction and its audit entry;
`Disconnect` is a client that gives up. The pool itself (`Acquire`, `Grant`,
`Go`) is pgxpool and external.

### Startup

The database is `table` (goose's own), `objects` (what exists of file 1),
`version` and `devs` (committed bootstraps); per process, `pc` and `at` say where
it is in `main`. `FindTable`, `CreateTable`, `NextFile`, `Statement`,
`RecordFirst`, `RunFile` are `migrate.Up`: goose is a library, and what it does
between two statements is modelled without a lock, as `UpContext` has none. File
1 is run statement by statement, since it says `NO TRANSACTION`; each later file
commits with its version. `CountUsers`, `InsertDev`, `CommitDev` are
`DevBootstrap`; a unique `oidc_sub` makes the second insert wait for the first and
then fail. Every error ends the process (`Fatal`), `Start` is systemd's restart,
`Fault` a death, a lost statement or a start beyond its two minutes. `raced` is
history: the starts that overlapped another one.

### Requests and ProxmoxCluster

`Requests` is a request from its arrival to its answer. The handlers are
records: what the guard needs (a user, an organisation, an organisation's
admin, a platform admin), whether a body that does not parse is refused, what
the handler does, and whether it keeps an audit trail. Every handler behind
`Auth` is such a record (`Handlers`; plan and apply share one); what is peculiar to an upload, a save of
the connection and a rewrite of `managed.env` before the last transaction is in
the modules above.

| Action | Code |
|---|---|
| `NoToken`, `KeyRows`, `KeyRole`, `DevUser`, `DevRole`, `ParseSession`, `SessionRole` | `Auth`, `authAPIKey`, `authDevUser`, `authJWT`: each query with its failure, and the answers written or not written (`written`) |
| `Guard` | the refusals at the head of every handler |
| `Commit`, `CommitUnseen`, `RollBack`, `ReportFailure` | `WithSession`, or the file; a commit whose reply is lost is reported as an error |
| `Connect`, `VerifyReachability`, `CallProxmox`, `ProxmoxAnswers`, `ProxmoxFails` | `pveForOrg` and the calls of `PVEPower` and `PostPVEConsole`; Proxmox executes a POST in time, late or never (`HandlePost`) |
| `StartListing`, `ListNext`, `EndListing` | `PVEVMs`: the nodes, then two calls for each, while guests migrate |
| `InsertAudit`, `Answer` | the entry, whose error is ignored, and the answer |
| `SetRole`, `KeyEnds`, `Migrate`, `Disconnect`, `Terminate` | what happens meanwhile: an operator changes a membership, a key expires, a guest moves, a client goes away, the process ends under its handlers |

`role` and `keys` are the tables, `ctx` what `WithAuth` has stored, `committed`
and `post` what a request has done here and at Proxmox, `audit` its entry, and
`hit` what befell it. `held` is history: the roles the user has had since the
request arrived. There is one user, because only `DevLogin` issues sessions, and
only for the dev user; keys belong to whoever creates them. `RequestContract` is
the abstract specification: an effect takes place at most once, an entry and an
"ok" come only after it, an answer is final.

## 3. What is checked

Each row is a configuration; `PROJECT.json` gives the properties of each.
`TerraformRuns`, `ApiKeyPool`, `Startup` and `Requests` run under fairness, for
their liveness properties; invariants and refinements do not depend on it.

| Configuration | Instance | What it shows |
|---|---|---|
| `TerraformRuns` | 2 runs, 2 workers, one crash, one signal and one lost statement, texts that are refused | `ExclusiveRun`, `QueueOrder`, `LiveProcessHasDir`, `JobAfterRun`, the workers implement `RunLifecycle`; `EveryRunClaimed`, `ConfiguredRunEnds`, `DirReclaimed` |
| `TerraformRuns_durable` | 1 run, 1 worker, one crash | violated: `DurableRun` |
| `TerraformRuns_nobundle` | 1 run, 1 worker, no fault | violated: `NoBundleFails` |
| `Workspaces` | 3 uploads, 2 runs, 1 worker, no faults of the worker (symmetric) | `VersionsAreSequence`, `CommittedHasFile`, `BundleIntact`, `RunsUseTheirVersion`, `PlanIsWhatIsApplied`, the uploads implement `VersionLog` |
| `ConfigBundles_uploaded` | 2 uploads | violated: `BundleIsUploaded` |
| `PveConnection` | 3 saves, 2 processes, 2 token ids, 2 secrets, 2 keys | `TokenMatchesSecret`, `BlankKeepsUnlessRaced`, `FullSaveIsUsable` |
| `PveConnection_blank` | 3 saves, 1 process, 2 secrets | violated: `BlankKeepsSecret` |
| `ManagedEnv` | 3 requests, 2 keys, 10 bodies, one fault | `PlainValuesKept`, `EnvFollowsFile` |
| `ManagedEnv_omitted` | 2 requests, no fault | violated: `OmittedKeysUnchanged` |
| `ApiKeyPool` | 3 slots with a key, 1 with a session, 2 connections | `StallOnlyByKeys`, `AnsweredUnlessStalled` |
| `Startup` | 3 processes, 3 statements in file 1, 3 files, one fault | `ServesReady`, `OneDevUser`, `RacesNeverStrand`, `StartFailsOnlyIfRaced`, `EveryApiServes` |
| `Requests` | 2 requests, 6 handlers, 2 organisations, 2 nodes, 2 guests, 2 prefixes, one event | `AccountedFor`, `RolesAreCurrent`, `KeysSignIn`, `AnsweredOnce`, `ListedOnce`, the API implements `RequestContract`; `EveryRequestEnds` |

Bounds, and why they are enough:

- Runs and workers: two workers meet in the claim statement; of two runs one can
  be older and one newer, which is what an overtaking needs. The theorems cover
  every number of both.
- `MaxFaults` bounds, in `TerraformRuns`, the faults of each of the `FaultKinds`
  (crash, signal, lost statement), so that one of each can meet in a behaviour; in
  `ManagedEnv` failed writes and deaths together. A worker does not recover
  anything at start, so a second crash meets nothing that the first did not; the
  theorems have no such bound.
- `Texts`: `TerraformRuns` has both, the other configurations with runs only
  `"text"`, because a refused result disturbs neither bundles nor the two
  violations, which happen without it. The theorems hold for both.
- Workspaces: two uploads with the same number, one before or after them; two
  runs, of one version (a plan and its apply) or of two. Workers share nothing
  but the queue and never write a bundle, so one worker that takes the runs in
  turn meets every state of the files; what faults of workers do to runs is in
  `TerraformRuns`, and `WorkspacesProofs` allows any number of workers and faults.
- Saves: one that reads, one that overtakes it, one that comes later.
- Requests to `managed.env`: two that overlap and a later one that rewrites what
  they left. The bodies contain a value of each kind (nothing to quote; to be
  quoted; to be quoted and escaped; with outer white space that is not quoted and a
  NUL), a removal, null values only, both keys, and two values with a newline: one
  whose second line sets the other key, one whose second line sets a name that
  becomes the other key when the file is next rewritten.
- Pool: one more request with a key than connections, so that the queue fills
  beyond the stall, and a request without a key that suffers from it.
- Starts: two that overlap and a third that comes when they are at different
  files. Three statements give file 1 a first, a middle and a last one; of the
  later files one cannot be run twice and one can (`ALTER ... SET DEFAULT`, as
  file 4). A second fault meets a schema that is whole or stranded, as the first
  did or left it.
- Requests: they share only the tables, so one request that creates a key next to
  one that uses it, or a single request of any kind next to one without a token,
  shows what can happen to a request. The six handlers are one of each shape: a
  key, a transaction, Proxmox, the file, a list, the list of organisations with
  its ignored errors. `MaxEvents` counts changes of memberships, expiries,
  migrations, faults of the database and ends of the process together; a
  disconnect comes on top, at any point.

`CHECK_DEADLOCK FALSE` stands in the configurations whose requests all end
(`ConfigBundles_uploaded`, `managed.env`, `Requests`) and in `Startup`, where nothing is left to do once
every process serves; the others never stop.

### Fairness

- `WF(WorkerStep(w))`: `RunOnce` is called from one goroutine in a loop with a
  ticker and its statements return. It says nothing of a worker that is down.
- `WF(Restart(w))`: the unit file has `Restart=on-failure` with `RestartSec=3`,
  below systemd's limit on starts. A worker that was stopped exits without an
  error and stays stopped until an operator starts it (`Start`, no fairness).
- `WF(TerraformExit(r))` is an assumption, not a fact about the code: `RunOnce`
  gives terraform no timeout. Without it a run may hang its worker.
- `WF(Grant)`, `WF(Serve(r))`: the pool serves its queue in order and a request
  that has its connection gets its answer from the database. There is no
  fairness on `Disconnect`, since `RequestTimeout` is configured and not used.

- `WF(Start(p))`, `WF(Step(p))` in `Startup`: `main` goes on by itself, and
  the unit of the API has `Restart=on-failure` with `RestartSec=4`. Weak fairness
  is enough although starts can make each other fail for a while: each failed
  start finds something that another one has done, and that is bounded.
- `WF(Handle(r))` in `Requests`: a handler goes on by itself. Queries are assumed
  to end (`ApiKeyPool` says when they wait for a connection) and a call to
  Proxmox ends after 60 s at the latest, whatever Proxmox does; nothing is fair
  about Proxmox, clients or operators.

Nothing is fair about the arrival of requests, signals or faults.

### Disagreements of code and documents

1. `TerraformRuns_nobundle`: a run without `configVersionId` is claimed, its NULL
   bundle path does not scan, and it stays `running` for ever; the branch that
   fails it with "no bundle" is not reached.
2. `TerraformRuns_durable`: jobs are called durable, but a claim is committed
   before the work and nobody takes back a `running` row.
3. `ConfigBundles_uploaded`: two uploads can read one version number and write
   one file; the one whose insert succeeds may own the bytes of the other.
4. `PveConnection_blank`: a save without a secret writes back what it had read
   and undoes a save in between.
5. `ManagedEnv_omitted`: a stored quote or backslash is escaped once more at each
   rewrite, also when the request omits its key. A newline is not escaped at all:
   the rest of the value is read back as a line of its own and can set another
   key. No claim is made after such a body (`BreaksLines`), nor after a rewrite of
   an odd name that it left (`HoldsOddName`).

Three more came out as conditions of the properties that hold, and have no
configuration of their own:

6. A result whose error or log PostgreSQL refuses is not stored, on a healthy
   database: the run stays `running`, and if terraform had succeeded its job is
   still closed as `done` (`worker/terraform.go:88-111`). A log of more than 32 KB
   with a character of several bytes at the cut is enough. Take `r \in refused`
   out of `JobAfterRun` or `ConfiguredRunEnds` and TLC shows it.
7. White space that `quoteEnvValue` does not look for (`\r` and the others) is lost
   at the ends of a value with nothing to quote; a value of nothing else is dropped
   from the file by the next rewrite (`config/managedenv.go:49, 61, 103`). `Kept`
   in the place of the value is what holds.
8. A value with NUL is stored in `managed.env` and never reaches the environment,
   the request being answered ok (`config/managedenv.go:40`).

`BundleIntact`, `BlankKeepsUnlessRaced`, `PlainValuesKept`, `WritesWhatItHolds`
(proved, not run), `EnvFollowsFile`, `JobAfterRun`, `ConfiguredRunEnds` state what
does hold beside each of these.

## 4. What is proved

All theorems are for every set of runs, workers, uploads, saves, processes,
requests, organisations, nodes and guests, and every bound; those of `Startup`
for every number of statements and files, and every choice of repeatable files
but the first; those of `Requests` for every subset of the handlers. Assumptions:
a null value is not one of the elements beside it, bounds are naturals, the sets
of requests of the pool and of nodes are finite, organisations are numbered,
containers are guests, key ids are not names of other credentials, the bodies of
`ManagedEnv` map names to texts. Every invariant and every action property of the
passing runs is proved, and so are the three refinements.

| Theorem | Statement |
|---|---|
| `TerraformRunsProofs!TypeCorrect` | `Spec => []TypeOK` |
| `RunsAreExclusive`, `QueueIsOrdered`, `WorkDirIsKept`, `JobsFollowRuns` | the safety properties of `TerraformRuns` |
| `Refinement` | `Spec => Lifecycle`: every step of the workers is a step of `RunLifecycle` or changes neither status nor process |
| `NothingDropped`, `NoLitter` | a configured run that is `running` has a worker unless there was a fault or its own result was refused (`DroppedForCause`), a temporary directory unless there was a crash (`OnlyCrashesLitter`): the safety side of `ConfiguredRunEnds` and `DirReclaimed` |
| `ConfigBundlesProofs!TypeCorrect`, `VersionsCorrect`, `FilesExist`, `BundlesIntact` | the safety properties of `ConfigBundles` |
| `ConfigBundlesProofs!Refinement` | `Spec => AppendOnly`: every step of an upload is a step of `VersionLog` or changes neither versions nor bundles |
| `WorkspacesProofs!BundlesAsAlone`, `RunsAsAlone` | `WSpec => Spec`, `WSpec => R!Spec`: a workspace implements both of its components, so that the theorems above hold in it |
| `VersionsHold` | `WSpec => [](...)` for the safety properties of `ConfigBundles`, and `AppendOnly` |
| `RunsExecuteTheirVersion`, `PlansAreApplied` | the two properties of `Workspaces` |
| `PveConnectionProofs!TypeCorrect`, `TokensMatch`, `BlankSavesKeep`, `FullSavesAreUsable` | the properties of `PveConnection` |
| `StartupProofs!TypeCorrect`, `SchemaReady`, `DevUserOnce`, `RacesAreHarmless` | the invariants of `Startup` |
| `LoneStartSucceeds` | `Spec => StartFailsOnlyIfRaced` |
| `ApiKeyPoolProofs!Accounting`, `KeysStall`, `NeverStalls` | connections are accounted for; a stall needs as many key requests as connections; fewer never stall |
| `OnlyStallsStandStill` | `Spec => []NoOtherStandstill`, the safety side of `AnsweredUnlessStalled` |
| `ManagedEnvProofs!RoundTrip` | reading what `WriteEnvFile` wrote: for every map of values without a newline under names that are not odd, the same names, and of each value that needs no escape what `Kept` leaves |
| `TypeCorrect`, `ValuesKept`, `EnvFollows` | the invariants of `ManagedEnv` |
| `WritesAreFaithful` | `Spec => WritesWhatItHolds`, what holds beside `OmittedKeysUnchanged` |
| `RequestsProofs!TypeCorrect`, `Accounted`, `CurrentRoles`, `KeysWork`, `OneAnswer`, `CompleteLists` | the invariants of `Requests` |
| `RequestsProofs!Refinement` | `Spec => Contract`: every step of the API, of Proxmox and of the surroundings is a step of `RequestContract` or changes neither effect nor entry nor answer |

The arguments:

- `TerraformRuns`. `ExclusiveRun` alone is not inductive: that nobody selects a
  run that another worker executes needs the status of the row, and that needs
  the place of the worker. `IInv` adds what a worker knows at each place of
  `RunOnce` (`WorkerInv`), how a row goes with its request and its process
  (`RowInv`) and that the clock is ahead of every row (`ClockInv`), which makes
  the runs that are `ahead` older than the run itself, so that the oldest
  claimable run has none of them behind it. The refinement follows action by
  action from `WorkerInv` and `RowInv`. `HandInv` says what a worker knows when it
  lets go of a run: that it is settled, or that a fault or its text is to blame,
  which needs
  that a cancelled context goes back to a signal, and that no run is claimed which
  has a directory already.
- `ConfigBundles`. A number is one more than every committed one, so an upload
  with a committed number must have been in flight at the same time (`MetInv`);
  what is written to its path can only come from such an upload (`FileInv`); below
  a number in flight everything is committed (`NumberInv`), hence no gaps. For the
  refinement the versions are `1..n` (`CountInv`), so that an insert appends
  (`InsertAccepts`), and whoever writes to the bundle of a version has met the
  upload of the version (`WriterHasMet`).
- `PveConnection`. `WriteInv` says what a save has in its hands before the
  upsert: a consistent row, the unchanged stored one if it is blank and was not
  overtaken, one sealed under the key of its process if not.
- `ApiKeyPool`. `TypeOK` counts what each request holds at each step and is
  inductive; `Used` is a sum of two cardinalities, and each way to give back or
  to get a connection is a lemma about it. A stalled pool then has only holders
  that wait, and only key requests wait with a connection in hand.

- `Startup`. File 1 has one owner, the process that created its first object: the
  statements are run in order, so who finds the first one done fails before it
  has done any (`OwnerInv`; run in any order, the same file can strand two
  processes without a fault). Versions and commits only grow (`Monotone`), so what
  a process found done is still done when it serves (`ProgressInv`). What a start
  has read stays true until it uses it if no other start overlaps (`AloneInv`),
  and each `Fatal` needs such a reading to be out of date.
- `Workspaces`. `WInv` is the invariant of `ConfigBundles`, the part of that of
  `TerraformRuns` which says that a run is in one hand and leaves the queue with
  its claim (`RunInv`), and what ties the two. A version is chosen once, among the
  committed ones (`VersionInv`). A bundle is opened once (`OpenedInv`), which needs
  exclusivity: a second worker with the run would read other bytes later. Only
  uploads of a number write to its path (`BytesInv`), so whatever a worker has
  seen there is what the version admits (`ReadInv`); once no upload with the
  number is left none can come, since later ones read a higher number, so that
  the file of a settled run stays as it was (`SettledInv`).
- `Requests`. `IInv` has one part for each question about a request. `Progress`:
  how far effect, entry and answer have got, by the place of the request. `Faults`:
  each place short of "ok" after an effect owes it to something in `hit`.
  `SigningIn`: which queries belong to which credential, and that nothing is
  written before the end. `RoleHeld`: the role in the context is one the user has
  had since the arrival, and past the guard it is enough; it has to hold of every
  request that has `Started`, not only of those that are done, because Proxmox may
  execute a POST after the request is over. `KeyKnown`: nobody presents a key
  before the answer that hands it out. The refinement follows action by action.
- `ListedOnce` has an invariant of its own (`LInv`): the calls still to be made
  are pairwise different, and a guest that has not moved has been found once if
  and only if the call for its node and kind is no longer among them. The calls
  are made from an order of the nodes, a bijection, so each node and kind occurs
  once (`CallsOfOrder`).

- `EnvFile`. A text is a sequence of characters, and the parser is a loop over its
  lines. The round trip is an induction over the lines of the file, and one over
  the characters of a value: both go through the least element of a set of
  naturals (`NatInduct`, from the well-foundedness of `Nat`), with the loop as a
  function from the number of rounds to what it has built (`AppendsExists`,
  `EnvTextLoop`). Appending a line to a text adds its settings to those of the text
  and nothing else (`ParseAppend`), because no line
  reaches beyond its newline (`LinesOfAppend`). A written line holds one setting
  (`EnvLineRead`): the name ends at the first `=`, the line is no comment and has no
  `export` in front if the name is not odd, quoting leaves no newline, and the
  quotes around a value that needs no escape come off again. Trimming twice is
  trimming once (`TrimTwice`), so what is kept of a value survives every further
  rewrite (`KeptTwice`). Names are sorted
  by a strict total order (`BeforeOrders`), so each of them has one place
  (`SortedNames`).
- `ManagedEnv`. `PlainValuesKept` speaks of the file between writes; the invariant
  (`IndInv`) carries it through a request. What a request holds is its body over
  what it read (`HeldIsMerge`); of the keys that are not in its body it holds what
  is expected, unless it read while the file was empty (`HeldIsKnown`); only values
  that survive are expected (`KnownIsPlain`); a write that is not marked as
  overlapping starts on an empty file (`WritesAlone`), so that nothing of an older
  text is left behind the new one. The end of the write is then the round trip. An
  attempt without `BreaksLines` or `HoldsOddName` fails at that step, and TLC finds
  the reason: a value with a newline sets a key that its body does not name, at
  once or at the next rewrite. `EnvFollowsFile` needs nothing of all this: whoever
  applies or loads the file sets what it says, and whoever changes it has still to
  apply it or has failed.
- `ApiKeyPool!NoOtherStandstill` follows from `TypeOK`: if all requests under way
  wait, either a connection is free or all are held by requests that wait.

Each invariant was checked by TLC before it was proved. Only model-checked, not
proved: liveness under fairness (`EveryRunClaimed`, `ConfiguredRunEnds`,
`DirReclaimed`, `AnsweredUnlessStalled`, `EveryApiServes`, `EveryRequestEnds`), which
the proof system does not support, of three of which the safety side is proved;
and the violations, which are counterexamples. The theorems about texts are for
the alphabet of `EnvFile`, a symbol for each kind of character.

## 5. What is not modelled, and the plan

Not modelled, for good:

- The row-level policies: they do not apply to the owner of the tables, as which
  the program connects. The web interface, installation, goose itself, what a log
  tail says and the contents of bundles. `PollLoop` and `CloneTemplate` are called by
  nothing.
- Terraform's state and its locks: `state_path` is stored and not passed on, so
  what becomes of the state is up to terraform in a temporary directory. No
  document of the repository says that runs of one workspace exclude each other.
- `fail` leaves the job of a failed run `pending` for ever: no statement writes
  anything but `done` to `work_jobs`, and nothing reads the table yet.
- Other workspaces: `configVersionId` is not compared with the workspace of the
  run, and no document says that it should be; the foreign key asks for a row.
- `DevLogin`, the cookie, signatures and expiry of tokens: a token parses or does
  not. The platform flag of a session is the one of its issue, so it may be
  anything up to 24 h old; nothing under `src/` changes a user's flag.
- Rate limit, CORS, static files, and the server's `WriteTimeout` of two minutes,
  which is shorter than several Proxmox calls of 60 s in a row: an answer then
  goes nowhere although the handler goes on. There is no clock in `Requests`.
- The rows of the catalogue, beyond that their transaction commits or not. The
  address fields of `PveConnection` (last writer wins).
- `applyEnv`: a straight conversion of one snapshot of the environment; its
  booleans can be switched on and not off. `GetAdminEnv`: reads and masks. The
  admin page itself leaves a masked database URL out of its patch.
- In `TerraformRuns` an orphaned terraform lives until it ends; under systemd it
  is killed earlier, which is one of the ends `TerraformExit` has.

Plan:

1. `ManagedEnv`: the shell's environment beneath the file, so that a key removed
   from the file and the booleans of `applyEnv` come out as the process sees them
   after a restart, and the values `GetAdminEnv` shows.
2. `Requests` with the pool of `ApiKeyPool` under it, so that the wait for a
   connection is part of a handler and its fairness no longer assumed.
3. `DevLogin` and several users, once the repository has another way to sign in
   (`auth/oidc.go` is a stub).
4. `Workspaces` with two workspaces, if versions come to be checked.
