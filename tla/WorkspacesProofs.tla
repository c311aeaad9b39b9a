--------------------------- MODULE WorkspacesProofs ---------------------------
(***************************************************************************)
(* Proofs about Workspaces, for any sets of uploads, runs and workers and  *)
(* any faults: both components behave in it as they do alone, and runs     *)
(* execute their versions.                                                 *)
(***************************************************************************)
EXTENDS ConfigBundlesProofs, Workspaces

-----------------------------------------------------------------------------
(* The components.                                                         *)

\* A step of the composition is a step of the uploads or none.
LEMMA BundleStep == [WNext]_wvars => [Next]_vars
  BY DEF WNext, wvars, vars, UploadStep, Enqueue, OpenBundle, ExtractBundle, OtherRunStep

\* A step of the composition is a step of the runs or none.
LEMMA RunStep == [WNext]_wvars => [R!Next]_(R!vars)
<1>1. \A r \in Run : Enqueue(r) => R!Next
  BY DEF Enqueue, R!Next
<1>2. \A w \in Worker : OpenBundle(w) \/ ExtractBundle(w) => R!Next
  BY DEF OpenBundle, ExtractBundle, R!Next, R!WorkerStep
<1>3. UploadStep \/ UNCHANGED wvars => UNCHANGED R!vars
  BY DEF UploadStep, wvars, runVars, R!vars
<1>4. OtherRunStep => R!Next
  BY DEF OtherRunStep
<1>5. QED
  BY <1>1, <1>2, <1>3, <1>4 DEF WNext

\* The composition implements ConfigBundles: runs never disturb uploads.
THEOREM BundlesAsAlone == WSpec => Spec
<1>1. WInit => Init
  BY DEF WInit
<1>2. QED
  BY <1>1, BundleStep, PTL DEF WSpec, Spec

\* What ConfigBundles keeps, it keeps in a workspace whose versions are executed at
\* the same time, for any number of runs, workers and faults: numbers without gaps,
\* a file for each of them, and bundles that only a racing upload can touch
\* (handler_tf.go:114-139).
THEOREM VersionsHold ==
    WSpec => [](VersionsAreSequence /\ CommittedHasFile /\ BundleIntact) /\ AppendOnly
  BY BundlesAsAlone, VersionsCorrect, FilesExist, BundlesIntact, Refinement, PTL

\* The composition implements TerraformRuns: uploads never disturb runs.
THEOREM RunsAsAlone == WSpec => R!Spec
<1>1. WInit => R!Init
  BY DEF WInit
<1>2. QED
  BY <1>1, RunStep, PTL DEF WSpec, R!Spec

-----------------------------------------------------------------------------
(* What the composition needs of TerraformRuns.                            *)

\* How far a step of the runs takes requests, rows and workers: a version is
\* chosen once, and a worker comes to a place of RunOnce from the one before.
Forward ==
    /\ \A r \in Run : request[r] # "unsent" =>
          request'[r] # "unsent" /\ config'[r] = config[r]
    /\ \A r \in Run : config'[r] = "set" /\ config[r] # "set" => request'[r] # "unsent"
    /\ \A r \in Run : status[r] \notin {"absent", "pending"} =>
          status'[r] \notin {"absent", "pending"}
    /\ \A w \in Worker :
          /\ pc'[w] = "unpack" => cur'[w] = cur[w] /\ pc[w] \in {"prepare", "unpack"}
          /\ pc'[w] = "prepare" =>
                /\ cur'[w] = cur[w]
                /\ pc[w] = "prepare" \/ (pc[w] = "claimed" /\ config[cur[w]] = "set")
          /\ pc'[w] = "claimed" => cur'[w] = cur[w] /\ pc[w] \in {"claiming", "claimed"}
          /\ pc'[w] = "claiming" =>
                \/ cur'[w] = cur[w] /\ pc[w] = "claiming"
                \/ cur'[w] \in Run /\ status[cur'[w]] = "pending"

\* The steps of the runs keep RunInv.
LEMMA RunStepKeeps == RunInv /\ [R!Next]_(R!vars) => RunInv' /\ Forward
<1> SUFFICES ASSUME RunInv, [R!Next]_(R!vars) PROVE RunInv' /\ Forward
  OBVIOUS
<1> USE RunsAssumption
    DEF RunInv, Forward, Outside, R!ExclusiveRun, R!Statuses, R!PCs, R!apiVars, R!BackToLoop
<1>1. ASSUME NEW r \in Run, R!EnqueueBegin(r) PROVE RunInv' /\ Forward
  BY <1>1 DEF R!EnqueueBegin
<1>2. ASSUME NEW r \in Run, R!EnqueueCommit(r) \/ R!EnqueueRollback(r) PROVE RunInv' /\ Forward
  BY <1>2 DEF R!EnqueueCommit, R!EnqueueRollback
<1>3. CASE UNCHANGED <<request, config, status, pc, cur>>
  BY <1>3
<1>4. ASSUME NEW r \in Run, R!TerraformExit(r) PROVE RunInv' /\ Forward
  BY <1>3, <1>4 DEF R!TerraformExit
<1>5. ASSUME NEW w \in Worker, R!ClaimSelect(w) PROVE RunInv' /\ Forward
  BY <1>5 DEF R!ClaimSelect, R!Oldest, R!Claimable, R!Locks
<1>6. ASSUME NEW w \in Worker, R!ClaimUpdate(w) PROVE RunInv' /\ Forward
  BY <1>6 DEF R!ClaimUpdate
<1>7. ASSUME NEW w \in Worker,
             R!ClaimAbort(w) \/ R!ClaimError(w) \/ R!Cleanup(w)
      PROVE RunInv' /\ Forward
  BY <1>7 DEF R!ClaimAbort, R!ClaimError, R!Cleanup
<1>8. ASSUME NEW w \in Worker,
             \/ R!ClaimScanned(w) \/ R!MakeWorkDir(w) \/ R!Extract(w) \/ R!TerraformInit(w)
             \/ R!TerraformStart(w) \/ R!TerraformWait(w) \/ R!CloseJob(w)
      PROVE RunInv' /\ Forward
  BY <1>8 DEF R!ClaimScanned, R!MakeWorkDir, R!Extract, R!TerraformInit, R!TerraformStart,
              R!TerraformWait, R!CloseJob
<1>9. ASSUME NEW w \in Worker, R!NoWorkDir(w) \/ R!FailRun(w) \/ R!SucceedRun(w)
      PROVE RunInv' /\ Forward
  <2>1. \E v \in {"failed", "succeeded"} : 
           status' = [status EXCEPT ![cur[w]] = v] \/ UNCHANGED status
    BY <1>9 DEF R!NoWorkDir, R!FailRun, R!SucceedRun, R!SetStatus
  <2>2. QED
    BY <1>9, <2>1 DEF R!NoWorkDir, R!FailRun, R!SucceedRun
<1>10. ASSUME NEW w \in Worker, R!ExitLoop(w) \/ R!Restart(w) \/ R!Start(w)
      PROVE RunInv' /\ Forward
  BY <1>10 DEF R!ExitLoop, R!Restart, R!Start, R!Up
<1>11. ASSUME NEW w \in Worker, R!Crash(w) PROVE RunInv' /\ Forward
  BY <1>11 DEF R!Crash
<1>12. ASSUME NEW w \in Worker, R!PollEmpty(w) \/ R!Shutdown(w) PROVE RunInv' /\ Forward
  BY <1>3, <1>12 DEF R!PollEmpty, R!Shutdown, R!vars
<1>13. QED
  BY <1>1, <1>2, <1>3, <1>4, <1>5, <1>6, <1>7, <1>8, <1>9, <1>10, <1>11, <1>12
  DEF R!Next, R!WorkerStep, R!vars
-----------------------------------------------------------------------------
(* Uploads and the versions the runs refer to.                             *)

\* A step of the uploads keeps the invariant of ConfigBundles.
LEMMA BundlesKeep == IInv /\ [Next]_vars => IInv'
  BY NextTypeOK, NextSequence, NextMetInv, NextFileInv DEF IInv

\* Versions are never taken back, and a number that was assigned stays.
LEMMA NumbersStay ==
  ASSUME IInv, [Next]_vars
  PROVE  /\ Committed \subseteq Committed'
         /\ \A u \in Upload : ver[u] # 0 => ver'[u] = ver[u]
<1>1. ASSUME NEW x \in Upload, Number(x)
      PROVE  Committed' = Committed /\ \A u \in Upload : ver[u] # 0 => ver'[u] = ver[u]
  BY <1>1 DEF IInv, TypeOK, Number, Committed
<1>2. ASSUME NEW x \in Upload,
             Reject(x) \/ BeginWrite(x) \/ EndWrite(x) \/ Insert(x) \/ Abandon(x)
      PROVE  Committed \subseteq Committed' /\ UNCHANGED ver
  BY <1>2 DEF IInv, TypeOK, Reject, BeginWrite, EndWrite, Insert, Abandon, Committed, InFlight
<1>3. QED
  BY <1>1, <1>2 DEF Next, vars, Committed

\* A path is written only by uploads that have its number.
LEMMA BytesKept == IInv /\ BytesInv /\ [Next]_vars => BytesInv'
<1> SUFFICES ASSUME IInv, BytesInv, [Next]_vars PROVE BytesInv'
  OBVIOUS
<1> USE DEF IInv, TypeOK, BytesInv
<1>1. ASSUME NEW u \in Upload, BeginWrite(u) PROVE BytesInv'
  BY <1>1 DEF BeginWrite, Path
<1>2. ASSUME NEW u \in Upload, EndWrite(u) PROVE BytesInv'
  <2>1. PICK bytes : /\ file' = [file EXCEPT ![Path(ver[u])] = bytes]
                     /\ bytes = Torn \/ ver[bytes] = ver[u]
    BY <1>2 DEF EndWrite, Path
  <2>2. QED
    BY <1>2, <2>1 DEF EndWrite, Path
<1>3. CASE UNCHANGED file
  BY <1>3, NumbersStay
<1>4. QED
  BY <1>1, <1>2, <1>3 DEF Next, vars, Reject, Number, Insert, Abandon

\* The file of a version holds nothing but what the version admits.
LEMMA BundleAcceptable ==
  IInv /\ BytesInv => \A r \in Run : version[r] \in Committed => Acceptable(r, Bundle(r))
<1> SUFFICES ASSUME IInv, BytesInv, NEW r \in Run, version[r] \in Committed
             PROVE  Acceptable(r, Bundle(r))
  OBVIOUS
<1>1. /\ Path(ver[version[r]]) \in DOMAIN file
      /\ Bundle(r) = version[r] \/ Raced(version[r])
  BY DEF IInv, FileInv, Committed, Bundle
<1>2. QED
  BY <1>1 DEF BytesInv, Bundle, Acceptable, Path

\* What a version admits it admits for ever.
LEMMA AcceptableStays ==
  ASSUME IInv, [Next]_vars, NEW r \in Run, version[r] \in Committed, version'[r] = version[r],
         NEW bytes \in Upload \cup {Torn}, Acceptable(r, bytes)
  PROVE  Acceptable(r, bytes)'
<1>1. PICK u \in Upload : version[r] = u /\ version'[r] = u /\ ver[u] # 0
  BY DEF IInv, TypeOK, Committed
<1>2. Raced(u) => Raced(u)' /\ ver'[u] = ver[u]
  BY <1>1, RacedStable
<1>3. bytes \in Upload /\ ver[bytes] = ver[u] => ver'[bytes] = ver[bytes]
  BY <1>1, NumbersStay
<1>4. QED
  BY <1>1, <1>2, <1>3 DEF Acceptable, Raced

\* Once a version is quiet it stays quiet, and its file stays as it is.
LEMMA QuietStays ==
  ASSUME IInv, [Next]_vars, NEW r \in Run, version[r] \in Committed, version'[r] = version[r],
         Quiet(r)
  PROVE  Quiet(r)' /\ Bundle(r)' = Bundle(r)
<1>1. version[r] \in Upload /\ at[version[r]] = "committed" /\ ver'[version[r]] = ver[version[r]]
  BY NumbersStay DEF IInv, TypeOK, Committed
<1>2. ASSUME NEW u \in Upload, Number(u) PROVE Quiet(r)' /\ Bundle(r)' = Bundle(r)
  <2>1. ver[version[r]] < ver'[u]
    BY <1>2, NumberIsNext
  <2>2. InFlight' = InFlight \cup {u} /\ \A x \in InFlight : ver'[x] = ver[x]
    BY <1>2 DEF Number, InFlight, IInv, TypeOK
  <2>3. ver[version[r]] \in Nat /\ ver'[u] # ver[version[r]]
    BY <2>1 DEF IInv, TypeOK, Committed
  <2>4. Bundle(r)' = Bundle(r)
    BY <1>1, <1>2 DEF Number, Bundle, Path
  <2>5. QED
    BY <1>1, <2>2, <2>3, <2>4 DEF Quiet
<1>3. ASSUME NEW u \in Upload, BeginWrite(u) \/ EndWrite(u)
      PROVE  Quiet(r)' /\ Bundle(r)' = Bundle(r)
  <2>1. InFlight' = InFlight /\ u \in InFlight /\ ver' = ver
    BY <1>3 DEF BeginWrite, EndWrite, InFlight, IInv, TypeOK
  <2>2. Path(ver[u]) # Path(ver[version[r]])
    BY <2>1 DEF Quiet, Path
  <2>3. Path(ver[version[r]]) \in DOMAIN file
    BY <1>1 DEF IInv, FileInv
  <2>4. file'[Path(ver[version[r]])] = file[Path(ver[version[r]])]
    BY <1>3, <2>2, <2>3 DEF BeginWrite, EndWrite
  <2>5. QED
    BY <2>1, <2>4 DEF Quiet, Bundle
<1>4. ASSUME NEW u \in Upload, Reject(u) \/ Insert(u) \/ Abandon(u)
      PROVE  Quiet(r)' /\ Bundle(r)' = Bundle(r)
  <2>1. InFlight' \subseteq InFlight /\ UNCHANGED <<ver, file>>
    BY <1>4 DEF Reject, Insert, Abandon, InFlight, IInv, TypeOK
  <2>2. QED
    BY <2>1 DEF Quiet, Bundle
<1>5. CASE UNCHANGED vars
  BY <1>5 DEF vars, Quiet, Bundle, InFlight
<1>6. QED
  BY <1>2, <1>3, <1>4, <1>5 DEF Next
-----------------------------------------------------------------------------
(* The invariant of the composition.                                       *)

\* The initial states satisfy it.
LEMMA InitWInv == WInit => WInv
<1> SUFFICES ASSUME WInit PROVE WInv
  OBVIOUS
<1>1. IInv /\ OwnTypes
  BY InitIInv DEF WInit, OwnTypes
<1>2. RunInv
  BY RunsAssumption DEF WInit, R!Init, RunInv, Outside, R!ExclusiveRun, R!Statuses, R!PCs
<1>3. VersionInv /\ OpenedInv /\ BytesInv /\ ReadInv /\ SettledInv
  BY DEF WInit, Init, R!Init, VersionInv, OpenedInv, Opened, Executed, BytesInv, ReadInv,
         Unpacking, SettledInv
<1>4. QED
  BY <1>1, <1>2, <1>3 DEF WInv

\* Every step keeps what the components are by themselves.
LEMMA ComponentsKeep ==
  ASSUME WInv, [WNext]_wvars
  PROVE  IInv' /\ BytesInv' /\ RunInv' /\ Forward /\ Committed \subseteq Committed'
  BY BundleStep, RunStep, BundlesKeep, BytesKept, RunStepKeeps, NumbersStay DEF WInv

\* A step of an upload.
LEMMA UploadKeeps ==
  ASSUME WInv, UploadStep, [WNext]_wvars
  PROVE  OwnTypes' /\ VersionInv' /\ OpenedInv' /\ ReadInv' /\ SettledInv'
<1> USE DEF WInv, OwnTypes, VersionInv, OpenedInv
<1>1. IInv' /\ BytesInv' /\ Committed \subseteq Committed' /\ [Next]_vars
  BY ComponentsKeep, BundleStep
<1>2. /\ UNCHANGED <<request, config, status, pc, cur, version, used, settled>>
      /\ seen' = [r \in Run |-> IF r \in Unpacking THEN seen[r] \cup {Bundle(r)'} ELSE seen[r]]
      /\ Unpacking' = Unpacking
  BY DEF UploadStep, runVars, Unpacking
<1>3. VersionInv'
  BY <1>1, <1>2
<1>4. \A r \in Run : r \in Unpacking => config[r] = "set" /\ seen[r] # {}
  BY DEF Unpacking, ReadInv
<1>5. \A r \in Run : Opened(r)' <=> Opened(r)
  BY <1>2, <1>4 DEF Opened, Executed
<1>6. /\ cur \in [Worker -> Run \cup {NoRun}]
      /\ \A w \in Worker : pc[w] \notin Outside => cur[w] \in Run
  BY DEF RunInv
<1>7. OpenedInv'
  BY <1>2, <1>5, <1>6 DEF Outside, Executed
<1>8. \A r \in Run : version[r] \in Committed => Acceptable(r, Bundle(r))'
  <2>1. (\A r \in Run : version[r] \in Committed => Acceptable(r, Bundle(r)))'
    BY <1>1, BundleAcceptable, PTL
  <2>2. QED
    BY <1>1, <1>2, <2>1
<1>9. \A r \in Run : version[r] \in Committed =>
         Path(ver'[version[r]]) \in DOMAIN file' /\ Bundle(r)' \in Upload \cup {Torn}
  BY <1>1, <1>2 DEF IInv, TypeOK, FileInv, Bundle, Committed
<1>10. OwnTypes'
  BY <1>2, <1>4, <1>9
<1>11. ASSUME NEW r \in Run, NEW bytes \in seen'[r] PROVE Acceptable(r, bytes)'
  <2>1. version[r] \in Committed /\ version'[r] = version[r]
    BY <1>2, <1>4, <1>11 DEF Opened
  <2>2. CASE bytes \in seen[r]
    <3>1. bytes \in Upload \cup {Torn} /\ Acceptable(r, bytes)
      BY <2>2 DEF ReadInv
    <3>2. QED
      BY <1>1, <2>1, <3>1, AcceptableStays
  <2>3. CASE bytes = Bundle(r)'
    BY <1>8, <2>1, <2>3
  <2>4. QED
    BY <1>2, <1>11, <2>2, <2>3
<1>12. ASSUME NEW r \in Executed PROVE Acceptable(r, used[r])'
  <2>1. PICK bytes \in Upload \cup {Torn} : used[r] = bytes /\ used'[r] = bytes
    BY <1>2, <1>12 DEF Executed
  <2>2. version[r] \in Committed /\ version'[r] = version[r]
    BY <1>2, <1>12 DEF Opened, Executed
  <2>3. Acceptable(r, bytes)'
    BY <1>1, <1>12, <2>1, <2>2, AcceptableStays DEF ReadInv, Executed
  <2>4. QED
    BY <2>1, <2>3 DEF Acceptable
<1>13. ReadInv'
  BY <1>2, <1>11, <1>12 DEF ReadInv, Unpacking, Executed
<1>14. SettledInv'
  <2> SUFFICES ASSUME NEW r \in settled
               PROVE  /\ Quiet(r)' /\ seen'[r] \subseteq {Bundle(r)'}
                      /\ used'[r] \in {NoUpload, Bundle(r)'}
    BY <1>2 DEF SettledInv
  <2>1. version[r] \in Committed /\ version'[r] = version[r] /\ r \in Run
    BY <1>2 DEF Opened
  <2>2. Quiet(r)' /\ Bundle(r)' = Bundle(r)
    BY <1>1, <2>1, QuietStays DEF SettledInv
  <2>3. QED
    BY <1>2, <2>1, <2>2 DEF SettledInv
<1>15. QED
  BY <1>3, <1>7, <1>10, <1>13, <1>14

\* What a run's version admits depends on the uploads and the run's version only.
LEMMA SameVersion ==
  ASSUME UNCHANGED vars, NEW r \in Run, version'[r] = version[r]
  PROVE  /\ Bundle(r)' = Bundle(r)
         /\ Quiet(r)' <=> Quiet(r)
         /\ \A bytes : Acceptable(r, bytes)' <=> Acceptable(r, bytes)
  BY DEF vars, Bundle, Quiet, InFlight, Acceptable, Raced

\* A request that starts to enqueue a run chooses its version; nobody knows the run yet.
LEMMA EnqueueKeeps ==
  ASSUME WInv, NEW q \in Run, Enqueue(q), [WNext]_wvars
  PROVE  OwnTypes' /\ VersionInv' /\ OpenedInv' /\ ReadInv' /\ SettledInv'
<1> USE DEF WInv, OwnTypes, VersionInv, OpenedInv
<1>1. RunInv' /\ Forward /\ Committed' = Committed
  BY ComponentsKeep DEF Enqueue, vars, Committed
<1>2. /\ request[q] = "unsent"
      /\ config' = [config EXCEPT ![q] = config'[q]] /\ config'[q] \in {"null", "set"}
      /\ UNCHANGED <<vars, status, pc, cur, seen, used, settled>>
  BY DEF Enqueue, R!EnqueueBegin, RunInv
<1>3. PICK u \in Committed \cup {NoUpload} :
            (config'[q] = "null" <=> u = NoUpload) /\ version' = [version EXCEPT ![q] = u]
  BY DEF Enqueue
<1>4. ~Opened(q) /\ q \notin Unpacking
  BY <1>2 DEF RunInv, Unpacking
<1>5. OwnTypes'
  BY <1>2, <1>3 DEF Committed
<1>6. VersionInv'
  <2>1. \A r \in Run \ {q} : config'[r] = config[r] /\ version'[r] = version[r]
    BY <1>2, <1>3 DEF RunInv
  <2>2. config'[q] = "set" => version'[q] \in Committed /\ request'[q] # "unsent"
    BY <1>1, <1>2, <1>3 DEF Forward
  <2>3. \A w \in Worker : pc[w] \in {"prepare", "unpack"} => cur[w] \in Run \ {q}
    BY <1>2 DEF RunInv, Outside
  <2>4. QED
    BY <1>1, <1>2, <2>1, <2>2, <2>3 DEF Forward
<1>7. OpenedInv'
  <2>1. \A r \in Run : (Opened(r)' <=> Opened(r)) /\ (Opened(r) => config'[r] = config[r])
    BY <1>2, <1>4 DEF Opened, Executed, RunInv
  <2>2. \A w \in Worker : pc[w] \in {"claiming", "claimed", "prepare"} => ~Opened(cur[w])'
    BY <1>2 DEF Opened, Executed
  <2>3. QED
    BY <1>2, <2>1, <2>2 DEF Executed
<1>8. \A r \in Run \ {q} : version'[r] = version[r]
  BY <1>3
<1>9. ReadInv'
  BY <1>2, <1>4, <1>8, SameVersion DEF ReadInv, Unpacking, Opened, Executed
<1>10. SettledInv'
  BY <1>2, <1>4, <1>8, SameVersion DEF SettledInv, Opened
<1>11. QED
  BY <1>5, <1>6, <1>7, <1>9, <1>10

\* A worker opens the bundle of its run, for the first time.
LEMMA OpenKeeps ==
  ASSUME WInv, NEW w \in Worker, OpenBundle(w), [WNext]_wvars
  PROVE  OwnTypes' /\ VersionInv' /\ OpenedInv' /\ ReadInv' /\ SettledInv'
<1> USE DEF WInv, OwnTypes, VersionInv, OpenedInv
<1> DEFINE q == cur[w]
<1>1. RunInv' /\ Forward
  BY ComponentsKeep
<1>2. /\ pc[w] = "prepare" /\ pc' = [pc EXCEPT ![w] = "unpack"]
      /\ UNCHANGED <<vars, request, config, status, cur, version, used>>
      /\ seen' = [seen EXCEPT ![q] = {Bundle(q)}]
      /\ settled' = IF Quiet(q) THEN settled \cup {q} ELSE settled
  BY DEF OpenBundle, R!MakeWorkDir, R!apiVars
<1>3. /\ q \in Run /\ ~Opened(q) /\ version[q] \in Committed /\ config[q] = "set"
      /\ status[q] \notin {"absent", "pending"}
      /\ \A v \in Worker \ {w} : cur[v] # q
  BY <1>2 DEF RunInv, Outside, R!ExclusiveRun
<1>4. Acceptable(q, Bundle(q)) /\ Bundle(q) \in Upload \cup {Torn}
  BY <1>3, BundleAcceptable DEF Committed, IInv, TypeOK, FileInv, Bundle
<1>5. OwnTypes'
  BY <1>2, <1>3, <1>4
<1>6. VersionInv'
  BY <1>2, <1>3 DEF vars, Committed
<1>7. OpenedInv'
  BY <1>2, <1>3 DEF Opened, Executed, RunInv
<1>8. ReadInv'
  BY <1>2, <1>3, <1>4, SameVersion DEF ReadInv, Unpacking, Executed
<1>9. SettledInv'
  BY <1>2, <1>3, SameVersion DEF SettledInv, Opened, Executed
<1>10. QED
  BY <1>5, <1>6, <1>7, <1>8, <1>9

\* A worker has extracted the bundle of its run.
LEMMA ExtractKeeps ==
  ASSUME WInv, NEW w \in Worker, ExtractBundle(w), [WNext]_wvars
  PROVE  OwnTypes' /\ VersionInv' /\ OpenedInv' /\ ReadInv' /\ SettledInv'
<1> USE DEF WInv, OwnTypes, VersionInv, OpenedInv
<1> DEFINE q == cur[w]
<1>1. /\ pc[w] = "unpack" /\ pc' = [pc EXCEPT ![w] = "init"]
      /\ UNCHANGED <<vars, request, config, status, cur, version, settled>>
      /\ seen' = [seen EXCEPT ![q] = {}]
  BY DEF ExtractBundle, R!Extract, R!apiVars
<1>2. PICK bytes \in seen[q] \cup {Torn} :
            /\ bytes \in seen[q] \/ seen[q] # {Bundle(q)}
            /\ used' = [used EXCEPT ![q] = bytes]
  BY DEF ExtractBundle
<1>3. /\ q \in Run /\ version[q] \in Committed /\ config[q] = "set"
      /\ status[q] \notin {"absent", "pending"}
      /\ \A v \in Worker \ {w} : cur[v] # q
  BY <1>1 DEF RunInv, Outside, R!ExclusiveRun
<1>4. Bundle(q) \in seen[q] /\ bytes \in Upload \cup {Torn}
  BY <1>1, <1>2, <1>3 DEF ReadInv, Unpacking
<1>5. Acceptable(q, bytes)
  <2>1. CASE bytes \in seen[q]
    BY <1>3, <2>1 DEF ReadInv
  <2>2. CASE bytes = Torn /\ seen[q] # {Bundle(q)}
    <3>1. PICK other \in seen[q] : other # Bundle(q)
      BY <1>4, <2>2
    <3>2. Raced(version[q])
      BY <1>3, <1>4, <3>1 DEF ReadInv, Acceptable
    <3>3. QED
      BY <2>2, <3>2 DEF Acceptable
  <2>3. QED
    BY <1>2, <2>1, <2>2
<1>6. OwnTypes'
  BY <1>1, <1>3, <1>2, <1>4
<1>7. VersionInv'
  BY <1>1, <1>3 DEF vars, Committed
<1>8. OpenedInv'
  <2>1. Opened(q) /\ \A r \in Run \ {q} : Opened(r)' <=> Opened(r)
    BY <1>1, <1>2, <1>3, <1>4 DEF Opened, Executed
  <2>2. \A v \in Worker : pc[v] \in {"claiming", "claimed", "prepare"} =>
           v # w /\ cur[v] \in Run \ {q} /\ ~Opened(cur[v])
    BY <1>1, <1>3 DEF RunInv, Outside
  <2>3. \A v \in Worker : pc'[v] \in {"claiming", "claimed", "prepare"} => ~Opened(cur[v])'
    BY <1>1, <1>2, <2>2 DEF Opened, Executed
  <2>4. \A v \in Worker : pc'[v] = "unpack" =>
           v # w /\ cur[v] \in Run \ {q} /\ cur[v] \notin Executed'
    BY <1>1, <1>2, <1>3 DEF RunInv, Outside, Executed
  <2>5. QED
    BY <1>1, <1>3, <2>1, <2>3, <2>4
<1>9. ReadInv'
  <2>1. \A r \in Run : /\ Bundle(r)' = Bundle(r)
                       /\ \A b : Acceptable(r, b)' <=> Acceptable(r, b)
    BY <1>1, SameVersion
  <2>2. \A r \in Unpacking' : r \in Unpacking \ {q}
    BY <1>1, <1>3 DEF Unpacking, RunInv
  <2>3. \A r \in Run \ {q} : seen'[r] = seen[r] /\ used'[r] = used[r]
    BY <1>1, <1>2
  <2>4. /\ seen'[q] = {} /\ used'[q] = bytes
    BY <1>1, <1>2, <1>3
  <2>5. \A r \in Unpacking' : Bundle(r)' \in seen'[r]
    BY <2>1, <2>2, <2>3 DEF ReadInv, Unpacking
  <2>6. \A r \in Run : \A b \in seen'[r] : Acceptable(r, b)'
    BY <2>1, <2>3, <2>4 DEF ReadInv
  <2>7. \A r \in Executed' : Acceptable(r, used[r])'
    BY <2>1, <2>3, <2>4, <1>5 DEF ReadInv, Executed
  <2>8. QED
    BY <2>5, <2>6, <2>7 DEF ReadInv
<1>10. SettledInv'
  <2>1. q \in settled => bytes = Bundle(q)
    BY <1>2, <1>4 DEF SettledInv
  <2>2. QED
    BY <1>1, <1>2, <1>3, <2>1, SameVersion DEF SettledInv
<1>11. QED
  BY <1>6, <1>7, <1>8, <1>9, <1>10

\* The other steps of the runs, and no step at all.
LEMMA OthersKeep ==
  ASSUME WInv, OtherRunStep \/ UNCHANGED wvars, [WNext]_wvars
  PROVE  OwnTypes' /\ VersionInv' /\ OpenedInv' /\ ReadInv' /\ SettledInv'
<1> USE DEF WInv, OwnTypes, VersionInv, OpenedInv
<1>1. RunInv' /\ Forward /\ UNCHANGED <<vars, config, ownVars>>
  BY ComponentsKeep DEF OtherRunStep, wvars, runVars
<1>2. UNCHANGED <<version, seen, used, settled, Committed>>
  BY <1>1 DEF ownVars, vars, Committed
<1>3. \A w \in Worker : pc'[w] = "unpack" => pc[w] = "unpack" /\ cur'[w] = cur[w]
  BY <1>1 DEF Forward, OtherRunStep, wvars, runVars
<1>4. VersionInv'
  BY <1>1, <1>2, <1>3 DEF Forward
<1>5. OpenedInv'
  <2>1. \A r \in Run : Opened(r)' <=> Opened(r)
    BY <1>2 DEF Opened, Executed
  <2>2. \A r \in Run : Opened(r)' => config'[r] = "set" /\ status'[r] \notin {"absent", "pending"}
    BY <1>1, <2>1 DEF Forward
  <2>3. \A w \in Worker : pc'[w] \in {"claiming", "claimed", "prepare"} => ~Opened(cur'[w])
    BY <1>1 DEF Forward, RunInv, Outside
  <2>4. \A w \in Worker : pc'[w] \in {"claiming", "claimed", "prepare"} => ~Opened(cur[w])'
    BY <1>2, <2>3 DEF Opened, Executed
  <2>5. QED
    BY <1>2, <1>3, <2>2, <2>4 DEF Executed
<1>6. Unpacking' \subseteq Unpacking
  BY <1>3 DEF Unpacking
<1>7. ReadInv'
  BY <1>1, <1>2, <1>6, SameVersion DEF ReadInv, Executed, Unpacking
<1>8. SettledInv'
  BY <1>1, <1>2, SameVersion DEF SettledInv
<1>9. QED
  BY <1>2, <1>4, <1>5, <1>7, <1>8

\* The inductive invariant holds in every behaviour.
THEOREM WInvariance == WSpec => []WInv
<1>1. WInv /\ [WNext]_wvars => WInv'
  <2> SUFFICES ASSUME WInv, [WNext]_wvars PROVE WInv'
    OBVIOUS
  <2>1. IInv' /\ BytesInv' /\ RunInv'
    BY ComponentsKeep
  <2>2. OwnTypes' /\ VersionInv' /\ OpenedInv' /\ ReadInv' /\ SettledInv'
    BY UploadKeeps, EnqueueKeeps, OpenKeeps, ExtractKeeps, OthersKeep DEF WNext
  <2>3. QED
    BY <2>1, <2>2 DEF WInv
<1>2. QED
  BY InitWInv, <1>1, PTL DEF WSpec

\* A run executes the bundle of its version, or that of an upload that had read the
\* same number at the same time (terraform.go:28-29, 47; handler_tf.go:114-132).
THEOREM RunsExecuteTheirVersion == WSpec => []RunsUseTheirVersion
<1>1. WInv => RunsUseTheirVersion
  BY DEF WInv, ReadInv, RunsUseTheirVersion, Acceptable, Executed
<1>2. QED
  BY <1>1, WInvariance, PTL

\* What was planned is what is applied, once no upload with the number of the
\* version is left (handler_tf.go:115; terraform.go:47).
THEOREM PlansAreApplied == WSpec => []PlanIsWhatIsApplied
<1>1. WInv => PlanIsWhatIsApplied
  BY DEF WInv, SettledInv, PlanIsWhatIsApplied, Executed, Bundle
<1>2. QED
  BY <1>1, WInvariance, PTL
=============================================================================
