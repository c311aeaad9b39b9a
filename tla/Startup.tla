------------------------------- MODULE Startup -------------------------------
(***************************************************************************)
(* The start of API processes on one database (cmd/api/main.go): the       *)
(* migrations (internal/migrate/migrate.go), the development bootstrap     *)
(* (internal/repo/bootstrap.go), and then serving.  Any error ends the     *)
(* process, which the service manager starts again.                        *)
(*                                                                         *)
(* The processes do not exclude each other: goose.UpContext takes no lock. *)
(* File 1 runs outside a transaction (+goose NO TRANSACTION), one CREATE   *)
(* at a time, and then its version is recorded; the other files are one    *)
(* transaction each with their version.  What exists cannot be created     *)
(* again.  CREATE EXTENSION IF NOT EXISTS, which can, is left out, and so  *)
(* is the operator who inserts users before the first start.               *)
(***************************************************************************)
EXTENDS Integers

CONSTANTS
    Api,            \* API processes
    Statements,     \* CREATE statements of file 1
    Files,          \* migration files
    Repeatable,     \* files that can be run twice (ALTER ... SET DEFAULT)
    MaxFaults       \* bound on process deaths and lost statements

ASSUME SizeAssumption ==
    Statements \in Nat \ {0} /\ Files \in Nat \ {0} /\ MaxFaults \in Nat
ASSUME RepeatableAssumption == Repeatable \subseteq 2..Files

VARIABLES
    devBootstrap,   \* cfg.DevBootstrap of each process
    pc,             \* where each process is in main
    at,             \* the statement or the file it is going to run
    table,          \* goose_db_version exists
    objects,        \* the statements of file 1 whose object exists
    version,        \* the largest version in goose_db_version
    devs,           \* committed bootstraps: dev user, demo org, membership
    faults,         \* faults so far
    raced           \* history: starts that overlapped another start

vars == <<devBootstrap, pc, at, table, objects, version, devs, faults, raced>>

database == <<table, objects, version, devs>>

Starting(p) == pc[p] \notin {"down", "serving"}

Init ==
    /\ devBootstrap \in [Api -> BOOLEAN]
    /\ pc = [p \in Api |-> "down"]
    /\ at = [p \in Api |-> 0]
    /\ table = FALSE
    /\ objects = {}
    /\ version = 0
    /\ devs = 0
    /\ faults = 0
    /\ raced = [p \in Api |-> FALSE]

\* p goes on to step s, with statement or file n.
Go(p, s, n) ==
    /\ pc' = [pc EXCEPT ![p] = s]
    /\ at' = [at EXCEPT ![p] = n]
    /\ UNCHANGED <<devBootstrap, faults, raced>>

\* log.Fatal: the process exits with an error.
Fatal(p) == Go(p, "down", 0) /\ UNCHANGED database

-----------------------------------------------------------------------------
\* The service manager starts the process (again).
Start(p) ==
    LET others == {q \in Api \ {p} : Starting(q)} IN
    /\ pc[p] = "down"
    /\ pc' = [pc EXCEPT ![p] = "ensure"]
    /\ raced' = [q \in Api |-> IF q = p THEN others # {}
                               ELSE raced[q] \/ q \in others]
    /\ UNCHANGED <<devBootstrap, at, database, faults>>

\* goose looks for its table.
FindTable(p) ==
    /\ pc[p] = "ensure"
    /\ Go(p, IF table THEN "version" ELSE "create", 0)
    /\ UNCHANGED database

\* It was not there: create it; a table that has come up meanwhile is an error.
CreateTable(p) ==
    /\ pc[p] = "create"
    /\ \/ ~table /\ table' = TRUE /\ Go(p, "version", 0) /\ UNCHANGED <<objects, version, devs>>
       \/ table /\ Fatal(p)

\* Bug: the version of file 1 is recorded before its statements are run.
RecordBefore(p) ==
    /\ pc[p] = "version"
    /\ \/ version = 0 /\ version' = 1 /\ Go(p, "first", 1) /\ UNCHANGED <<table, objects, devs>>
       \/ version \in 1..(Files - 1) /\ Go(p, "file", version + 1) /\ UNCHANGED database
       \/ version = Files /\ Go(p, IF devBootstrap[p] THEN "count" ELSE "connect", 0)
                          /\ UNCHANGED database

\* The loop of goose: the file after the largest recorded version is next; none
\* is left, and main goes on.
NextFile(p) ==
    /\ pc[p] = "version"
    /\ \/ version = 0 /\ Go(p, "first", 1)
       \/ version \in 1..(Files - 1) /\ Go(p, "file", version + 1)
       \/ version = Files /\ Go(p, IF devBootstrap[p] THEN "count" ELSE "connect", 0)
    /\ UNCHANGED database

\* Bug: the statements are run in no fixed order.
StatementInAnyOrder(p) ==
    /\ pc[p] = "first"
    /\ \E i \in 1..Statements :
         \/ /\ i \notin objects
            /\ objects' = objects \cup {i}
            /\ Go(p, IF at[p] = Statements THEN "record" ELSE "first", at[p] + 1)
            /\ UNCHANGED <<table, version, devs>>
         \/ i \in objects /\ Fatal(p)

\* Bug: one statement too many.
StatementPastEnd(p) ==
    /\ pc[p] = "first"
    /\ \/ /\ at[p] \notin objects
          /\ objects' = objects \cup {at[p]}
          /\ Go(p, IF at[p] > Statements THEN "record" ELSE "first", at[p] + 1)
          /\ UNCHANGED <<table, version, devs>>
       \/ at[p] \in objects /\ Fatal(p)

\* A statement of file 1, committed at once.
Statement(p) ==
    /\ pc[p] = "first"
    /\ \/ /\ at[p] \notin objects
          /\ objects' = objects \cup {at[p]}
          /\ Go(p, IF at[p] = Statements THEN "record" ELSE "first", at[p] + 1)
          /\ UNCHANGED <<table, version, devs>>
       \/ at[p] \in objects /\ Fatal(p)

RecordFirst(p) ==
    /\ pc[p] = "record"
    /\ version' = 1
    /\ Go(p, "version", 0)
    /\ UNCHANGED <<table, objects, devs>>

\* A later file and its version, in one transaction.  A process that runs the
\* same file waits for it and then finds its objects, unless they can be altered
\* twice.
RunFile(p) ==
    /\ pc[p] = "file"
    /\ \/ /\ version < at[p] \/ at[p] \in Repeatable
          /\ version' = IF version < at[p] THEN at[p] ELSE version
          /\ Go(p, "version", 0)
          /\ UNCHANGED <<table, objects, devs>>
       \/ version >= at[p] /\ at[p] \notin Repeatable /\ Fatal(p)

-----------------------------------------------------------------------------
\* Bug: the bootstrap does not look whether there are users.
BootstrapAlways(p) ==
    /\ pc[p] = "count"
    /\ Go(p, "insert", 0)
    /\ UNCHANGED database

\* SELECT count(*) FROM users, outside the transaction that inserts.
CountUsers(p) ==
    /\ pc[p] = "count"
    /\ Go(p, IF devs > 0 THEN "connect" ELSE "insert", 0)
    /\ UNCHANGED database

\* Bug: users.oidc_sub is not unique.
InsertAgain(p) ==
    /\ pc[p] = "insert"
    /\ Go(p, "inserted", 0)
    /\ UNCHANGED database

\* INSERT INTO users: the unique oidc_sub makes it wait for an uncommitted one of
\* another process, and fail once that is committed.
InsertDev(p) ==
    /\ pc[p] = "insert"
    /\ \A q \in Api : pc[q] # "inserted"
    /\ \/ devs = 0 /\ Go(p, "inserted", 0) /\ UNCHANGED database
       \/ devs > 0 /\ Fatal(p)

\* The demo organisation and the membership follow, then the commit.
CommitDev(p) ==
    /\ pc[p] = "inserted"
    /\ devs' = devs + 1
    /\ Go(p, "connect", 0)
    /\ UNCHANGED <<table, objects, version>>

\* The pool is connected, the server listens.
Serve(p) ==
    /\ pc[p] = "connect"
    /\ Go(p, "serving", 0)
    /\ UNCHANGED database

\* The process dies, or a statement or a connection fails or takes longer than
\* the two minutes of main's context; an open transaction is rolled back.
Fault(p) ==
    /\ pc[p] # "down"
    /\ faults < MaxFaults
    /\ faults' = faults + 1
    /\ pc' = [pc EXCEPT ![p] = "down"]
    /\ at' = [at EXCEPT ![p] = 0]
    /\ UNCHANGED <<devBootstrap, database, raced>>

Step(p) ==
    \/ FindTable(p) \/ CreateTable(p) \/ NextFile(p) \/ Statement(p)
    \/ RecordFirst(p) \/ RunFile(p) \/ CountUsers(p) \/ InsertDev(p)
    \/ CommitDev(p) \/ Serve(p)

Next == \E p \in Api : Start(p) \/ Step(p) \/ Fault(p)

Spec == Init /\ [][Next]_vars

\* main goes on by itself, and the unit has Restart=on-failure.
Fairness == \A p \in Api : WF_vars(Start(p)) /\ WF_vars(Step(p))

FairSpec == Spec /\ Fairness

-----------------------------------------------------------------------------
Places == {"down", "ensure", "create", "version", "first", "record", "file",
           "count", "insert", "inserted", "connect", "serving"}

\* A process in file 1 is at one of its statements, or behind them.
RightPlace(s, n) ==
    /\ s \in Places /\ n \in Nat
    /\ s = "first" => n \in 1..Statements
    /\ s = "record" => n = Statements + 1
    /\ s = "file" => n \in 2..Files

ProcessesOK ==
    /\ devBootstrap \in [Api -> BOOLEAN]
    /\ pc \in [Api -> Places]
    /\ at \in [Api -> Nat]
    /\ \A p \in Api : RightPlace(pc[p], at[p])
    /\ faults \in 0..MaxFaults
    /\ raced \in [Api -> BOOLEAN]

DatabaseOK ==
    /\ table \in BOOLEAN
    /\ objects \subseteq 1..Statements
    /\ version \in 0..Files
    /\ devs \in Nat

\* The types of the processes' state and of the database's.
TypeOK == ProcessesOK /\ DatabaseOK

\* A process that serves has the whole schema, and with DevBootstrap the dev
\* user that DevLogin needs, whatever starts overlapped or died before
\* (main.go:34-51).
ServesReady ==
    \A p \in Api : pc[p] = "serving" =>
        /\ version = Files
        /\ objects = 1..Statements
        /\ devBootstrap[p] => devs > 0

\* The dev user, organisation and membership are created at most once, although
\* the users are counted before the transaction (bootstrap.go:13-22).
OneDevUser == devs <= 1

\* p has created objects of file 1 that it has not recorded yet.
Owns(p) == pc[p] = "record" \/ (pc[p] = "first" /\ at[p] > 1)

\* Objects of file 1 exist, its version is not recorded, and nobody is going to
\* record it: every start fails from now on.
Stranded == version = 0 /\ objects # {} /\ \A p \in Api : ~Owns(p)

\* Processes that start at the same time make each other fail, but never leave
\* file 1 half done: that takes a death or a lost statement in the middle of it
\* (00001_init_core.sql:2).
RacesNeverStrand == Stranded => faults > 0

\* A start fails without a fault only if it overlapped another start, or if file
\* 1 is half done (main.go:34-46, migrate.go:29, bootstrap.go:26-31).
StartFailsOnlyIfRaced ==
    [][\A p \in Api :
          pc[p] # "down" /\ pc'[p] = "down" /\ faults' = faults
          => raced[p] \/ Stranded]_vars

\* Every process comes to serve, however often the starts make each other fail,
\* unless file 1 is left half done.
EveryApiServes == \A p \in Api : pc[p] = "down" ~> pc[p] = "serving" \/ Stranded

-----------------------------------------------------------------------------
(* The inductive invariant behind the safety properties.                   *)

\* File 1 has one owner at most, the process that created its first object.
OwnerInv ==
    /\ \A p, q \in Api : Owns(p) /\ Owns(q) => p = q
    /\ \A p \in Api : Owns(p) => version = 0 /\ objects = 1..(at[p] - 1)
    /\ version > 0 => objects = 1..Statements
    /\ objects # {} => 1 \in objects
    /\ RacesNeverStrand

\* What a process has found done stays done.
ProgressInv ==
    \A p \in Api :
        /\ pc[p] = "file" => at[p] <= version + 1
        /\ pc[p] \in {"count", "insert", "inserted", "connect", "serving"}
              => version = Files
        /\ pc[p] \in {"connect", "serving"} /\ devBootstrap[p] => devs > 0

\* An uncommitted dev user is the only one.
DevInv ==
    /\ OneDevUser
    /\ \A p \in Api : pc[p] = "inserted" => devs = 0
    /\ \A p, q \in Api : pc[p] = "inserted" /\ pc[q] = "inserted" => p = q

\* What a process has read is still true if no other start overlapped.
AloneInv ==
    \A p \in Api : Starting(p) /\ ~raced[p] =>
        /\ \A q \in Api : Starting(q) => q = p
        /\ pc[p] = "create" => ~table
        /\ pc[p] = "first" /\ at[p] = 1 => objects = {} \/ Stranded
        /\ pc[p] = "file" => version < at[p]
        /\ pc[p] = "insert" => devs = 0

IInv == TypeOK /\ OwnerInv /\ ProgressInv /\ DevInv /\ AloneInv
=============================================================================
