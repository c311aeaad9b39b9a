---------------------------- MODULE ConfigBundles ----------------------------
(***************************************************************************)
(* Configuration versions of one workspace: the upload handler             *)
(* (internal/api/handler_tf.go, UploadConfig), the bundle files under      *)
(* <workdir>/tf-bundles/<org>/<workspace>/ and the table                   *)
(* tf_config_versions.  Other workspaces use other directories and rows.   *)
(*                                                                         *)
(* An upload reads max(version)+1 outside any transaction, writes          *)
(* bundle-v<version>.tgz, and then inserts the row; the file is neither    *)
(* locked nor removed when a later step fails.  Several requests, of one   *)
(* or several API processes, run at the same time.                         *)
(***************************************************************************)
EXTENDS Integers

CONSTANTS
    Upload,     \* upload requests; each carries bytes of its own
    Torn        \* a file that holds no upload's bytes: empty, partial, mixed

ASSUME TornAssumption == Torn \notin Upload

VARIABLES
    at,         \* where each upload is; its row exists once it is "committed"
    ver,        \* the version it read, 0 before
    file,       \* the bundle files: path -> whose bytes it holds
    mixed,      \* uploads whose write overlapped another write of the path
    met         \* history: pairs of uploads that ran at the same time

vars == <<at, ver, file, mixed, met>>

Committed == {u \in Upload : at[u] = "committed"}

InFlight == {u \in Upload : at[u] \in {"numbered", "writing", "written"}}

\* Bug: one bundle file per workspace.
PathWithoutVersion(v) == 1

\* bundle-v<version>.tgz in the workspace's directory, one path per version.
Path(v) == v

Init ==
    /\ at = [u \in Upload |-> "new"]
    /\ ver = [u \in Upload |-> 0]
    /\ file = [p \in {} |-> Torn]
    /\ mixed = {}
    /\ met = {}

\* The request is refused before it touches anything, or MkdirAll or the
\* select fails (90-118).
Reject(u) ==
    /\ at[u] = "new"
    /\ at' = [at EXCEPT ![u] = "refused"]
    /\ UNCHANGED <<ver, file, mixed, met>>

\* Bug: the number is taken from the files in the directory, so that an
\* abandoned upload uses up a version.
NumberFromFiles(u) ==
    /\ at[u] = "new"
    /\ \E v \in {1} \cup {p + 1 : p \in DOMAIN file} :
         /\ \A p \in DOMAIN file : p < v
         /\ ver' = [ver EXCEPT ![u] = v]
    /\ at' = [at EXCEPT ![u] = "numbered"]
    /\ met' = met \cup {{u, x} : x \in InFlight}
    /\ UNCHANGED <<file, mixed>>

\* Bug: the one is not added.
NumberWithoutOne(u) ==
    /\ at[u] = "new"
    /\ \E v \in {0} \cup {ver[x] : x \in Committed} :
         /\ \A x \in Committed : ver[x] <= v
         /\ ver' = [ver EXCEPT ![u] = v]
    /\ at' = [at EXCEPT ![u] = "numbered"]
    /\ met' = met \cup {{u, x} : x \in InFlight}
    /\ UNCHANGED <<file, mixed>>

\* SELECT coalesce(max(version),0)+1: one more than every committed version.
Number(u) ==
    /\ at[u] = "new"
    /\ \E v \in {1} \cup {ver[x] + 1 : x \in Committed} :
         /\ \A x \in Committed : ver[x] < v
         /\ ver' = [ver EXCEPT ![u] = v]
    /\ at' = [at EXCEPT ![u] = "numbered"]
    /\ met' = met \cup {{u, x} : x \in InFlight}
    /\ UNCHANGED <<file, mixed>>

WritingSamePath(u) ==
    {x \in Upload \ {u} : at[x] = "writing" /\ Path(ver[x]) = Path(ver[u])}

\* os.WriteFile opens the path with O_CREATE and O_TRUNC.
BeginWrite(u) ==
    /\ at[u] = "numbered"
    /\ at' = [at EXCEPT ![u] = "writing"]
    /\ file' = [p \in DOMAIN file \cup {Path(ver[u])} |->
                   IF p = Path(ver[u]) THEN Torn ELSE file[p]]
    /\ mixed' = IF WritingSamePath(u) = {} THEN mixed
                ELSE mixed \cup WritingSamePath(u) \cup {u}
    /\ UNCHANGED <<ver, met>>

\* os.WriteFile has written everything and closes.  Writers that overlapped may
\* have left the bytes of any of them, or a mixture.
EndWrite(u) ==
    /\ at[u] = "writing"
    /\ at' = [at EXCEPT ![u] = "written"]
    /\ \E bytes \in
          IF u \in mixed THEN {Torn} \cup {x \in mixed : Path(ver[x]) = Path(ver[u])}
                         ELSE {u} :
          file' = [file EXCEPT ![Path(ver[u])] = bytes]
    /\ UNCHANGED <<ver, mixed, met>>

\* Bug: UNIQUE (workspace_id, version) is missing.
InsertWithoutUnique(u) ==
    /\ at[u] = "written"
    /\ at' = [at EXCEPT ![u] = "committed"]
    /\ UNCHANGED <<ver, file, mixed, met>>

\* The INSERT is committed: UNIQUE (workspace_id, version) held.
Insert(u) ==
    /\ at[u] = "written"
    /\ \A x \in Committed : ver[x] # ver[u]
    /\ at' = [at EXCEPT ![u] = "committed"]
    /\ UNCHANGED <<ver, file, mixed, met>>

\* Bug: an error of os.WriteFile is ignored.
AbandonOrGoOn(u) ==
    /\ u \in InFlight
    /\ \E stage \in {"abandoned", "written"} : at' = [at EXCEPT ![u] = stage]
    /\ UNCHANGED <<ver, file, mixed, met>>

\* The upload ends without a row and leaves its file as it is: the write or the
\* insert fails (a duplicate version is one reason), the client goes away before
\* the insert, or the API process dies.
Abandon(u) ==
    /\ u \in InFlight
    /\ at' = [at EXCEPT ![u] = "abandoned"]
    /\ UNCHANGED <<ver, file, mixed, met>>

Next ==
    \E u \in Upload :
        \/ Reject(u) \/ Number(u) \/ BeginWrite(u) \/ EndWrite(u)
        \/ Insert(u) \/ Abandon(u)

Spec == Init /\ [][Next]_vars

-----------------------------------------------------------------------------
\* The types, and a version is assigned exactly to the uploads that got to
\* the select.
TypeOK ==
    /\ at \in [Upload -> {"new", "refused", "numbered", "writing", "written",
                          "committed", "abandoned"}]
    /\ ver \in [Upload -> Nat]
    /\ \A u \in Upload : ver[u] = 0 <=> at[u] \in {"new", "refused"}
    /\ DOMAIN file \subseteq Nat
    /\ \A p \in DOMAIN file : file[p] \in Upload \cup {Torn}
    /\ mixed \subseteq Upload
    /\ met \subseteq SUBSET Upload

\* The committed versions of a workspace are 1, 2, ..., n, each once, although
\* the number is read outside the inserting transaction and abandoned uploads
\* leave files behind (handler_tf.go:114-132).
VersionsAreSequence ==
    /\ \A u, x \in Committed : u # x => ver[u] # ver[x]
    /\ \A u \in Committed : \A v \in 1..(ver[u] - 1) : \E x \in Committed : ver[x] = v

\* A committed version always has a bundle file (handler_tf.go:121-132).
CommittedHasFile == \A u \in Committed : Path(ver[u]) \in DOMAIN file

Raced(u) == \E x \in Upload \ {u} : {u, x} \in met /\ ver[x] = ver[u]

\* A committed version keeps the bytes of its upload for ever, unless another
\* upload that ran at the same time had read the same version number: neither
\* later uploads nor what crashed ones left behind can damage it.
BundleIntact ==
    \A u \in Committed : file[Path(ver[u])] # u => Raced(u)

\* The worker extracts the uploaded bundle (docs/INSTALL.md:118): the file of a
\* committed version holds what its upload sent.
BundleIsUploaded == \A u \in Committed : file[Path(ver[u])] = u

-----------------------------------------------------------------------------
(* What this promises to somebody who sees versions and their bundles only. *)

Versions == {ver[u] : u \in Committed}

Owner(n) == CHOOSE u \in Committed : ver[u] = n

Log == INSTANCE VersionLog WITH
           open <- InFlight,
           log <- [n \in Versions |-> Owner(n)],
           whole <- {n \in Versions : file[Path(n)] = Owner(n)}

\* The uploads implement VersionLog: versions are only ever appended, and a bundle
\* changes only while an upload is under way that ran together with its own, also
\* when uploads fail or are abandoned half-way (handler_tf.go:114-139).
AppendOnly == Log!Spec

-----------------------------------------------------------------------------
(* The inductive invariant behind the safety properties.                   *)

\* Uploads in flight together have met, and an upload that has not met a
\* committed one started after that commit and got a larger number.
MetInv ==
    /\ \A u, x \in InFlight : u # x => {u, x} \in met
    /\ \A u \in Committed, x \in InFlight : {u, x} \in met \/ ver[u] < ver[x]

\* Below the number of an upload in flight every version is committed.
NumberInv ==
    \A u \in InFlight : \A v \in 1..(ver[u] - 1) : \E x \in Committed : ver[x] = v

\* From its opening on the file exists; once closed it is the upload's own
\* unless the upload raced; overlapping writers have met.
FileInv ==
    /\ \A u \in Upload : at[u] \in {"writing", "written", "committed"}
                            => Path(ver[u]) \in DOMAIN file
    /\ \A u \in Upload : at[u] \in {"written", "committed"}
                            => file[Path(ver[u])] = u \/ Raced(u)
    /\ \A u \in mixed : Raced(u) /\ ver[u] # 0

IInv ==
    /\ TypeOK
    /\ VersionsAreSequence
    /\ MetInv
    /\ NumberInv
    /\ FileInv
=============================================================================
