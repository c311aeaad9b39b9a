------------------------- MODULE ConfigBundlesProofs -------------------------
(***************************************************************************)
(* Proofs about ConfigBundles, for any set of concurrent uploads.          *)
(***************************************************************************)
EXTENDS ConfigBundles, SequenceTheorems, TLAPS

\* The initial state satisfies the invariant.
LEMMA InitIInv == Init => IInv
  BY DEF Init, IInv, TypeOK, VersionsAreSequence, MetInv, NumberInv, FileInv,
         Committed, InFlight

\* Every step keeps every variable in its type.
LEMMA NextTypeOK == TypeOK /\ [Next]_vars => TypeOK'
<1> SUFFICES ASSUME TypeOK, [Next]_vars PROVE TypeOK'
  OBVIOUS
<1>1. ASSUME NEW u \in Upload, Reject(u) PROVE TypeOK'
  BY <1>1 DEF TypeOK, Reject
<1>2. ASSUME NEW u \in Upload, Number(u) PROVE TypeOK'
  <2>1. PICK v \in {1} \cup {ver[x] + 1 : x \in Committed} : ver' = [ver EXCEPT ![u] = v]
    BY <1>2 DEF Number
  <2>2. v \in Nat \ {0}
    BY <2>1 DEF TypeOK, Committed
  <2>3. met' \subseteq SUBSET Upload
    BY <1>2 DEF TypeOK, Number, InFlight
  <2>4. QED
    BY <1>2, <2>1, <2>2, <2>3 DEF TypeOK, Number
<1>3. ASSUME NEW u \in Upload, BeginWrite(u) PROVE TypeOK'
  <2>1. mixed' \subseteq Upload
    BY <1>3 DEF TypeOK, BeginWrite, WritingSamePath
  <2>2. QED
    BY <1>3, <2>1 DEF TypeOK, BeginWrite, Path
<1>4. ASSUME NEW u \in Upload, EndWrite(u) PROVE TypeOK'
  <2>1. PICK bytes \in Upload \cup {Torn} : file' = [file EXCEPT ![Path(ver[u])] = bytes]
    BY <1>4 DEF TypeOK, EndWrite
  <2>2. QED
    BY <1>4, <2>1 DEF TypeOK, EndWrite
<1>5. ASSUME NEW u \in Upload, Insert(u) \/ Abandon(u) PROVE TypeOK'
  BY <1>5 DEF TypeOK, Insert, Abandon, InFlight
<1>6. CASE UNCHANGED vars
  BY <1>6 DEF TypeOK, vars
<1>7. QED
  BY <1>1, <1>2, <1>3, <1>4, <1>5, <1>6 DEF Next

\* A number is larger than every committed version and leaves no gap below it.
LEMMA NumberIsNext ==
  ASSUME IInv, NEW u \in Upload, Number(u)
  PROVE  /\ \A x \in Committed : ver[x] < ver'[u]
         /\ \A v \in 1..(ver'[u] - 1) : \E x \in Committed : ver[x] = v
<1>1. PICK n \in {1} \cup {ver[x] + 1 : x \in Committed} :
             (\A x \in Committed : ver[x] < n) /\ ver' = [ver EXCEPT ![u] = n]
  BY DEF Number
<1>2. ver'[u] = n
  BY <1>1 DEF IInv, TypeOK
<1>3. CASE n = 1
  BY <1>1, <1>2, <1>3
<1>4. ASSUME NEW y \in Committed, n = ver[y] + 1
      PROVE  \A v \in 1..(n - 1) : \E x \in Committed : ver[x] = v
  <2>1. ver[y] \in Nat
    BY DEF Committed, IInv, TypeOK
  <2>2. ASSUME NEW v \in 1..(n - 1), v # ver[y] PROVE v \in 1..(ver[y] - 1)
    BY <1>4, <2>1, <2>2
  <2>3. QED
    BY <2>2 DEF IInv, VersionsAreSequence
<1>5. QED
  BY <1>1, <1>2, <1>3, <1>4

\* The committed versions stay a sequence without gaps or duplicates.
LEMMA NextSequence == IInv /\ [Next]_vars => VersionsAreSequence' /\ NumberInv'
<1> SUFFICES ASSUME IInv, [Next]_vars PROVE VersionsAreSequence' /\ NumberInv'
  OBVIOUS
<1> USE DEF IInv, TypeOK, VersionsAreSequence, NumberInv
<1>1. ASSUME NEW u \in Upload, Number(u) PROVE VersionsAreSequence' /\ NumberInv'
  <2>1. Committed' = Committed /\ InFlight' = InFlight \cup {u}
    BY <1>1 DEF Number, Committed, InFlight
  <2>2. \A x \in Committed \cup InFlight : x # u /\ ver'[x] = ver[x]
    BY <1>1 DEF Number, Committed, InFlight
  <2>3. QED
    BY <1>1, <2>1, <2>2, NumberIsNext
<1>2. ASSUME NEW u \in Upload, Insert(u) PROVE VersionsAreSequence' /\ NumberInv'
  <2>1. Committed' = Committed \cup {u} /\ InFlight' = InFlight \ {u} /\ u \in InFlight
    BY <1>2 DEF Insert, Committed, InFlight
  <2>2. UNCHANGED ver /\ \A x \in Committed : ver[x] # ver[u]
    BY <1>2 DEF Insert
  <2>3. QED
    BY <2>1, <2>2
<1>3. ASSUME UNCHANGED ver, Committed' = Committed, InFlight' \subseteq InFlight
      PROVE  VersionsAreSequence' /\ NumberInv'
  BY <1>3
<1>4. ASSUME NEW u \in Upload, Reject(u) \/ BeginWrite(u) \/ EndWrite(u) \/ Abandon(u)
      PROVE  UNCHANGED ver /\ Committed' = Committed /\ InFlight' \subseteq InFlight
  BY <1>4 DEF Reject, BeginWrite, EndWrite, Abandon, Committed, InFlight
<1>5. CASE UNCHANGED vars
  BY <1>3, <1>5 DEF vars, Committed, InFlight
<1>6. QED
  BY <1>1, <1>2, <1>3, <1>4, <1>5 DEF Next

\* Uploads that are in flight together have met, whoever came first.
LEMMA NextMetInv == IInv /\ [Next]_vars => MetInv'
<1> SUFFICES ASSUME IInv, [Next]_vars PROVE MetInv'
  OBVIOUS
<1> USE DEF IInv, TypeOK, MetInv
<1>1. ASSUME NEW u \in Upload, Number(u) PROVE MetInv'
  <2>1. Committed' = Committed /\ InFlight' = InFlight \cup {u}
    BY <1>1 DEF Number, Committed, InFlight
  <2>2. \A x \in Committed \cup InFlight : x # u /\ ver'[x] = ver[x]
    BY <1>1 DEF Number, Committed, InFlight
  <2>3. met \subseteq met' /\ \A x \in InFlight : {u, x} \in met'
    BY <1>1 DEF Number
  <2>4. \A x \in Committed : ver'[x] < ver'[u]
    BY <1>1, <2>2, NumberIsNext
  <2>5. \A x \in InFlight : {x, u} = {u, x}
    OBVIOUS
  <2>6. QED
    BY <2>1, <2>2, <2>3, <2>4, <2>5
<1>2. ASSUME NEW u \in Upload, Insert(u) PROVE MetInv'
  <2>1. Committed' = Committed \cup {u} /\ InFlight' = InFlight \ {u} /\ u \in InFlight
    BY <1>2 DEF Insert, Committed, InFlight
  <2>2. UNCHANGED <<ver, met>>
    BY <1>2 DEF Insert
  <2>3. QED
    BY <2>1, <2>2
<1>3. ASSUME UNCHANGED <<ver, met>>, Committed' = Committed, InFlight' \subseteq InFlight
      PROVE  MetInv'
  BY <1>3
<1>4. ASSUME NEW u \in Upload, Reject(u) \/ BeginWrite(u) \/ EndWrite(u) \/ Abandon(u)
      PROVE  /\ UNCHANGED <<ver, met>>
             /\ Committed' = Committed /\ InFlight' \subseteq InFlight
  BY <1>4 DEF Reject, BeginWrite, EndWrite, Abandon, Committed, InFlight
<1>5. CASE UNCHANGED vars
  BY <1>3, <1>5 DEF vars, Committed, InFlight
<1>6. QED
  BY <1>1, <1>2, <1>3, <1>4, <1>5 DEF Next

\* A write can hit only the file of an upload that it raced.
LEMMA WriteHitsRaced ==
  ASSUME IInv, NEW u \in Upload, at[u] \in {"numbered", "writing"},
         NEW x \in Upload \ {u}, at[x] \in {"writing", "written", "committed"},
         Path(ver[x]) = Path(ver[u])
  PROVE  Raced(x) /\ Raced(u)
<1>1. {x, u} \in met
  BY DEF IInv, TypeOK, MetInv, Committed, InFlight, Path
<1>2. {x, u} = {u, x}
  OBVIOUS
<1>3. QED
  BY <1>1, <1>2 DEF Raced, Path

\* Raced is stable: a version number is not changed once it is assigned.
LEMMA RacedStable ==
  ASSUME IInv, [Next]_vars, NEW x \in Upload, Raced(x), ver[x] # 0
  PROVE  Raced(x)' /\ ver'[x] = ver[x]
<1>1. PICK y \in Upload \ {x} : {x, y} \in met /\ ver[y] = ver[x]
  BY DEF Raced
<1>2. met \subseteq met' /\ \A z \in {x, y} : ver'[z] = ver[z]
  <2>1. at[x] # "new" /\ at[y] # "new"
    BY <1>1 DEF IInv, TypeOK
  <2>2. ASSUME NEW u \in Upload, Number(u) PROVE met \subseteq met' /\ \A z \in {x, y} : ver'[z] = ver[z]
    BY <2>1, <2>2 DEF Number, IInv, TypeOK
  <2>3. QED
    BY <2>2 DEF Next, vars, Reject, BeginWrite, EndWrite, Insert, Abandon
<1>3. QED
  BY <1>1, <1>2 DEF Raced

\* The files stay as FileInv says.
LEMMA NextFileInv == IInv /\ TypeOK' /\ [Next]_vars => FileInv'
<1> SUFFICES ASSUME IInv, TypeOK', [Next]_vars PROVE FileInv'
  OBVIOUS
<1>1. \A x \in Upload : Raced(x) /\ ver[x] # 0 => Raced(x)' /\ ver'[x] # 0
  BY RacedStable
<1>2. \A x \in Upload : at[x] \in {"writing", "written", "committed"} => ver[x] # 0
  BY DEF IInv, TypeOK
<1>3. ASSUME NEW u \in Upload, BeginWrite(u) PROVE FileInv'
  <2>1. \A x \in Upload \ {u} : /\ at[x] \in {"writing", "written", "committed"}
                               /\ Path(ver[x]) = Path(ver[u])
                               => Raced(x) /\ Raced(u)
    BY <1>3, WriteHitsRaced DEF BeginWrite
  <2>2. \A x \in mixed' : Raced(x) /\ ver[x] # 0
    BY <1>2, <1>3, <2>1 DEF BeginWrite, WritingSamePath, IInv, TypeOK, FileInv
  <2>3. \A x \in mixed' : Raced(x)' /\ ver'[x] # 0
    BY <1>1, <2>2, <1>3 DEF BeginWrite, WritingSamePath, IInv, TypeOK
  <2>4. \A x \in Upload : at'[x] \in {"writing", "written", "committed"}
                             => Path(ver'[x]) \in DOMAIN file'
    BY <1>3 DEF BeginWrite, IInv, TypeOK, FileInv
  <2>5. ASSUME NEW x \in Upload, at'[x] \in {"written", "committed"}
        PROVE  file'[Path(ver'[x])] = x \/ Raced(x)'
    <3>1. x # u /\ at'[x] = at[x] /\ ver' = ver
      BY <1>3, <2>5 DEF BeginWrite, IInv, TypeOK
    <3>2. CASE Path(ver[x]) = Path(ver[u])
      BY <1>1, <1>2, <2>1, <2>5, <3>1, <3>2
    <3>3. CASE Path(ver[x]) # Path(ver[u])
      BY <1>1, <1>2, <1>3, <2>5, <3>1, <3>3 DEF BeginWrite, IInv, FileInv
    <3>4. QED
      BY <3>2, <3>3
  <2>6. QED
    BY <2>3, <2>4, <2>5 DEF FileInv
<1>4. ASSUME NEW u \in Upload, EndWrite(u) PROVE FileInv'
  <2>1. PICK bytes : /\ file' = [file EXCEPT ![Path(ver[u])] = bytes]
                     /\ u \notin mixed => bytes = u
    BY <1>4 DEF EndWrite
  <2>2. Path(ver[u]) \in DOMAIN file
    BY <1>4 DEF EndWrite, IInv, FileInv
  <2>3. \A x \in Upload : at'[x] \in {"writing", "written", "committed"}
                             => Path(ver'[x]) \in DOMAIN file'
    BY <1>4, <2>1 DEF EndWrite, IInv, TypeOK, FileInv
  <2>4. ASSUME NEW x \in Upload, at'[x] \in {"written", "committed"}
        PROVE  file'[Path(ver'[x])] = x \/ Raced(x)'
    <3>1. CASE x = u
      BY <1>1, <1>4, <2>1, <2>2, <3>1 DEF EndWrite, IInv, FileInv
    <3>2. CASE x # u /\ Path(ver[x]) = Path(ver[u])
      BY <1>1, <1>2, <1>4, <2>4, <3>2, WriteHitsRaced DEF EndWrite, IInv, TypeOK
    <3>3. CASE x # u /\ Path(ver[x]) # Path(ver[u])
      BY <1>1, <1>2, <1>4, <2>1, <2>4, <3>3 DEF EndWrite, IInv, TypeOK, FileInv
    <3>4. QED
      BY <3>1, <3>2, <3>3
  <2>5. \A x \in mixed' : Raced(x)' /\ ver'[x] # 0
    BY <1>1, <1>4 DEF EndWrite, IInv, TypeOK, FileInv
  <2>6. QED
    BY <2>3, <2>4, <2>5 DEF FileInv
<1>5. ASSUME UNCHANGED <<file, mixed>>,
             \A x \in Upload :
                /\ at'[x] = "writing" => at[x] = "writing"
                /\ at'[x] \in {"written", "committed"} => at[x] \in {"written", "committed"},
             \A x \in Upload : at[x] # "new" => ver'[x] = ver[x]
      PROVE  FileInv'
  <2>1. \A x \in Upload : at'[x] \in {"writing", "written", "committed"}
                             => /\ at[x] \in {"writing", "written", "committed"}
                                /\ ver'[x] = ver[x]
    BY <1>5
  <2>2. \A x \in mixed' : Raced(x)' /\ ver'[x] # 0
    BY <1>1, <1>5 DEF IInv, TypeOK, FileInv
  <2>3. QED
    BY <1>1, <1>2, <1>5, <2>1, <2>2 DEF IInv, FileInv
<1>6. ASSUME NEW u \in Upload, Reject(u) \/ Number(u) \/ Insert(u) \/ Abandon(u)
      PROVE  FileInv'
  BY <1>5, <1>6 DEF Reject, Number, Insert, Abandon, IInv, TypeOK
<1>7. CASE UNCHANGED vars
  BY <1>5, <1>7 DEF vars
<1>8. QED
  BY <1>3, <1>4, <1>6, <1>7 DEF Next

\* The inductive invariant holds in every behaviour.
THEOREM Invariance == Spec => []IInv
<1>1. IInv /\ [Next]_vars => IInv'
  BY NextTypeOK, NextSequence, NextMetInv, NextFileInv DEF IInv
<1>2. QED
  BY InitIInv, <1>1, PTL DEF Spec

\* Numbers and files have their types: an upload has a number from when it has read one.
THEOREM TypeCorrect == Spec => []TypeOK
<1>1. IInv => TypeOK
  BY DEF IInv
<1>2. QED
  BY <1>1, Invariance, PTL

\* Committed versions are numbered 1, 2, ... without gap or duplicate
\* (handler_tf.go:114-132).
THEOREM VersionsCorrect == Spec => []VersionsAreSequence
<1>1. IInv => VersionsAreSequence
  BY DEF IInv
<1>2. QED
  BY <1>1, Invariance, PTL

\* Committed versions have a file (handler_tf.go:121-132).
THEOREM FilesExist == Spec => []CommittedHasFile
<1>1. IInv => CommittedHasFile
  BY DEF IInv, FileInv, CommittedHasFile, Committed
<1>2. QED
  BY <1>1, Invariance, PTL

\* Only an upload of the same number that ran at the same time can damage the
\* bundle of a committed version (handler_tf.go:114-121).
THEOREM BundlesIntact == Spec => []BundleIntact
<1>1. IInv => BundleIntact
  BY DEF IInv, FileInv, BundleIntact, Committed
<1>2. QED
  BY <1>1, Invariance, PTL

-----------------------------------------------------------------------------
(* The uploads implement VersionLog.                                       *)

\* The log without its mapping.
Owners == [n \in Versions |-> Owner(n)]

Whole == {n \in Versions : file[Path(n)] = Owner(n)}

OwnersKnown ==
    /\ \A u \in Committed : ver[u] \in Versions /\ Owner(ver[u]) = u
    /\ \A n \in Versions : Owner(n) \in Committed /\ ver[Owner(n)] = n

\* A committed version belongs to one upload.
LEMMA OwnerIs == VersionsAreSequence => OwnersKnown
<1> SUFFICES ASSUME VersionsAreSequence PROVE OwnersKnown
  OBVIOUS
<1>1. ASSUME NEW n \in Versions PROVE Owner(n) \in Committed /\ ver[Owner(n)] = n
  BY <1>1 DEF Versions, Owner
<1>2. ASSUME NEW u \in Committed PROVE ver[u] \in Versions /\ Owner(ver[u]) = u
  <2>1. ver[u] \in Versions
    BY DEF Versions
  <2>2. QED
    BY <1>1, <2>1 DEF VersionsAreSequence
<1>3. QED
  BY <1>1, <1>2 DEF OwnersKnown

\* The versions are 1, 2, ..., n for some n.
CountInv == \E n \in Nat : Versions = 1..n

\* A commit appends the next number and no other step changes the versions.
LEMMA CommitAppends ==
  ASSUME IInv, CountInv, NEW u \in Upload, Insert(u)
  PROVE  \E n \in Nat : Versions = 1..n /\ ver[u] = n + 1 /\ Versions' = 1..(n + 1)
<1>1. PICK n \in Nat : Versions = 1..n
  BY DEF CountInv
<1>2. Committed' = Committed \cup {u} /\ ver' = ver
  BY DEF Insert, Committed, IInv, TypeOK
<1>3. Versions' = Versions \cup {ver[u]}
  BY <1>2 DEF Versions
<1>4. ver[u] \in Nat \ {0} /\ u \in InFlight
  BY DEF Insert, InFlight, IInv, TypeOK
<1>5. ver[u] \notin Versions
  BY DEF Insert, Versions
<1>6. \A v \in 1..(ver[u] - 1) : v \in Versions
  BY <1>4 DEF IInv, NumberInv, Versions
<1>7. ver[u] = n + 1
  <2>1. ver[u] > n
    BY <1>1, <1>4, <1>5
  <2>2. CASE ver[u] > n + 1
    <3>1. n + 1 \in 1..(ver[u] - 1)
      BY <1>1, <1>4, <2>2
    <3>2. n + 1 \in 1..n
      BY <1>1, <1>6, <3>1
    <3> QED
      BY <1>1, <3>2
  <2>3. QED
    BY <1>1, <1>4, <2>1, <2>2
<1>8. 1..(n + 1) = (1..n) \cup {n + 1}
  BY <1>1
<1>9. QED
  BY <1>1, <1>3, <1>7, <1>8

\* A step that commits nothing and renumbers no committed upload leaves the log
\* as it is.
LEMMA LogStays ==
  ASSUME IInv, VersionsAreSequence', Committed' = Committed,
         \A u \in Committed : ver'[u] = ver[u]
  PROVE  Versions' = Versions /\ Owners' = Owners
<1>1. Versions' = Versions
  BY DEF Versions
<1>2. ASSUME NEW n \in Versions PROVE Owner(n)' = Owner(n)
  <2>1. Owner(n) \in Committed /\ ver[Owner(n)] = n
    BY OwnerIs DEF IInv, OwnersKnown
  <2>2. OwnersKnown'
    BY OwnerIs, PTL
  <2>3. Owner(n) \in Committed' /\ ver'[Owner(n)] = n
    BY <2>1
  <2> QED
    BY <2>2, <2>3 DEF OwnersKnown
<1>3. QED
  BY <1>1, <1>2 DEF Owners

\* The versions stay 1, 2, ..., n.
LEMMA NextCount ==
  IInv /\ VersionsAreSequence' /\ CountInv /\ [Next]_vars => CountInv'
<1> SUFFICES ASSUME IInv, VersionsAreSequence', CountInv, [Next]_vars PROVE CountInv'
  OBVIOUS
<1>1. ASSUME NEW u \in Upload, Insert(u) PROVE CountInv'
  <2>1. PICK n \in Nat : Versions' = 1..(n + 1)
    BY <1>1, CommitAppends
  <2>2. n + 1 \in Nat
    OBVIOUS
  <2> QED
    BY <2>1, <2>2 DEF CountInv
<1>2. ASSUME Committed' = Committed, \A u \in Committed : ver'[u] = ver[u] PROVE CountInv'
  BY <1>2, LogStays DEF CountInv
<1>3. ASSUME NEW u \in Upload,
             Reject(u) \/ Number(u) \/ BeginWrite(u) \/ EndWrite(u) \/ Abandon(u)
      PROVE  Committed' = Committed /\ \A x \in Committed : ver'[x] = ver[x]
  BY <1>3 DEF Reject, Number, BeginWrite, EndWrite, Abandon, Committed, InFlight, IInv, TypeOK
<1>4. CASE UNCHANGED vars
  BY <1>2, <1>4 DEF vars, Committed
<1>5. QED
  BY <1>1, <1>2, <1>3, <1>4 DEF Next

\* A step that writes to the bundle of a committed version is one of an upload that
\* was under way together with that of the version.
LEMMA WriterHasMet ==
  ASSUME IInv, NEW u \in InFlight, NEW n \in Versions, n = ver[u]
  PROVE  {Owner(n), u} \in met
<1>1. Owner(n) \in Committed /\ ver[Owner(n)] = n
  BY OwnerIs DEF IInv, OwnersKnown
<1>2. ver[u] \in Nat
  BY DEF InFlight, IInv, TypeOK
<1>3. QED
  BY <1>1, <1>2 DEF IInv, MetInv

\* Opening or closing the file of u disturbs at most the version with its number.
LEMMA WriteDisturbs ==
  ASSUME IInv, VersionsAreSequence', NEW u \in InFlight, UNCHANGED <<ver, met>>,
         Committed' = Committed, InFlight' = InFlight,
         DOMAIN file \subseteq DOMAIN file',
         \A p \in DOMAIN file : p # Path(ver[u]) => file'[p] = file[p]
  PROVE  [Log!Next]_(Log!vars)
<1>1. Versions' = Versions /\ Owners' = Owners
  BY LogStays
<1>2. \A n \in Versions : Owner(n)' = Owner(n)
  BY <1>1 DEF Owners
<1>3. \A n \in Versions : n # ver[u] => (n \in Whole' <=> n \in Whole)
  <2>1. \A n \in Versions : Path(n) = n /\ n \in DOMAIN file
    BY OwnerIs DEF IInv, OwnersKnown, FileInv, Committed, Path
  <2> QED
    BY <1>1, <1>2, <2>1 DEF Whole, Path
<1>4. Whole \subseteq Versions /\ Whole' \subseteq Versions
  BY <1>1 DEF Whole
<1>5. CASE ver[u] \notin Versions
  <2>1. Whole' = Whole
    BY <1>3, <1>4, <1>5
  <2> QED
    BY <1>1, <2>1 DEF Log!vars, Owners, Whole
<1>6. CASE ver[u] \in Versions
  <2>1. Whole' \in {Whole \cup {ver[u]}, Whole \ {ver[u]}}
    BY <1>3, <1>4
  <2>2. {Owners[ver[u]], u} \in met
    BY <1>6, WriterHasMet DEF Owners
  <2>3. Log!Disturb(ver[u])
    BY <1>1, <2>1, <2>2 DEF Log!Disturb, Owners, Whole
  <2>4. ver[u] \in DOMAIN Owners
    BY <1>6 DEF Owners
  <2> QED
    BY <2>3, <2>4 DEF Log!Next, Owners
<1>7. QED
  BY <1>5, <1>6

\* A commit is an acceptance: the version is the next one, and its bundle is whole
\* unless another upload was under way at the same time.
LEMMA InsertAccepts ==
  ASSUME IInv, VersionsAreSequence', CountInv, NEW u \in Upload, Insert(u)
  PROVE  Log!Accept(u)
<1>1. PICK n \in Nat : Versions = 1..n /\ ver[u] = n + 1 /\ Versions' = 1..(n + 1)
  BY CommitAppends
<1>2. /\ Committed' = Committed \cup {u} /\ InFlight' = InFlight \ {u}
      /\ u \in InFlight /\ u \notin Committed /\ UNCHANGED <<ver, file, met>>
  BY DEF Insert, Committed, InFlight, IInv, TypeOK
<1>3. OwnersKnown /\ OwnersKnown'
  BY OwnerIs, PTL DEF IInv
<1>4. ASSUME NEW k \in 1..n PROVE Owner(k)' = Owner(k)
  <2>1. Owner(k) \in Committed' /\ ver'[Owner(k)] = k
    BY <1>1, <1>2, <1>3 DEF OwnersKnown
  <2> QED
    BY <1>3, <2>1 DEF OwnersKnown
<1>5. Owner(n + 1)' = u
  BY <1>1, <1>2, <1>3 DEF OwnersKnown
<1>6. Owners' = Append(Owners, u)
  <2>1. Owners \in Seq(Upload) /\ Len(Owners) = n
    BY <1>1, <1>3 DEF Owners, OwnersKnown, Committed
  <2>2. Owners' = [k \in 1..(n + 1) |-> IF k = n + 1 THEN u ELSE Owners[k]]
    BY <1>1, <1>4, <1>5 DEF Owners
  <2>3. Owners' \in Seq(Upload) /\ Len(Owners') = n + 1
    BY <2>1, <2>2
  <2>4. /\ Append(Owners, u) \in Seq(Upload) /\ Len(Append(Owners, u)) = n + 1
        /\ \A k \in 1..n : Append(Owners, u)[k] = Owners[k]
        /\ Append(Owners, u)[n + 1] = u
    BY <2>1, AppendProperties
  <2>5. \A k \in 1..(n + 1) : Owners'[k] = Append(Owners, u)[k]
    BY <2>2, <2>4
  <2> HIDE DEF Owners
  <2> QED
    BY <2>3, <2>4, <2>5, SeqEqual
<1>7. Len(Owners) = n
  BY <1>1 DEF Owners
<1>8. Whole' = IF file[Path(n + 1)] = u THEN Whole \cup {n + 1} ELSE Whole
  <2>1. 1..(n + 1) = (1..n) \cup {n + 1}
    BY <1>1
  <2> QED
    BY <1>1, <1>2, <1>4, <1>5, <2>1 DEF Whole
<1>9. file[Path(n + 1)] = u \/ ~Log!Alone(u)
  BY <1>1, <1>2 DEF Insert, IInv, FileInv, Raced, Log!Alone
<1>10. QED
  BY <1>2, <1>6, <1>7, <1>8, <1>9 DEF Log!Accept, Owners, Whole

\* Steps that leave log and bundles as they are.
LEMMA NoWrite ==
  ASSUME IInv, VersionsAreSequence', Committed' = Committed, UNCHANGED file,
         \A u \in Committed : ver'[u] = ver[u]
  PROVE  Versions' = Versions /\ Owners' = Owners /\ Whole' = Whole
<1>1. Versions' = Versions /\ Owners' = Owners
  BY LogStays
<1>2. \A n \in Versions : Owner(n)' = Owner(n)
  BY <1>1 DEF Owners
<1>3. QED
  BY <1>1, <1>2 DEF Whole, Path

\* Every step of an upload is a step of VersionLog or none.
LEMMA LogStep ==
  IInv /\ VersionsAreSequence' /\ CountInv /\ [Next]_vars => [Log!Next]_(Log!vars)
<1> SUFFICES ASSUME IInv, VersionsAreSequence', CountInv, [Next]_vars
             PROVE  [Log!Next]_(Log!vars)
  OBVIOUS
<1>1. ASSUME NEW u \in Upload, Reject(u) PROVE UNCHANGED Log!vars
  <2>1. /\ Committed' = Committed /\ InFlight' = InFlight
        /\ UNCHANGED <<file, met>> /\ \A x \in Committed : ver'[x] = ver[x]
    BY <1>1 DEF Reject, Committed, InFlight, IInv, TypeOK
  <2> QED
    BY <2>1, NoWrite DEF Log!vars, Owners, Whole
<1>2. ASSUME NEW u \in Upload, Number(u) PROVE Log!Begin(u)
  <2>1. /\ Committed' = Committed /\ InFlight' = InFlight \cup {u} /\ u \notin InFlight
        /\ UNCHANGED file /\ met' = met \cup {{u, x} : x \in InFlight}
        /\ \A x \in Committed : ver'[x] = ver[x]
    BY <1>2 DEF Number, Committed, InFlight, IInv, TypeOK
  <2> QED
    BY <2>1, NoWrite DEF Log!Begin, Owners, Whole
<1>3. ASSUME NEW u \in Upload, BeginWrite(u) PROVE [Log!Next]_(Log!vars)
  <2>1. /\ u \in InFlight /\ UNCHANGED <<ver, met>> /\ Committed' = Committed
        /\ InFlight' = InFlight
    BY <1>3 DEF BeginWrite, Committed, InFlight, IInv, TypeOK
  <2>2. /\ DOMAIN file \subseteq DOMAIN file'
        /\ \A p \in DOMAIN file : p # Path(ver[u]) => file'[p] = file[p]
    BY <1>3 DEF BeginWrite
  <2> QED
    BY <2>1, <2>2, WriteDisturbs
<1>4. ASSUME NEW u \in Upload, EndWrite(u) PROVE [Log!Next]_(Log!vars)
  <2>1. /\ u \in InFlight /\ UNCHANGED <<ver, met>> /\ Committed' = Committed
        /\ InFlight' = InFlight
    BY <1>4 DEF EndWrite, Committed, InFlight, IInv, TypeOK
  <2>2. /\ DOMAIN file \subseteq DOMAIN file'
        /\ \A p \in DOMAIN file : p # Path(ver[u]) => file'[p] = file[p]
    BY <1>4 DEF EndWrite
  <2> QED
    BY <2>1, <2>2, WriteDisturbs
<1>5. ASSUME NEW u \in Upload, Insert(u) PROVE Log!Accept(u)
  BY <1>5, InsertAccepts
<1>6. ASSUME NEW u \in Upload, Abandon(u) PROVE Log!Withdraw(u)
  <2>1. /\ Committed' = Committed /\ InFlight' = InFlight \ {u} /\ u \in InFlight
        /\ UNCHANGED <<file, met>> /\ \A x \in Committed : ver'[x] = ver[x]
    BY <1>6 DEF Abandon, Committed, InFlight, IInv, TypeOK
  <2> QED
    BY <2>1, NoWrite DEF Log!Withdraw, Owners, Whole
<1>7. CASE UNCHANGED vars
  <2>1. /\ Committed' = Committed /\ InFlight' = InFlight
        /\ UNCHANGED <<file, met>> /\ \A x \in Committed : ver'[x] = ver[x]
    BY <1>7 DEF vars, Committed, InFlight
  <2> QED
    BY <2>1, NoWrite DEF Log!vars, Owners, Whole
<1>8. QED
  BY <1>1, <1>2, <1>3, <1>4, <1>5, <1>6, <1>7 DEF Next, Log!Next

\* Versions are only ever appended, and a bundle changes only by an upload that was
\* under way together with its own (handler_tf.go:114-139).
THEOREM Refinement == Spec => AppendOnly
<1>1. Init => Log!Init /\ CountInv
  <2>1. ASSUME Init PROVE Committed = {} /\ InFlight = {}
    BY <2>1 DEF Init, Committed, InFlight
  <2>2. ASSUME Init PROVE Versions = {} /\ Owners = <<>> /\ Whole = {} /\ met = {}
    BY <2>1, <2>2 DEF Init, Versions, Owners, Whole
  <2>3. {} = 1..0 /\ 0 \in Nat
    OBVIOUS
  <2> QED
    BY <2>1, <2>2, <2>3 DEF Log!Init, CountInv, Owners, Whole
<1>2. IInv /\ VersionsAreSequence' /\ CountInv /\ [Next]_vars => CountInv'
  BY NextCount
<1>3. IInv => VersionsAreSequence
  BY DEF IInv
<1>4. Spec => []CountInv
  BY <1>1, <1>2, <1>3, Invariance, PTL DEF Spec
<1>5. QED
  BY <1>1, <1>3, <1>4, LogStep, Invariance, PTL DEF Spec, AppendOnly, Log!Spec

=============================================================================
