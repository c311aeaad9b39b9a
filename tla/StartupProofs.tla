---------------------------- MODULE StartupProofs ----------------------------
(***************************************************************************)
(* Proofs about Startup, for any number of processes, statements, files    *)
(* and faults.                                                             *)
(***************************************************************************)
EXTENDS Startup, TLAPS

-----------------------------------------------------------------------------
(* Types.                                                                  *)

\* A process that goes on to a right place keeps the processes' types.
LEMMA GoTypes ==
    ASSUME ProcessesOK, NEW p \in Api, NEW s, NEW n, Go(p, s, n), RightPlace(s, n)
    PROVE  ProcessesOK'
<1>1. pc' \in [Api -> Places] /\ at' \in [Api -> Nat]
  BY DEF ProcessesOK, Go, RightPlace
<1>2. ASSUME NEW q \in Api PROVE RightPlace(pc'[q], at'[q])
  <2>1. CASE q = p
    <3>1. pc'[q] = s /\ at'[q] = n
      BY <2>1 DEF ProcessesOK, Go
    <3>2. QED
      BY <3>1
  <2>2. CASE q # p
    <3>1. pc'[q] = pc[q] /\ at'[q] = at[q]
      BY <2>2 DEF ProcessesOK, Go
    <3>2. QED
      BY <3>1 DEF ProcessesOK
  <2>3. QED
    BY <2>1, <2>2
<1>3. UNCHANGED <<devBootstrap, faults, raced>>
  BY DEF Go
<1>4. \A q \in Api : RightPlace(pc[q], at[q])'
  BY <1>2 DEF RightPlace
<1>5. QED
  BY <1>1, <1>3, <1>4 DEF ProcessesOK

\* The initial state satisfies the invariant.
LEMMA InitIInv == Init => IInv
<1> SUFFICES ASSUME Init PROVE IInv
  OBVIOUS
<1>1. TypeOK
  <2>1. \A p \in Api : RightPlace(pc[p], at[p])
    BY DEF Init, RightPlace, Places
  <2>2. ProcessesOK
    BY <2>1, SizeAssumption DEF Init, ProcessesOK, Places
  <2>3. DatabaseOK
    <3>1. table \in BOOLEAN
      BY DEF Init
    <3>2. objects \subseteq 1..Statements /\ version \in 0..Files /\ devs \in Nat
      BY SizeAssumption DEF Init
    <3>3. QED
      BY <3>1, <3>2 DEF DatabaseOK
  <2>4. QED
    BY <2>2, <2>3 DEF TypeOK
<1>2. OwnerInv
  BY SizeAssumption DEF Init, OwnerInv, Owns, RacesNeverStrand, Stranded
<1>3. ProgressInv
  BY DEF Init, ProgressInv
<1>4. DevInv
  BY DEF Init, DevInv, OneDevUser
<1>5. AloneInv
  BY DEF Init, AloneInv, Starting
<1>6. QED
  BY <1>1, <1>2, <1>3, <1>4, <1>5 DEF IInv

\* Every step keeps every variable in its type.
LEMMA NextTypeOK == TypeOK /\ [Next]_vars => TypeOK'
<1> SUFFICES ASSUME ProcessesOK, DatabaseOK, [Next]_vars PROVE TypeOK'
  BY DEF TypeOK
<1>0. ASSUME UNCHANGED database PROVE DatabaseOK'
  BY <1>0 DEF database, DatabaseOK
<1>1. ASSUME NEW p \in Api, Start(p) PROVE TypeOK'
  <2>1. ASSUME NEW q \in Api PROVE RightPlace(pc[q], at[q])'
    BY <1>1 DEF Start, ProcessesOK, RightPlace, Places
  <2>2. raced' \in [Api -> BOOLEAN]
    BY <1>1 DEF Start, ProcessesOK
  <2>3. pc' \in [Api -> Places]
    BY <1>1 DEF Start, ProcessesOK, Places
  <2>4. ProcessesOK'
    BY <1>1, <2>1, <2>2, <2>3 DEF Start, ProcessesOK
  <2>5. QED
    BY <1>0, <1>1, <2>4 DEF Start, TypeOK
<1>2. ASSUME NEW p \in Api, FindTable(p) PROVE TypeOK'
  <2>1. RightPlace(IF table THEN "version" ELSE "create", 0)
    BY DEF RightPlace, Places
  <2>2. QED
    BY <1>0, <1>2, <2>1, GoTypes DEF FindTable, TypeOK
<1>3. ASSUME NEW p \in Api, CreateTable(p) PROVE TypeOK'
  <2>1. RightPlace("version", 0) /\ RightPlace("down", 0)
    BY DEF RightPlace, Places
  <2>2. ProcessesOK'
    BY <1>3, <2>1, GoTypes DEF CreateTable, Fatal
  <2>3. DatabaseOK'
    <3>1. CASE table' = TRUE /\ UNCHANGED <<objects, version, devs>>
      BY <3>1 DEF DatabaseOK
    <3>2. QED
      BY <1>0, <1>3, <3>1 DEF CreateTable, Fatal
  <2>4. QED
    BY <2>2, <2>3 DEF TypeOK
<1>4. ASSUME NEW p \in Api, NextFile(p) PROVE TypeOK'
  <2>1. PICK s, n : Go(p, s, n) /\ RightPlace(s, n)
    BY <1>4, SizeAssumption DEF NextFile, RightPlace, Places, DatabaseOK
  <2>2. QED
    BY <1>0, <1>4, <2>1, GoTypes DEF NextFile, TypeOK
<1>5. ASSUME NEW p \in Api, Statement(p) PROVE TypeOK'
  <2>1. at[p] \in 1..Statements
    BY <1>5 DEF Statement, ProcessesOK, RightPlace
  <2>2. RightPlace(IF at[p] = Statements THEN "record" ELSE "first", at[p] + 1)
        /\ RightPlace("down", 0)
    BY <2>1, SizeAssumption DEF RightPlace, Places
  <2>3. ProcessesOK'
    BY <1>5, <2>2, GoTypes DEF Statement, Fatal
  <2>4. DatabaseOK'
    <3>1. CASE objects' = objects \cup {at[p]} /\ UNCHANGED <<table, version, devs>>
      BY <2>1, <3>1 DEF DatabaseOK
    <3>2. QED
      BY <1>0, <1>5, <3>1 DEF Statement, Fatal
  <2>5. QED
    BY <2>3, <2>4 DEF TypeOK
<1>6. ASSUME NEW p \in Api, RecordFirst(p) PROVE TypeOK'
  <2>1. RightPlace("version", 0)
    BY DEF RightPlace, Places
  <2>2. DatabaseOK'
    BY <1>6, SizeAssumption DEF RecordFirst, DatabaseOK
  <2>3. QED
    BY <1>6, <2>1, <2>2, GoTypes DEF RecordFirst, TypeOK
<1>7. ASSUME NEW p \in Api, RunFile(p) PROVE TypeOK'
  <2>1. RightPlace("version", 0) /\ RightPlace("down", 0)
    BY DEF RightPlace, Places
  <2>2. at[p] \in 2..Files
    BY <1>7 DEF RunFile, ProcessesOK, RightPlace
  <2>3. ProcessesOK'
    BY <1>7, <2>1, GoTypes DEF RunFile, Fatal
  <2>4. DatabaseOK'
    <3>1. CASE version' \in {at[p], version} /\ UNCHANGED <<table, objects, devs>>
      BY <2>2, <3>1, SizeAssumption DEF DatabaseOK
    <3>2. QED
      BY <1>0, <1>7, <3>1 DEF RunFile, Fatal
  <2>5. QED
    BY <2>3, <2>4 DEF TypeOK
<1>8. ASSUME NEW p \in Api, CountUsers(p) PROVE TypeOK'
  <2>1. RightPlace(IF devs > 0 THEN "connect" ELSE "insert", 0)
    BY DEF RightPlace, Places
  <2>2. QED
    BY <1>0, <1>8, <2>1, GoTypes DEF CountUsers, TypeOK
<1>9. ASSUME NEW p \in Api, InsertDev(p) PROVE TypeOK'
  <2>1. RightPlace("inserted", 0) /\ RightPlace("down", 0)
    BY DEF RightPlace, Places
  <2>2. QED
    BY <1>0, <1>9, <2>1, GoTypes DEF InsertDev, Fatal, TypeOK
<1>10. ASSUME NEW p \in Api, CommitDev(p) PROVE TypeOK'
  <2>1. RightPlace("connect", 0)
    BY DEF RightPlace, Places
  <2>2. DatabaseOK'
    BY <1>10 DEF CommitDev, DatabaseOK
  <2>3. QED
    BY <1>10, <2>1, <2>2, GoTypes DEF CommitDev, TypeOK
<1>11. ASSUME NEW p \in Api, Serve(p) PROVE TypeOK'
  <2>1. RightPlace("serving", 0)
    BY DEF RightPlace, Places
  <2>2. QED
    BY <1>0, <1>11, <2>1, GoTypes DEF Serve, TypeOK
<1>12. ASSUME NEW p \in Api, Fault(p) PROVE TypeOK'
  <2>1. ASSUME NEW q \in Api PROVE RightPlace(pc[q], at[q])'
    BY <1>12 DEF Fault, ProcessesOK, RightPlace, Places
  <2>2. ProcessesOK'
    BY <1>12, <2>1, SizeAssumption DEF Fault, ProcessesOK, Places
  <2>3. QED
    BY <1>0, <1>12, <2>2 DEF Fault, TypeOK
<1>13. CASE UNCHANGED vars
  <2>1. ProcessesOK'
    BY <1>13 DEF vars, ProcessesOK, RightPlace
  <2>2. QED
    BY <1>0, <1>13, <2>1 DEF vars, database, TypeOK
<1>14. QED
  BY <1>1, <1>2, <1>3, <1>4, <1>5, <1>6, <1>7, <1>8, <1>9, <1>10, <1>11, <1>12, <1>13
     DEF Next, Step

-----------------------------------------------------------------------------
(* File 1.                                                                 *)

\* What Go does to the processes.
LEMMA GoEffect ==
    ASSUME TypeOK, NEW p \in Api, NEW s, NEW n, Go(p, s, n)
    PROVE  /\ pc'[p] = s /\ at'[p] = n
           /\ \A q \in Api : q # p => pc'[q] = pc[q] /\ at'[q] = at[q]
           /\ UNCHANGED <<devBootstrap, faults, raced>>
  BY DEF TypeOK, ProcessesOK, Go

\* A step that leaves the owner of file 1 and its objects alone.
SameOwner ==
    /\ UNCHANGED <<objects, version, faults>>
    /\ \A q \in Api : /\ Owns(q)' <=> Owns(q)
                      /\ Owns(q) => at'[q] = at[q]

LEMMA OwnerKept == OwnerInv /\ SameOwner => OwnerInv'
<1> SUFFICES ASSUME OwnerInv, SameOwner PROVE OwnerInv'
  OBVIOUS
<1>1. Stranded' <=> Stranded
  BY DEF SameOwner, Stranded
<1>2. RacesNeverStrand'
  BY <1>1 DEF OwnerInv, SameOwner, RacesNeverStrand
<1>3. QED
  BY <1>2 DEF OwnerInv, SameOwner

\* Who does not own file 1, and does not get it, leaves it alone.
LEMMA GoSameOwner ==
    ASSUME TypeOK, NEW p \in Api, ~Owns(p), NEW s, NEW n, Go(p, s, n),
           s # "record", s = "first" => n = 1, UNCHANGED <<objects, version>>
    PROVE  SameOwner
<1>1. ~Owns(p)'
  BY GoEffect DEF Owns
<1>2. \A q \in Api : q # p => (Owns(q)' <=> Owns(q)) /\ at'[q] = at[q]
  BY GoEffect DEF Owns
<1>3. QED
  BY <1>1, <1>2, GoEffect DEF SameOwner

\* The process that creates the first object owns the file until it records it
\* or fails; a process that finds an object there never owned any.
LEMMA NextOwnerInv == IInv /\ [Next]_vars => OwnerInv'
<1> SUFFICES ASSUME TypeOK, OwnerInv, ProgressInv, [Next]_vars PROVE OwnerInv'
  BY DEF IInv
<1>1. ASSUME NEW p \in Api, Start(p) PROVE OwnerInv'
  <2>1. SameOwner
    BY <1>1 DEF Start, SameOwner, Owns, TypeOK, ProcessesOK, database
  <2>2. QED
    BY <2>1, OwnerKept
<1>2. ASSUME NEW p \in Api, FindTable(p) PROVE OwnerInv'
  BY <1>2, GoSameOwner, OwnerKept DEF FindTable, Owns, database
<1>3. ASSUME NEW p \in Api, CreateTable(p) PROVE OwnerInv'
  <2>1. PICK s \in {"version", "down"} : Go(p, s, 0) /\ UNCHANGED <<objects, version>>
    BY <1>3 DEF CreateTable, Fatal, database
  <2>2. QED
    BY <1>3, <2>1, GoSameOwner, OwnerKept DEF CreateTable, Owns
<1>4. ASSUME NEW p \in Api, NextFile(p) PROVE OwnerInv'
  <2>1. PICK s, n : Go(p, s, n) /\ s # "record" /\ (s = "first" => n = 1)
    BY <1>4 DEF NextFile
  <2>2. QED
    BY <1>4, <2>1, GoSameOwner, OwnerKept DEF NextFile, Owns, database
<1>5. ASSUME NEW p \in Api, Statement(p) PROVE OwnerInv'
  <2>0. pc[p] = "first" /\ at[p] \in 1..Statements
    BY <1>5 DEF Statement, TypeOK, ProcessesOK, RightPlace
  <2>1. CASE at[p] \in objects
    <3>1. ~Owns(p)
      BY <2>0, <2>1 DEF OwnerInv, Owns
    <3>2. Go(p, "down", 0) /\ UNCHANGED <<objects, version>>
      BY <1>5, <2>1 DEF Statement, Fatal, database
    <3>3. QED
      BY <3>1, <3>2, GoSameOwner, OwnerKept
  <2>2. CASE at[p] \notin objects
    <3> DEFINE s == IF at[p] = Statements THEN "record" ELSE "first"
    <3>1. /\ Go(p, s, at[p] + 1)
          /\ objects' = objects \cup {at[p]}
          /\ version' = version
      BY <1>5, <2>2 DEF Statement
    <3>2. \A q \in Api : Owns(q) => q = p
      <4>1. CASE at[p] > 1
        BY <2>0, <4>1 DEF OwnerInv, Owns
      <4>2. CASE at[p] = 1
        <5>1. ASSUME NEW q \in Api, Owns(q) PROVE FALSE
          <6>1. at[q] \in Nat /\ at[q] > 1
            BY <5>1, SizeAssumption DEF Owns, TypeOK, ProcessesOK, RightPlace
          <6>2. objects = 1..(at[q] - 1)
            BY <5>1 DEF OwnerInv
          <6>3. QED
            BY <2>2, <4>2, <6>1, <6>2
        <5>2. QED
          BY <5>1
      <4>3. QED
        BY <2>0, <4>1, <4>2
    <3>3. objects = 1..(at[p] - 1) /\ version = 0
      <4>1. CASE at[p] > 1
        BY <2>0, <4>1 DEF OwnerInv, Owns
      <4>2. CASE at[p] = 1
        <5>1. objects = {}
          BY <2>2, <4>2 DEF OwnerInv
        <5>2. version = 0
          BY <2>0, <5>1 DEF OwnerInv, TypeOK, DatabaseOK
        <5>3. QED
          BY <5>1, <5>2, <4>2
      <4>3. QED
        BY <2>0, <4>1, <4>2
    <3>4. objects' = 1..at[p] /\ version' = 0
      BY <2>0, <3>1, <3>3
    <3>5. pc'[p] = s /\ at'[p] = at[p] + 1
      BY <3>1, GoEffect
    <3>6. Owns(p)'
      BY <2>0, <3>5 DEF Owns
    <3>7. \A q \in Api : Owns(q)' => q = p
      BY <3>1, <3>2, GoEffect DEF Owns
    <3>8. objects' = 1..(at'[p] - 1) /\ 1 \in objects'
      BY <2>0, <3>4, <3>5
    <3>9. QED
      BY <3>4, <3>6, <3>7, <3>8 DEF OwnerInv, RacesNeverStrand, Stranded
  <2>3. QED
    BY <2>1, <2>2
<1>6. ASSUME NEW p \in Api, RecordFirst(p) PROVE OwnerInv'
  <2>1. Owns(p) /\ objects = 1..Statements
    <3>1. Owns(p) /\ at[p] = Statements + 1
      BY <1>6 DEF RecordFirst, Owns, TypeOK, ProcessesOK, RightPlace
    <3>2. QED
      BY <3>1, SizeAssumption DEF OwnerInv
  <2>2. \A q \in Api : ~Owns(q)'
    BY <1>6, <2>1, GoEffect DEF RecordFirst, Owns, OwnerInv
  <2>3. version' = 1 /\ objects' = 1..Statements /\ 1 \in objects'
    BY <1>6, <2>1, SizeAssumption DEF RecordFirst
  <2>4. QED
    BY <2>2, <2>3 DEF OwnerInv, RacesNeverStrand, Stranded
<1>7. ASSUME NEW p \in Api, RunFile(p) PROVE OwnerInv'
  <2>1. ~Owns(p)
    BY <1>7 DEF RunFile, Owns
  <2>2. CASE UNCHANGED version
    <3>1. PICK s \in {"version", "down"} : Go(p, s, 0) /\ UNCHANGED <<objects, version>>
      BY <1>7, <2>2 DEF RunFile, Fatal, database
    <3>2. QED
      BY <2>1, <3>1, GoSameOwner, OwnerKept
  <2>3. CASE version' = at[p] /\ version < at[p]
    <3>1. Go(p, "version", 0) /\ objects' = objects
      BY <1>7, <2>3 DEF RunFile, Fatal, TypeOK, DatabaseOK, ProcessesOK
    <3>2. at[p] \in 2..Files
      BY <1>7 DEF RunFile, TypeOK, ProcessesOK, RightPlace
    <3>3. version > 0 /\ version' > 0
      BY <1>7, <2>3, <3>2 DEF RunFile, ProgressInv, TypeOK, DatabaseOK
    <3>4. \A q \in Api : ~Owns(q)
      BY <3>3 DEF OwnerInv
    <3>5. \A q \in Api : ~Owns(q)'
      BY <3>1, <3>4, GoEffect DEF Owns
    <3>6. QED
      BY <3>1, <3>3, <3>5 DEF OwnerInv, RacesNeverStrand, Stranded
  <2>4. QED
    BY <1>7, <2>2, <2>3 DEF RunFile, Fatal, database
<1>8. ASSUME NEW p \in Api, CountUsers(p) PROVE OwnerInv'
  BY <1>8, GoSameOwner, OwnerKept DEF CountUsers, Owns, database
<1>9. ASSUME NEW p \in Api, InsertDev(p) PROVE OwnerInv'
  <2>1. PICK s \in {"inserted", "down"} : Go(p, s, 0) /\ UNCHANGED <<objects, version>>
    BY <1>9 DEF InsertDev, Fatal, database
  <2>2. QED
    BY <1>9, <2>1, GoSameOwner, OwnerKept DEF InsertDev, Owns
<1>10. ASSUME NEW p \in Api, CommitDev(p) PROVE OwnerInv'
  BY <1>10, GoSameOwner, OwnerKept DEF CommitDev, Owns
<1>11. ASSUME NEW p \in Api, Serve(p) PROVE OwnerInv'
  BY <1>11, GoSameOwner, OwnerKept DEF Serve, Owns, database
<1>12. ASSUME NEW p \in Api, Fault(p) PROVE OwnerInv'
  <2>1. UNCHANGED <<objects, version>> /\ faults' > 0
    BY <1>12 DEF Fault, database, TypeOK, ProcessesOK
  <2>2. \A q \in Api : Owns(q)' => Owns(q) /\ at'[q] = at[q]
    BY <1>12 DEF Fault, Owns, TypeOK, ProcessesOK
  <2>3. QED
    BY <2>1, <2>2 DEF OwnerInv, RacesNeverStrand
<1>13. CASE UNCHANGED vars
  BY <1>13, OwnerKept DEF vars, SameOwner, Owns
<1>14. QED
  BY <1>1, <1>2, <1>3, <1>4, <1>5, <1>6, <1>7, <1>8, <1>9, <1>10, <1>11, <1>12, <1>13
     DEF Next, Step

-----------------------------------------------------------------------------
(* Progress.                                                               *)

\* Versions and committed bootstraps only grow.
LEMMA Monotone ==
    ASSUME TypeOK, OwnerInv, [Next]_vars
    PROVE  version <= version' /\ devs <= devs'
<1>1. version \in 0..Files /\ devs \in Nat
  BY DEF TypeOK, DatabaseOK
<1>2. ASSUME NEW p \in Api, RecordFirst(p) PROVE version <= version' /\ devs <= devs'
  <2>1. Owns(p)
    BY <1>2 DEF RecordFirst, Owns
  <2>2. version = 0
    BY <2>1 DEF OwnerInv
  <2>3. QED
    BY <1>1, <1>2, <2>2 DEF RecordFirst
<1>3. ASSUME NEW p \in Api, RunFile(p) PROVE version <= version' /\ devs <= devs'
  <2>1. at[p] \in Nat
    BY DEF TypeOK, ProcessesOK
  <2>2. QED
    BY <1>1, <1>3, <2>1 DEF RunFile, Fatal, database
<1>4. ASSUME NEW p \in Api,
             \/ Start(p) \/ FindTable(p) \/ CreateTable(p) \/ NextFile(p) \/ Statement(p)
             \/ CountUsers(p) \/ InsertDev(p) \/ Serve(p) \/ Fault(p)
      PROVE  version <= version' /\ devs <= devs'
  <2>1. UNCHANGED <<version, devs>>
    BY <1>4 DEF Start, FindTable, CreateTable, NextFile, Statement, CountUsers, InsertDev,
                Serve, Fault, Fatal, database
  <2>2. QED
    BY <1>1, <2>1
<1>5. ASSUME NEW p \in Api, CommitDev(p) PROVE version <= version' /\ devs <= devs'
  BY <1>1, <1>5 DEF CommitDev
<1>6. ASSUME UNCHANGED vars PROVE version <= version' /\ devs <= devs'
  BY <1>1, <1>6 DEF vars
<1>7. QED
  BY <1>2, <1>3, <1>4, <1>5, <1>6 DEF Next, Step

\* What ProgressInv says of one process.
Progressed(p) ==
    /\ pc[p] = "file" => at[p] <= version + 1
    /\ pc[p] \in {"count", "insert", "inserted", "connect", "serving"}
          => version = Files
    /\ pc[p] \in {"connect", "serving"} /\ devBootstrap[p] => devs > 0

\* A process that stays where it is keeps what it has found.
LEMMA ProgressKept ==
    ASSUME IInv, [Next]_vars, TypeOK', NEW q \in Api, UNCHANGED <<pc[q], at[q]>>,
           UNCHANGED devBootstrap
    PROVE  Progressed(q)'
<1>1. version <= version' /\ devs <= devs'
  BY Monotone DEF IInv
<1>2. /\ version \in 0..Files /\ version' \in 0..Files
      /\ devs \in Nat /\ devs' \in Nat /\ at[q] \in Nat
  BY DEF IInv, TypeOK, DatabaseOK, ProcessesOK
<1>3. Progressed(q)
  BY DEF IInv, ProgressInv, Progressed
<1>4. pc'[q] = "file" => at'[q] <= version' + 1
  BY <1>1, <1>2, <1>3 DEF Progressed
<1>5. pc'[q] \in {"count", "insert", "inserted", "connect", "serving"} => version' = Files
  BY <1>1, <1>2, <1>3, SizeAssumption DEF Progressed
<1>6. pc'[q] \in {"connect", "serving"} /\ devBootstrap'[q] => devs' > 0
  <2>1. devs > 0 => devs' > 0
    BY <1>1, <1>2
  <2>2. QED
    BY <1>3, <2>1 DEF Progressed
<1>7. QED
  BY <1>4, <1>5, <1>6 DEF Progressed

\* A process is at a step of main only after the steps before it.
LEMMA NextProgressInv == IInv /\ [Next]_vars => ProgressInv'
<1> SUFFICES ASSUME IInv, [Next]_vars, NEW q \in Api PROVE Progressed(q)'
  BY DEF ProgressInv, Progressed
<1>0. TypeOK /\ TypeOK' /\ OwnerInv /\ Progressed(q)
  BY NextTypeOK DEF IInv, ProgressInv, Progressed
<1>a. ASSUME NEW p \in Api, NEW s, NEW n, Go(p, s, n), q # p PROVE Progressed(q)'
  BY <1>0, <1>a, GoEffect, ProgressKept
<1>b. ASSUME Fatal(q) PROVE Progressed(q)'
  BY <1>0, <1>b, GoEffect DEF Fatal, Progressed
<1>1. ASSUME Start(q) PROVE Progressed(q)'
  BY <1>0, <1>1 DEF Start, Progressed, TypeOK, ProcessesOK
<1>2. ASSUME FindTable(q) PROVE Progressed(q)'
  BY <1>0, <1>2, GoEffect DEF FindTable, Progressed
<1>3. ASSUME CreateTable(q) PROVE Progressed(q)'
  BY <1>0, <1>b, <1>3, GoEffect DEF CreateTable, Progressed
<1>4. ASSUME NextFile(q) PROVE Progressed(q)'
  <2>1. UNCHANGED <<version, devs, devBootstrap>> /\ version \in 0..Files
    BY <1>0, <1>4 DEF NextFile, Go, database, TypeOK, DatabaseOK
  <2>2. CASE Go(q, "first", 1)
    BY <1>0, <2>2, GoEffect DEF Progressed
  <2>3. CASE Go(q, "file", version + 1)
    BY <1>0, <2>1, <2>3, GoEffect DEF Progressed
  <2>4. CASE version = Files /\ Go(q, IF devBootstrap[q] THEN "count" ELSE "connect", 0)
    BY <1>0, <2>1, <2>4, GoEffect DEF Progressed
  <2>5. QED
    BY <1>4, <2>2, <2>3, <2>4 DEF NextFile
<1>5. ASSUME Statement(q) PROVE Progressed(q)'
  <2>1. CASE Go(q, IF at[q] = Statements THEN "record" ELSE "first", at[q] + 1)
    BY <1>0, <2>1, GoEffect DEF Progressed
  <2>2. QED
    BY <1>b, <1>5, <2>1 DEF Statement
<1>6. ASSUME RecordFirst(q) PROVE Progressed(q)'
  BY <1>0, <1>6, GoEffect DEF RecordFirst, Progressed
<1>7. ASSUME RunFile(q) PROVE Progressed(q)'
  <2>1. CASE Go(q, "version", 0)
    BY <1>0, <2>1, GoEffect DEF Progressed
  <2>2. QED
    BY <1>b, <1>7, <2>1 DEF RunFile
<1>8. ASSUME CountUsers(q) PROVE Progressed(q)'
  <2>1. version = Files /\ UNCHANGED <<version, devs>>
    BY <1>0, <1>8 DEF CountUsers, Progressed, database
  <2>2. QED
    BY <1>0, <1>8, <2>1, GoEffect DEF CountUsers, Progressed
<1>9. ASSUME InsertDev(q) PROVE Progressed(q)'
  <2>1. CASE Go(q, "inserted", 0) /\ UNCHANGED database
    <3>1. version = Files /\ UNCHANGED version
      BY <1>0, <1>9, <2>1 DEF InsertDev, Progressed, database
    <3>2. QED
      BY <1>0, <2>1, <3>1, GoEffect DEF Progressed
  <2>2. QED
    BY <1>b, <1>9, <2>1 DEF InsertDev
<1>10. ASSUME CommitDev(q) PROVE Progressed(q)'
  <2>1. version = Files /\ version' = version /\ devs' > 0
    BY <1>0, <1>10 DEF CommitDev, Progressed, TypeOK, DatabaseOK
  <2>2. QED
    BY <1>0, <1>10, <2>1, GoEffect DEF CommitDev, Progressed
<1>11. ASSUME Serve(q) PROVE Progressed(q)'
  <2>1. UNCHANGED <<version, devs>>
    BY <1>11 DEF Serve, database
  <2>2. QED
    BY <1>0, <1>11, <2>1, GoEffect DEF Serve, Progressed
<1>12. ASSUME Fault(q) PROVE Progressed(q)'
  BY <1>0, <1>12 DEF Fault, Progressed, TypeOK, ProcessesOK
<1>13. ASSUME NEW p \in Api, Start(p) \/ Fault(p), q # p PROVE Progressed(q)'
  BY <1>0, <1>13, ProgressKept DEF Start, Fault, TypeOK, ProcessesOK
<1>14. CASE UNCHANGED vars
  BY <1>0, <1>14, ProgressKept DEF vars
<1>15. ASSUME NEW p \in Api, Step(p), q # p PROVE Progressed(q)'
  BY <1>a, <1>15 DEF Step, FindTable, CreateTable, NextFile, Statement, RecordFirst, RunFile,
                     CountUsers, InsertDev, CommitDev, Serve, Fatal
<1>16. QED
  BY <1>1, <1>2, <1>3, <1>4, <1>5, <1>6, <1>7, <1>8, <1>9, <1>10, <1>11, <1>12, <1>13,
     <1>14, <1>15 DEF Next, Step

-----------------------------------------------------------------------------
(* The dev user.                                                           *)

\* The unique oidc_sub lets one process insert the dev user, and only as long as
\* no other has committed it.
LEMMA NextDevInv == IInv /\ [Next]_vars => DevInv'
<1> SUFFICES ASSUME TypeOK, DevInv, [Next]_vars PROVE DevInv'
  BY DEF IInv
<1>1. ASSUME UNCHANGED devs, \A q \in Api : pc'[q] = "inserted" => pc[q] = "inserted"
      PROVE  DevInv'
  BY <1>1 DEF DevInv, OneDevUser
<1>2. ASSUME NEW p \in Api, NEW s, NEW n, Go(p, s, n), s # "inserted", UNCHANGED devs
      PROVE  DevInv'
  BY <1>1, <1>2, GoEffect
<1>3. ASSUME NEW p \in Api,
             \/ FindTable(p) \/ CreateTable(p) \/ NextFile(p) \/ Statement(p)
             \/ RecordFirst(p) \/ RunFile(p) \/ CountUsers(p) \/ Serve(p)
      PROVE  DevInv'
  <2>1. UNCHANGED devs
    BY <1>3 DEF FindTable, CreateTable, NextFile, Statement, RecordFirst, RunFile,
                CountUsers, Serve, Fatal, database
  <2>2. PICK s, n : Go(p, s, n) /\ s # "inserted"
    BY <1>3 DEF FindTable, CreateTable, NextFile, Statement, RecordFirst, RunFile,
                CountUsers, Serve, Fatal
  <2>3. QED
    BY <1>2, <2>1, <2>2
<1>4. ASSUME NEW p \in Api, InsertDev(p) PROVE DevInv'
  <2>1. CASE devs = 0 /\ Go(p, "inserted", 0) /\ UNCHANGED database
    <3>1. devs' = 0
      BY <2>1 DEF database
    <3>2. \A q \in Api : pc'[q] = "inserted" => q = p
      BY <1>4, <2>1, GoEffect DEF InsertDev
    <3>3. QED
      BY <3>1, <3>2 DEF DevInv, OneDevUser
  <2>2. CASE Fatal(p)
    BY <1>2, <2>2 DEF Fatal, database
  <2>3. QED
    BY <1>4, <2>1, <2>2 DEF InsertDev
<1>5. ASSUME NEW p \in Api, CommitDev(p) PROVE DevInv'
  <2>1. devs' = 1
    BY <1>5 DEF CommitDev, DevInv
  <2>2. \A q \in Api : pc'[q] # "inserted"
    BY <1>5, GoEffect DEF CommitDev, DevInv
  <2>3. QED
    BY <2>1, <2>2 DEF DevInv, OneDevUser
<1>6. ASSUME NEW p \in Api, Start(p) \/ Fault(p) PROVE DevInv'
  BY <1>1, <1>6 DEF Start, Fault, database, TypeOK, ProcessesOK
<1>7. CASE UNCHANGED vars
  BY <1>1, <1>7 DEF vars
<1>8. QED
  BY <1>3, <1>4, <1>5, <1>6, <1>7 DEF Next, Step

-----------------------------------------------------------------------------
(* Starts that overlap no other.                                           *)

\* What p has read of the database is still true.
Current(p) ==
    /\ pc[p] = "create" => ~table
    /\ pc[p] = "first" /\ at[p] = 1 => objects = {} \/ Stranded
    /\ pc[p] = "file" => version < at[p]
    /\ pc[p] = "insert" => devs = 0

Alone(p) == ~raced[p] /\ \A q \in Api : Starting(q) => q = p

\* AloneInv in these words.
LEMMA AloneForm == AloneInv <=> \A p \in Api : Starting(p) /\ ~raced[p] => Alone(p) /\ Current(p)
  BY DEF AloneInv, Alone, Current

\* A process that goes on leaves it to itself whether it is alone and up to date.
LEMMA GoAlone ==
    ASSUME TypeOK, AloneInv, NEW p \in Api, Starting(p), NEW s, NEW n, Go(p, s, n),
           Alone(p) /\ s \notin {"down", "serving"} => Current(p)'
    PROVE  AloneInv'
<1>1. \A q \in Api : q # p => (Starting(q)' <=> Starting(q))
  BY GoEffect DEF Starting
<1>2. raced' = raced /\ (Starting(p)' => s \notin {"down", "serving"})
  BY GoEffect DEF Starting
<1>3. ASSUME NEW q \in Api, Starting(q)', ~raced'[q] PROVE Alone(q)' /\ Current(q)'
  <2>1. q = p
    BY <1>1, <1>2, <1>3, AloneForm DEF Alone
  <2>2. Alone(p)
    BY <1>2, <1>3, <2>1, AloneForm
  <2>3. Alone(p)'
    BY <1>1, <1>2, <2>2 DEF Alone
  <2>4. QED
    BY <1>2, <1>3, <2>1, <2>2, <2>3
<1>4. QED
  BY <1>3 DEF AloneInv, Alone, Current

\* What a start that overlaps no other has read stays true until it has used it.
LEMMA NextAloneInv == IInv /\ [Next]_vars => AloneInv'
<1> SUFFICES ASSUME TypeOK, OwnerInv, AloneInv, [Next]_vars PROVE AloneInv'
  BY DEF IInv
<1>f. ASSUME NEW p \in Api, Starting(p), Fatal(p) PROVE AloneInv'
  BY <1>f, GoAlone DEF Fatal
<1>1. ASSUME NEW p \in Api, Start(p) PROVE AloneInv'
  <2>1. pc'[p] = "ensure" /\ \A q \in Api : q # p => pc'[q] = pc[q]
    BY <1>1 DEF Start, TypeOK, ProcessesOK
  <2>2. /\ raced'[p] <=> \E q \in Api : q # p /\ Starting(q)
        /\ \A q \in Api : q # p => (raced'[q] <=> raced[q] \/ Starting(q))
    BY <1>1 DEF Start
  <2>3. ASSUME NEW q \in Api, Starting(q)', ~raced'[q] PROVE Alone(q)' /\ Current(q)'
    <3>1. q = p
      BY <2>1, <2>2, <2>3 DEF Starting
    <3>2. Alone(q)'
      BY <2>1, <2>2, <2>3, <3>1 DEF Alone, Starting
    <3>3. Current(q)'
      BY <2>1, <3>1 DEF Current
    <3>4. QED
      BY <3>2, <3>3
  <2>4. QED
    BY <2>3 DEF AloneInv, Alone, Current
<1>2. ASSUME NEW p \in Api, FindTable(p) PROVE AloneInv'
  <2>1. PICK s : s = (IF table THEN "version" ELSE "create")
    OBVIOUS
  <2>2. Go(p, s, 0) /\ table' = table
    BY <1>2, <2>1 DEF FindTable, database
  <2>3. Current(p)'
    BY <2>1, <2>2, GoEffect DEF Current
  <2>4. QED
    BY <1>2, <2>2, <2>3, GoAlone DEF FindTable, Starting
<1>3. ASSUME NEW p \in Api, CreateTable(p) PROVE AloneInv'
  <2>1. Starting(p)
    BY <1>3 DEF CreateTable, Starting
  <2>2. CASE Go(p, "version", 0)
    <3>1. Current(p)'
      BY <2>2, GoEffect DEF Current
    <3>2. QED
      BY <2>1, <2>2, <3>1, GoAlone
  <2>3. QED
    BY <1>f, <1>3, <2>1, <2>2 DEF CreateTable
<1>4. ASSUME NEW p \in Api, NextFile(p) PROVE AloneInv'
  <2>1. Starting(p) /\ ~Owns(p)
    BY <1>4 DEF NextFile, Starting, Owns
  <2>2. UNCHANGED <<objects, version, devs, table>> /\ version \in 0..Files
    BY <1>4 DEF NextFile, database, TypeOK, DatabaseOK
  <2>3. CASE version = 0 /\ Go(p, "first", 1)
    <3>1. ASSUME Alone(p), objects # {} PROVE Stranded'
      <4>1. \A q \in Api : ~Owns(q)
        BY <2>1, <3>1 DEF Alone, Owns, Starting
      <4>2. \A q \in Api : ~Owns(q)'
        BY <2>3, <4>1, GoEffect DEF Owns
      <4>3. QED
        BY <2>2, <2>3, <3>1, <4>2 DEF Stranded
    <3>2. Alone(p) => Current(p)'
      BY <2>2, <2>3, <3>1, GoEffect DEF Current
    <3>3. QED
      BY <2>1, <2>3, <3>2, GoAlone
  <2>4. CASE Go(p, "file", version + 1)
    <3>1. Current(p)'
      BY <2>2, <2>4, GoEffect DEF Current
    <3>2. QED
      BY <2>1, <2>4, <3>1, GoAlone
  <2>5. CASE Go(p, IF devBootstrap[p] THEN "count" ELSE "connect", 0)
    <3>1. Current(p)'
      BY <2>5, GoEffect DEF Current
    <3>2. QED
      BY <2>1, <2>5, <3>1, GoAlone
  <2>6. QED
    BY <1>4, <2>3, <2>4, <2>5 DEF NextFile
<1>5. ASSUME NEW p \in Api, Statement(p) PROVE AloneInv'
  <2>1. Starting(p) /\ at[p] \in 1..Statements
    BY <1>5 DEF Statement, Starting, TypeOK, ProcessesOK, RightPlace
  <2>2. CASE Go(p, IF at[p] = Statements THEN "record" ELSE "first", at[p] + 1)
    <3>1. Current(p)'
      BY <2>1, <2>2, GoEffect DEF Current
    <3>2. QED
      BY <2>1, <2>2, <3>1, GoAlone
  <2>3. QED
    BY <1>f, <1>5, <2>1, <2>2 DEF Statement
<1>6. ASSUME NEW p \in Api, RecordFirst(p) PROVE AloneInv'
  <2>1. Current(p)'
    BY <1>6, GoEffect DEF RecordFirst, Current
  <2>2. QED
    BY <1>6, <2>1, GoAlone DEF RecordFirst, Starting
<1>7. ASSUME NEW p \in Api, RunFile(p) PROVE AloneInv'
  <2>1. Starting(p)
    BY <1>7 DEF RunFile, Starting
  <2>2. CASE Go(p, "version", 0)
    <3>1. Current(p)'
      BY <2>2, GoEffect DEF Current
    <3>2. QED
      BY <2>1, <2>2, <3>1, GoAlone
  <2>3. QED
    BY <1>f, <1>7, <2>1, <2>2 DEF RunFile
<1>8. ASSUME NEW p \in Api, CountUsers(p) PROVE AloneInv'
  <2>1. devs' = devs /\ devs \in Nat
    BY <1>8 DEF CountUsers, database, TypeOK, DatabaseOK
  <2>2. Current(p)'
    BY <1>8, <2>1, GoEffect DEF CountUsers, Current
  <2>3. QED
    BY <1>8, <2>2, GoAlone DEF CountUsers, Starting
<1>9. ASSUME NEW p \in Api, InsertDev(p) PROVE AloneInv'
  <2>1. Starting(p)
    BY <1>9 DEF InsertDev, Starting
  <2>2. CASE Go(p, "inserted", 0)
    <3>1. Current(p)'
      BY <2>2, GoEffect DEF Current
    <3>2. QED
      BY <2>1, <2>2, <3>1, GoAlone
  <2>3. QED
    BY <1>f, <1>9, <2>1, <2>2 DEF InsertDev
<1>10. ASSUME NEW p \in Api, CommitDev(p) PROVE AloneInv'
  <2>1. Current(p)'
    BY <1>10, GoEffect DEF CommitDev, Current
  <2>2. QED
    BY <1>10, <2>1, GoAlone DEF CommitDev, Starting
<1>11. ASSUME NEW p \in Api, Serve(p) PROVE AloneInv'
  BY <1>11, GoAlone DEF Serve, Starting
<1>12. ASSUME NEW p \in Api, Fault(p) PROVE AloneInv'
  <2>1. pc'[p] = "down" /\ \A q \in Api : q # p => pc'[q] = pc[q] /\ at'[q] = at[q]
    BY <1>12 DEF Fault, TypeOK, ProcessesOK
  <2>2. UNCHANGED <<raced, table, objects, version, devs>>
    BY <1>12 DEF Fault, database
  <2>3. Stranded => Stranded'
    BY <2>1, <2>2 DEF Stranded, Owns
  <2>4. ASSUME NEW q \in Api, Starting(q)', ~raced'[q] PROVE Alone(q)' /\ Current(q)'
    <3>1. q # p /\ Starting(q) /\ ~raced[q]
      BY <2>1, <2>2, <2>4 DEF Starting
    <3>2. Alone(q) /\ Current(q)
      BY <3>1, AloneForm
    <3>3. Alone(q)'
      BY <2>1, <2>2, <3>2 DEF Alone, Starting
    <3>4. Current(q)'
      BY <2>1, <2>2, <2>3, <3>1, <3>2 DEF Current
    <3>5. QED
      BY <3>3, <3>4
  <2>5. QED
    BY <2>4 DEF AloneInv, Alone, Current
<1>13. CASE UNCHANGED vars
  BY <1>13 DEF vars, AloneInv, Starting, Stranded, Owns
<1>14. QED
  BY <1>1, <1>2, <1>3, <1>4, <1>5, <1>6, <1>7, <1>8, <1>9, <1>10, <1>11, <1>12, <1>13
     DEF Next, Step

-----------------------------------------------------------------------------
(* The theorems.                                                           *)

\* The invariant is inductive, so every reachable state satisfies it.
LEMMA Invariance == Spec => []IInv
<1>1. IInv /\ [Next]_vars => IInv'
  BY NextTypeOK, NextOwnerInv, NextProgressInv, NextDevInv, NextAloneInv DEF IInv
<1>2. QED
  BY InitIInv, <1>1, PTL DEF Spec

\* The types hold in every reachable state.
THEOREM TypeCorrect == Spec => []TypeOK
<1>1. IInv => TypeOK
  BY DEF IInv
<1>2. QED
  BY Invariance, <1>1, PTL

\* However many processes start at once, and however often they die, one that
\* serves has every object of the schema, and the dev user if it is to have one
\* (main.go:34-51).
THEOREM SchemaReady == Spec => []ServesReady
<1>1. ASSUME IInv PROVE ServesReady
  <2>1. ASSUME NEW p \in Api, pc[p] = "serving"
        PROVE  version = Files /\ objects = 1..Statements /\ (devBootstrap[p] => devs > 0)
    <3>1. version = Files /\ (devBootstrap[p] => devs > 0)
      BY <1>1, <2>1 DEF IInv, ProgressInv
    <3>2. objects = 1..Statements
      BY <1>1, <3>1, SizeAssumption DEF IInv, OwnerInv
    <3>3. QED
      BY <3>1, <3>2
  <2>2. QED
    BY <2>1 DEF ServesReady
<1>2. QED
  BY Invariance, <1>1, PTL

\* At most one bootstrap is committed (bootstrap.go:13-51).
THEOREM DevUserOnce == Spec => []OneDevUser
<1>1. IInv => OneDevUser
  BY DEF IInv, DevInv
<1>2. QED
  BY Invariance, <1>1, PTL

\* Only a fault leaves file 1 half done, never the races of the starts.
THEOREM RacesAreHarmless == Spec => []RacesNeverStrand
<1>1. IInv => RacesNeverStrand
  BY DEF IInv, OwnerInv
<1>2. QED
  BY Invariance, <1>1, PTL

\* A start that nothing overlaps fails only by a fault, or because file 1 is half
\* done.
THEOREM LoneStartSucceeds == Spec => StartFailsOnlyIfRaced
<1> DEFINE Fails(q) == pc[q] # "down" /\ pc'[q] = "down" /\ faults' = faults
<1>1. ASSUME IInv, [Next]_vars, NEW q \in Api, Fails(q) PROVE raced[q] \/ Stranded
  <2>0. TypeOK /\ OwnerInv /\ AloneInv
    BY <1>1 DEF IInv
  <2>1. ASSUME NEW p \in Api, NEW s, NEW n, Go(p, s, n), p # q \/ s # "down" PROVE FALSE
    BY <1>1, <2>0, <2>1, GoEffect
  <2>2. ASSUME NEW p \in Api, Start(p) \/ Fault(p) PROVE FALSE
    BY <1>1, <2>0, <2>2 DEF Start, Fault, TypeOK, ProcessesOK
  <2>3. ASSUME UNCHANGED vars PROVE FALSE
    BY <1>1, <2>3 DEF vars
  <2>4. ASSUME NEW p \in Api,
               \/ FindTable(p) \/ NextFile(p) \/ RecordFirst(p) \/ CountUsers(p)
               \/ CommitDev(p) \/ Serve(p)
        PROVE  FALSE
    <3>1. PICK s, n : Go(p, s, n) /\ s # "down"
      BY <2>4 DEF FindTable, NextFile, RecordFirst, CountUsers, CommitDev, Serve
    <3>2. QED
      BY <2>1, <3>1
  <2>5. ASSUME Starting(q), ~raced[q] PROVE Current(q)
    BY <2>0, <2>5, AloneForm
  <2>6. ASSUME NEW p \in Api, CreateTable(p) PROVE raced[q]
    <3>1. p = q /\ table
      BY <2>1, <2>6 DEF CreateTable, Fatal
    <3>2. QED
      BY <2>5, <2>6, <3>1 DEF CreateTable, Starting, Current
  <2>7. ASSUME NEW p \in Api, Statement(p) PROVE raced[q] \/ Stranded
    <3>1. p = q /\ at[p] \in objects
      BY <2>1, <2>7 DEF Statement, Fatal
    <3>2. pc[p] = "first" /\ at[p] \in 1..Statements
      BY <2>0, <2>7 DEF Statement, TypeOK, ProcessesOK, RightPlace
    <3>3. at[p] = 1
      BY <2>0, <3>1, <3>2 DEF OwnerInv, Owns
    <3>4. QED
      BY <2>5, <3>1, <3>2, <3>3 DEF Starting, Current
  <2>8. ASSUME NEW p \in Api, RunFile(p) PROVE raced[q]
    <3>1. p = q /\ version >= at[p] /\ pc[p] = "file"
      BY <2>1, <2>8 DEF RunFile, Fatal
    <3>2. version \in Nat /\ at[p] \in Nat
      BY <2>0 DEF TypeOK, DatabaseOK, ProcessesOK
    <3>3. QED
      BY <2>5, <3>1, <3>2 DEF Starting, Current
  <2>9. ASSUME NEW p \in Api, InsertDev(p) PROVE raced[q]
    <3>1. p = q /\ devs > 0 /\ pc[p] = "insert"
      BY <2>1, <2>9 DEF InsertDev, Fatal
    <3>2. QED
      BY <2>5, <3>1 DEF Starting, Current
  <2>10. QED
    BY <1>1, <2>2, <2>3, <2>4, <2>6, <2>7, <2>8, <2>9 DEF Next, Step
<1>2. IInv /\ [Next]_vars
      => [\A p \in Api : pc[p] # "down" /\ pc'[p] = "down" /\ faults' = faults
            => raced[p] \/ Stranded]_vars
  BY <1>1
<1>3. QED
  BY Invariance, <1>2, PTL DEF Spec, StartFailsOnlyIfRaced
=============================================================================
