-------------------------- MODULE ApiKeyPoolProofs --------------------------
(***************************************************************************)
(* Proofs about the connection pool, for every number of requests and      *)
(* every size of the pool.                                                 *)
(***************************************************************************)
EXTENDS ApiKeyPool, FiniteSetTheorems, TLAPS

-----------------------------------------------------------------------------
(* Counting connections.                                                   *)

\* Finitely many requests hold connections.
LEMMA HoldingFinite == \A n : IsFiniteSet(Holding(n)) /\ Cardinality(Holding(n)) \in Nat
<1>1. IsFiniteSet(Req)
  BY RequestAssumption, FS_Union DEF Req
<1>2. \A n : Holding(n) \in SUBSET Req
  BY DEF Holding
<1>3. QED
  BY <1>1, <1>2, FS_Subset, FS_CardinalityType

\* The number of connections in use is an integer.
LEMMA UsedIsInt == Used \in Int /\ Used' \in Int
<1>1. IsFiniteSet(Req)
  BY RequestAssumption, FS_Union DEF Req
<1>2. \A S \in SUBSET Req : Cardinality(S) \in Nat
  BY <1>1, FS_Subset, FS_CardinalityType
<1>3. \A n : Holding(n) \in SUBSET Req /\ Holding(n)' \in SUBSET Req
  BY DEF Holding
<1>4. /\ Cardinality(Holding(1)) \in Nat /\ Cardinality(Holding(2)) \in Nat
      /\ Cardinality(Holding(1)') \in Nat /\ Cardinality(Holding(2)') \in Nat
  BY <1>2, <1>3
<1>5. QED
  BY <1>4 DEF Used

\* A request that gives connections back never raises the number in use.
LEMMA UsedShrinks ==
  ASSUME conns \in [Req -> 0..2], NEW r \in Req, NEW n \in 0..2, n <= conns[r],
         conns' = [conns EXCEPT ![r] = n]
  PROVE  Used' <= Used
<1>1. /\ Holding(1)' = (Holding(1) \ {r}) \cup (IF n = 1 THEN {r} ELSE {})
      /\ Holding(2)' = (Holding(2) \ {r}) \cup (IF n = 2 THEN {r} ELSE {})
  BY DEF Holding
<1>2. /\ r \in Holding(1) <=> conns[r] = 1
      /\ r \in Holding(2) <=> conns[r] = 2
  BY DEF Holding
<1>3. \A k : /\ IsFiniteSet(Holding(k) \ {r})
             /\ Cardinality(Holding(k) \ {r}) =
                  IF r \in Holding(k) THEN Cardinality(Holding(k)) - 1
                                      ELSE Cardinality(Holding(k))
             /\ Cardinality((Holding(k) \ {r}) \cup {r}) = Cardinality(Holding(k) \ {r}) + 1
  BY HoldingFinite, FS_RemoveElement, FS_AddElement
<1>4. \A k : Cardinality(Holding(k)) \in Nat
  BY HoldingFinite
<1>5. CASE n = 0
  <2>1. Holding(1)' = Holding(1) \ {r} /\ Holding(2)' = Holding(2) \ {r}
    BY <1>1, <1>5
  <2>2. QED
    BY <1>2, <1>3, <1>4, <2>1 DEF Used
<1>6. CASE n = 1
  <2>1. Holding(1)' = (Holding(1) \ {r}) \cup {r} /\ Holding(2)' = Holding(2) \ {r}
    BY <1>1, <1>6
  <2>2. conns[r] \in {1, 2}
    BY <1>6
  <2>3. QED
    BY <1>2, <1>3, <1>4, <2>1, <2>2 DEF Used
<1>7. CASE n = 2
  <2>1. conns' = conns
    BY <1>7
  <2>2. Used' = Used
    BY <2>1 DEF Used, Holding
  <2>3. Used \in Int
    BY <1>4 DEF Used
  <2>4. QED
    BY <2>2, <2>3
<1>8. QED
  BY <1>5, <1>6, <1>7

\* A request that gets a connection raises it by one.
LEMMA UsedGrows ==
  ASSUME conns \in [Req -> 0..2], NEW r \in Req, conns[r] \in {0, 1},
         conns' = [conns EXCEPT ![r] = @ + 1]
  PROVE  Used' = Used + 1
<1>1. \A k : Cardinality(Holding(k)) \in Nat
  BY HoldingFinite
<1>2. CASE conns[r] = 0
  <2>1. Holding(1)' = Holding(1) \cup {r} /\ r \notin Holding(1) /\ Holding(2)' = Holding(2)
    BY <1>2 DEF Holding
  <2>2. Cardinality(Holding(1)') = Cardinality(Holding(1)) + 1
    BY <2>1, HoldingFinite, FS_AddElement
  <2>3. QED
    BY <1>1, <2>1, <2>2 DEF Used
<1>3. CASE conns[r] = 1
  <2>1. /\ Holding(1)' = Holding(1) \ {r} /\ r \in Holding(1)
        /\ Holding(2)' = Holding(2) \cup {r} /\ r \notin Holding(2)
    BY <1>3 DEF Holding
  <2>2. Cardinality(Holding(1)') = Cardinality(Holding(1)) - 1
    BY <2>1, HoldingFinite, FS_RemoveElement
  <2>3. Cardinality(Holding(2)') = Cardinality(Holding(2)) + 1
    BY <2>1, HoldingFinite, FS_AddElement
  <2>4. QED
    BY <1>1, <2>2, <2>3 DEF Used
<1>4. QED
  BY <1>2, <1>3

-----------------------------------------------------------------------------
(* The queue.                                                              *)

NoneTwice == \A i, j \in DOMAIN queue : queue[i] = queue[j] => i = j

\* A request that joins the queue waits; nobody else starts or stops waiting.
LEMMA JoinQueue ==
  ASSUME queue \in Seq(Req), NoneTwice, NEW r \in Req, ~Waits(r),
         queue' = Append(queue, r)
  PROVE  /\ queue' \in Seq(Req) /\ NoneTwice'
         /\ \A x : Waits(x)' <=> Waits(x) \/ x = r
  BY DEF NoneTwice, Waits

\* A request that is served leaves the front of the queue, the others wait on.
LEMMA LeaveFront ==
  ASSUME queue \in Seq(Req), NoneTwice, queue # <<>>, queue' = Tail(queue)
  PROVE  /\ queue' \in Seq(Req) /\ NoneTwice'
         /\ Head(queue) \in Req /\ Waits(Head(queue))
         /\ \A x : Waits(x)' <=> Waits(x) /\ x # Head(queue)
<1>1. /\ Len(queue) \in Nat \ {0} /\ DOMAIN queue = 1..Len(queue)
      /\ Head(queue) = queue[1] /\ 1 \in DOMAIN queue
  OBVIOUS
<1>2. /\ queue' \in Seq(Req)
      /\ DOMAIN queue' = 1..(Len(queue) - 1)
      /\ \A i \in DOMAIN queue' : queue'[i] = queue[i + 1] /\ i + 1 \in DOMAIN queue
  BY <1>1
<1>3. NoneTwice'
  BY <1>1, <1>2 DEF NoneTwice
<1>4. ASSUME NEW x, Waits(x), x # Head(queue) PROVE Waits(x)'
  <2>1. PICK i \in DOMAIN queue : queue[i] = x
    BY <1>4 DEF Waits
  <2>2. i - 1 \in DOMAIN queue' /\ i = (i - 1) + 1
    BY <1>1, <1>2, <1>4, <2>1
  <2>3. queue'[i - 1] = x
    BY <1>2, <2>1, <2>2
  <2>4. QED
    BY <2>2, <2>3 DEF Waits
<1>5. ASSUME NEW x, Waits(x)' PROVE Waits(x) /\ x # Head(queue)
  <2>1. PICK i \in DOMAIN queue' : queue'[i] = x
    BY <1>5 DEF Waits
  <2>2. i + 1 \in DOMAIN queue /\ queue[i + 1] = x /\ i + 1 # 1
    BY <1>1, <1>2, <2>1
  <2>3. QED
    BY <1>1, <2>2 DEF Waits, NoneTwice
<1>6. Head(queue) \in Req /\ Waits(Head(queue))
  BY <1>1 DEF Waits
<1>7. queue' \in Seq(Req)
  BY <1>2
<1>8. \A x : Waits(x)' <=> Waits(x) /\ x # Head(queue)
  BY <1>4, <1>5
<1>9. QED
  BY <1>3, <1>6, <1>7, <1>8

\* A request that gives up leaves the queue, the others wait on in their order.
LEMMA LeaveAnywhere ==
  ASSUME queue \in Seq(Req), NoneTwice, NEW k \in DOMAIN queue, queue' = WithoutEntry(k)
  PROVE  /\ queue' \in Seq(Req) /\ NoneTwice'
         /\ \A x : Waits(x)' <=> Waits(x) /\ x # queue[k]
<1> DEFINE Old(j) == IF j < k THEN j ELSE j + 1
<1>1. Len(queue) \in Nat \ {0} /\ DOMAIN queue = 1..Len(queue) /\ k \in 1..Len(queue)
  OBVIOUS
<1>2. /\ DOMAIN queue' = 1..(Len(queue) - 1)
      /\ \A j \in DOMAIN queue' : queue'[j] = queue[Old(j)]
  BY <1>1 DEF WithoutEntry
<1>3. \A j \in DOMAIN queue' : Old(j) \in DOMAIN queue \ {k}
  BY <1>1, <1>2
<1>4. queue' \in Seq(Req)
  <2>1. \A j \in 1..(Len(queue) - 1) : queue[IF j < k THEN j ELSE j + 1] \in Req
    BY <1>1
  <2>2. queue' \in [1..(Len(queue) - 1) -> Req]
    BY <2>1 DEF WithoutEntry
  <2>3. QED
    BY <1>1, <2>2
<1>5. NoneTwice'
  <2>1. SUFFICES ASSUME NEW i \in DOMAIN queue', NEW j \in DOMAIN queue', queue'[i] = queue'[j]
                 PROVE  i = j
    BY DEF NoneTwice
  <2>2. Old(i) = Old(j)
    BY <1>2, <1>3, <2>1 DEF NoneTwice
  <2>3. QED
    BY <1>1, <1>2, <2>2
<1>6. ASSUME NEW x, Waits(x), x # queue[k] PROVE Waits(x)'
  <2>1. PICK i \in DOMAIN queue : queue[i] = x
    BY <1>6 DEF Waits
  <2>2. i # k
    BY <1>6, <2>1
  <2>3. PICK j \in DOMAIN queue' : Old(j) = i
    <3>1. CASE i < k
      <4>1. i \in DOMAIN queue' /\ Old(i) = i
        BY <1>1, <1>2, <2>1, <3>1
      <4>2. QED
        BY <4>1
    <3>2. CASE i > k
      <4>1. i - 1 \in DOMAIN queue' /\ Old(i - 1) = i
        BY <1>1, <1>2, <2>1, <3>2
      <4>2. QED
        BY <4>1
    <3>3. QED
      BY <1>1, <2>1, <2>2, <3>1, <3>2
  <2>4. QED
    BY <1>2, <2>1, <2>3 DEF Waits
<1>7. ASSUME NEW x, Waits(x)' PROVE Waits(x) /\ x # queue[k]
  <2>1. PICK j \in DOMAIN queue' : queue'[j] = x
    BY <1>7 DEF Waits
  <2>2. Old(j) \in DOMAIN queue \ {k} /\ queue[Old(j)] = x
    BY <1>2, <1>3, <2>1
  <2>3. QED
    BY <2>2 DEF Waits, NoneTwice
<1>8. QED
  BY <1>4, <1>5, <1>6, <1>7
-----------------------------------------------------------------------------
(* The types and the accounting of connections.                            *)

\* The initial state has the types.
LEMMA InitTypeOK == Init => TypeOK
<1> SUFFICES ASSUME Init PROVE TypeOK
  OBVIOUS
<1>1. \A n \in {1, 2} : Holding(n) = {}
  BY DEF Init, Holding
<1>2. Used = 0
  BY <1>1, FS_EmptySet DEF Used
<1>3. QED
  BY <1>2, MaxConnsAssumption DEF Init, TypeOK, Waits

\* A request that joins the queue with no more connections than it had.
LEMMA AcquireKeepsTypeOK ==
  ASSUME TypeOK, NEW r \in Req, ~Waits(r),
         NEW p \in {"key", "role", "user", "handler", "audit"},
         p \in {"key", "role", "user"} => r \in KeyReq,
         Base(p) <= conns[r],
         Acquire(r, p, Base(p))
  PROVE  TypeOK'
<1>1. Base(p) \in 0..2
  BY DEF Base
<1>2. Used' <= Used
  BY <1>1, UsedShrinks DEF TypeOK, Acquire
<1>3. /\ queue' \in Seq(Req) /\ NoneTwice'
      /\ \A x : Waits(x)' <=> Waits(x) \/ x = r
  BY JoinQueue DEF TypeOK, NoneTwice, Acquire
<1>4. QED
  BY <1>1, <1>2, <1>3, UsedIsInt, MaxConnsAssumption DEF TypeOK, NoneTwice, Acquire, Base

\* A request that becomes idle and gives back what it holds.
LEMMA EndKeepsTypeOK ==
  ASSUME TypeOK, NEW r \in Req, ~Waits(r), Go(r, "idle", 0)
  PROVE  TypeOK'
<1>1. conns[r] \in 0..2 /\ 0 \in 0..2 /\ 0 <= conns[r]
  BY DEF TypeOK
<1>2. conns \in [Req -> 0..2] /\ conns' = [conns EXCEPT ![r] = 0]
  BY DEF TypeOK, Go
<1>3. Used' <= Used
  BY <1>1, <1>2, UsedShrinks
<1>4. \A x : Waits(x)' <=> Waits(x)
  BY DEF Go, Waits
<1>5. QED
  BY <1>3, <1>4, UsedIsInt, MaxConnsAssumption DEF TypeOK, Go, Base

\* A granted connection is accounted for.
LEMMA GrantKeepsTypeOK == TypeOK /\ Grant => TypeOK'
<1> SUFFICES ASSUME TypeOK, Grant PROVE TypeOK'
  OBVIOUS
<1> DEFINE h == Head(queue)
<1>1. /\ queue' \in Seq(Req) /\ NoneTwice'
      /\ h \in Req /\ Waits(h)
      /\ \A x : Waits(x)' <=> Waits(x) /\ x # h
  BY LeaveFront DEF TypeOK, NoneTwice, Grant
<1>2. conns[h] = Base(pc[h]) /\ conns[h] \in {0, 1}
  BY <1>1 DEF TypeOK, Base
<1>3. Used' = Used + 1
  BY <1>1, <1>2, UsedGrows DEF TypeOK, Grant
<1>4. Used' <= MaxConns
  BY <1>3, UsedIsInt, MaxConnsAssumption DEF Grant
<1>5. QED
  BY <1>1, <1>2, <1>4 DEF TypeOK, NoneTwice, Grant

\* A disconnect gives back what the request holds, waiting or not.
LEMMA DisconnectKeepsTypeOK ==
  ASSUME TypeOK, NEW r \in Req, Disconnect(r)
  PROVE  TypeOK'
<1>1. conns[r] \in 0..2 /\ 0 \in 0..2 /\ 0 <= conns[r]
  BY DEF TypeOK
<1>2. conns \in [Req -> 0..2] /\ conns' = [conns EXCEPT ![r] = 0]
  BY DEF TypeOK, Disconnect
<1>3. Used' <= Used
  BY <1>1, <1>2, UsedShrinks
<1>4. /\ queue' \in Seq(Req) /\ NoneTwice'
      /\ \A x : Waits(x)' <=> Waits(x) /\ x # r
  <2>1. CASE Waits(r)
    <3>1. PICK i \in DOMAIN queue : queue[i] = r /\ queue' = WithoutEntry(i)
      BY <2>1 DEF Disconnect
    <3>2. QED
      BY <3>1, LeaveAnywhere DEF TypeOK, NoneTwice
  <2>2. CASE ~Waits(r)
    BY <2>2 DEF Disconnect, TypeOK, NoneTwice, Waits
  <2>3. QED
    BY <2>1, <2>2
<1>5. QED
  BY <1>3, <1>4, UsedIsInt, MaxConnsAssumption DEF TypeOK, NoneTwice, Disconnect, Base

\* TypeOK is inductive.
LEMMA NextTypeOK == TypeOK /\ [Next]_vars => TypeOK'
<1> SUFFICES ASSUME TypeOK, [Next]_vars PROVE TypeOK'
  OBVIOUS
<1>1. CASE Grant
  BY <1>1, GrantKeepsTypeOK
<1>2. ASSUME NEW r \in Req, Arrive(r) PROVE TypeOK'
  <2>1. ~Waits(r) /\ conns[r] = 0
    BY <1>2 DEF Arrive, TypeOK
  <2>2. CASE r \in KeyReq
    BY <1>2, <2>1, <2>2, AcquireKeepsTypeOK DEF Arrive, Base
  <2>3. CASE r \notin KeyReq
    BY <1>2, <2>1, <2>3, AcquireKeepsTypeOK DEF Arrive, Base
  <2>4. QED
    BY <2>2, <2>3
<1>3. ASSUME NEW r \in Req, NoKey(r) \/ NoMember(r) \/ AuditDone(r) PROVE TypeOK'
  BY <1>3, EndKeepsTypeOK DEF NoKey, NoMember, AuditDone, At
<1>4. ASSUME NEW r \in Req, KeyFits(r) PROVE TypeOK'
  <2>1. ~Waits(r) /\ r \in KeyReq /\ conns[r] = 1
    BY <1>4 DEF KeyFits, At, TypeOK, Base
  <2>2. QED
    BY <1>4, <2>1, AcquireKeepsTypeOK DEF KeyFits, Base
<1>5. ASSUME NEW r \in Req, Member(r) PROVE TypeOK'
  <2>1. ~Waits(r) /\ r \in KeyReq /\ conns[r] = 2
    BY <1>5 DEF Member, At, TypeOK, Base
  <2>2. QED
    BY <1>5, <2>1, AcquireKeepsTypeOK DEF Member, Base
<1>6. ASSUME NEW r \in Req, SignedIn(r) PROVE TypeOK'
  <2>1. ~Waits(r) /\ conns[r] = 2
    BY <1>6 DEF SignedIn, At, TypeOK, Base
  <2>2. QED
    BY <1>6, <2>1, AcquireKeepsTypeOK DEF SignedIn, Base
<1>7. ASSUME NEW r \in Req, HandlerDone(r) PROVE TypeOK'
  <2>1. ~Waits(r) /\ conns[r] = 1
    BY <1>7 DEF HandlerDone, At, TypeOK, Base
  <2>2. CASE Acquire(r, "audit", 0)
    BY <2>1, <2>2, AcquireKeepsTypeOK DEF Base
  <2>3. CASE Go(r, "idle", 0)
    BY <2>1, <2>3, EndKeepsTypeOK
  <2>4. QED
    BY <1>7, <2>2, <2>3 DEF HandlerDone
<1>8. ASSUME NEW r \in Req, Disconnect(r) PROVE TypeOK'
  BY <1>8, DisconnectKeepsTypeOK
<1>9. CASE UNCHANGED vars
  BY <1>9 DEF vars, TypeOK, Waits, Used, Holding
<1>10. QED
  BY <1>1, <1>2, <1>3, <1>4, <1>5, <1>6, <1>7, <1>8, <1>9 DEF Next, Serve

\* No connection is lost and none is handed out twice, whatever requests end,
\* fail or are abandoned (middleware.go:80-113).
THEOREM Accounting == Spec => []TypeOK
  BY InitTypeOK, NextTypeOK, PTL DEF Spec

-----------------------------------------------------------------------------
(* What a stalled pool looks like.                                         *)

\* In a stalled pool every connection is held by a key request that waits for its
\* second one, and each such request holds exactly one.
LEMMA StalledHolders ==
  ASSUME TypeOK, Stalled
  PROVE  Cardinality({r \in KeyReq : pc[r] \in {"role", "user"}}) = MaxConns
<1> DEFINE Between == {r \in KeyReq : pc[r] \in {"role", "user"}}
<1>1. \A r \in Req : conns[r] > 0 => conns[r] = 1 /\ pc[r] \in {"role", "user"}
  BY DEF TypeOK, Stalled, Base
<1>2. Holding(2) = {}
  BY <1>1 DEF Holding
<1>3. Holding(1) \subseteq Between
  BY <1>1 DEF Holding, TypeOK
<1>4. Cardinality(Holding(1)) = MaxConns
  BY <1>2, HoldingFinite, FS_EmptySet DEF Stalled, Used
<1>5. Between \subseteq Holding(1)
  <2>1. SUFFICES ASSUME NEW r \in Between PROVE conns[r] = 1
    BY DEF Holding, Req
  <2>2. r \in Req /\ conns[r] > 0
    BY DEF TypeOK, Req, Base
  <2>3. QED
    BY <1>1, <2>2
<1>6. QED
  BY <1>3, <1>4, <1>5

\* Only API keys can bring the pool to a standstill (middleware.go:80-111).
THEOREM KeysStall == Spec => []StallOnlyByKeys
<1>1. TypeOK => StallOnlyByKeys
  BY StalledHolders DEF StallOnlyByKeys
<1>2. QED
  BY <1>1, Accounting, PTL

\* With fewer concurrent key requests than connections it never stands still
\* (middleware.go:80-111).
THEOREM NeverStalls == Spec => []NoStall
<1>1. TypeOK => NoStall
  <2>1. SUFFICES ASSUME TypeOK, Stalled, Cardinality(KeyReq) < MaxConns PROVE FALSE
    BY DEF NoStall
  <2>2. Cardinality({r \in KeyReq : pc[r] \in {"role", "user"}}) <= Cardinality(KeyReq)
    BY RequestAssumption, FS_Subset
  <2>3. QED
    BY <2>1, <2>2, StalledHolders, RequestAssumption, FS_CardinalityType, MaxConnsAssumption
<1>2. QED
  BY <1>1, Accounting, PTL
-----------------------------------------------------------------------------
(* What keeps a pool going that is not stalled.                            *)

\* There is no standstill but the stall: while a request is under way the pool has
\* a connection to hand out or some request has the one it needs, whatever requests
\* there are (middleware.go:80-113).
THEOREM OnlyStallsStandStill == Spec => []NoOtherStandstill
<1>1. TypeOK => NoOtherStandstill
  <2>1. SUFFICES ASSUME TypeOK, NEW r \in Req, pc[r] # "idle", ~Stalled,
                        \A x \in Req : pc[x] # "idle" => Waits(x)
                 PROVE  queue # <<>> /\ Used < MaxConns
    BY DEF NoOtherStandstill
  <2>2. queue # <<>>
    BY <2>1 DEF Waits, TypeOK
  <2>3. \A x \in Req : conns[x] > 0 => Waits(x)
    BY <2>1 DEF TypeOK
  <2>4. Used # MaxConns
    BY <2>1, <2>3 DEF Stalled
  <2> QED
    BY <2>1, <2>2, <2>4, UsedIsInt, MaxConnsAssumption DEF TypeOK
<1>2. QED
  BY <1>1, Accounting, PTL
=============================================================================
