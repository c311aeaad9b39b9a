----------------------------- MODULE ApiKeyPool -----------------------------
(***************************************************************************)
(* The API process's connection pool (internal/db/db.go, Connect) under    *)
(* requests that sign in with an API key (internal/api/middleware.go,      *)
(* authAPIKey) and requests with a session.                                *)
(*                                                                         *)
(* authAPIKey keeps the rows of its first query open, and with them a      *)
(* connection, while it looks up the role and the user, which takes a      *)
(* second connection each.  Every other part of a request takes one        *)
(* connection at a time and gives it back before it takes the next.        *)
(*                                                                         *)
(* A request is a slot that serves one request after another, so that the  *)
(* sizes of KeyReq and PlainReq bound how many are served at once.  Keys   *)
(* have prefixes of their own: the first query returns at most one row.    *)
(* Calls to Proxmox, which hold no connection, are left out.               *)
(***************************************************************************)
EXTENDS Integers, FiniteSets, Sequences

CONSTANTS
    KeyReq,     \* slots of requests with an API key
    PlainReq,   \* slots of requests with a session
    MaxConns    \* pool_max_conns of the DSN, or pgxpool's default

ASSUME RequestAssumption == IsFiniteSet(KeyReq) /\ IsFiniteSet(PlainReq)
ASSUME DisjointAssumption == KeyReq \cap PlainReq = {}
ASSUME MaxConnsAssumption == MaxConns \in Nat \ {0}

Req == KeyReq \cup PlainReq

VARIABLES
    pc,         \* what the request is doing, or waits for a connection to do
    conns,      \* the connections in use: request -> how many it holds
    queue       \* the requests waiting for a connection, first come first served

vars == <<pc, conns, queue>>

Waits(r) == \E i \in DOMAIN queue : queue[i] = r

\* Requests that hold one connection, and those that hold two.
Holding(n) == {r \in Req : conns[r] = n}

Used == Cardinality(Holding(1)) + 2 * Cardinality(Holding(2))

Init ==
    /\ pc = [r \in Req |-> "idle"]
    /\ conns = [r \in Req |-> 0]
    /\ queue = <<>>

-----------------------------------------------------------------------------
\* r goes on to step p, which begins with pool.Acquire, with n connections in
\* hand.
Acquire(r, p, n) ==
    /\ pc' = [pc EXCEPT ![r] = p]
    /\ conns' = [conns EXCEPT ![r] = n]
    /\ queue' = Append(queue, r)

\* r goes on to step p, for which it has the connections.
Go(r, p, n) ==
    /\ pc' = [pc EXCEPT ![r] = p]
    /\ conns' = [conns EXCEPT ![r] = n]
    /\ UNCHANGED queue

\* pgxpool hands a free connection to the request that waits longest.
Grant ==
    /\ queue # <<>>
    /\ Used < MaxConns
    /\ conns' = [conns EXCEPT ![Head(queue)] = @ + 1]
    /\ queue' = Tail(queue)
    /\ UNCHANGED pc

\* r is at step p and has the connection that the step needs.
At(r, p) == pc[r] = p /\ ~Waits(r)

\* A request comes in: Query of the keys with the prefix (80-85), or the first
\* lookup of a session (137-167).
Arrive(r) ==
    /\ pc[r] = "idle"
    /\ Acquire(r, IF r \in KeyReq THEN "key" ELSE "handler", 0)

\* Bug: the query fails or finds nothing, and its rows are not closed.
NoKeyLeaking(r) ==
    /\ At(r, "key")
    /\ Go(r, "idle", 1)

\* The query fails, or no row fits: rows.Close, an empty answer (86-105, 113).
NoKey(r) ==
    /\ At(r, "key")
    /\ Go(r, "idle", 0)

\* The row fits the key: GetMembershipRole, with the rows open (106).
KeyFits(r) ==
    /\ At(r, "key")
    /\ Acquire(r, "role", 1)

\* No member of the organisation, and no further row (107-109, 113).
NoMember(r) ==
    /\ At(r, "role")
    /\ Go(r, "idle", 0)

\* A member: getUserByID, with the rows still open (110).
Member(r) ==
    /\ At(r, "role")
    /\ Acquire(r, "user", 1)

\* The deferred rows.Close, then the handler with a transaction of its own (111).
SignedIn(r) ==
    /\ At(r, "user")
    /\ Acquire(r, "handler", 0)

\* Bug: the audit entry is written before the transaction ends.
AuditInside(r) ==
    /\ At(r, "handler")
    /\ \/ Acquire(r, "audit", 1)
       \/ Go(r, "idle", 0)

\* The handler's transaction ends; some handlers write an audit entry through
\* the pool after it (handler_tf.go:190, handler_v1.go:342).
HandlerDone(r) ==
    /\ At(r, "handler")
    /\ \/ Acquire(r, "audit", 0)
       \/ Go(r, "idle", 0)

AuditDone(r) ==
    /\ At(r, "audit")
    /\ Go(r, "idle", 0)

WithoutEntry(i) ==
    [j \in 1..(Len(queue) - 1) |-> queue[IF j < i THEN j ELSE j + 1]]

\* The client goes away: its context is cancelled, what waits or runs under it
\* fails, the handler returns and gives everything back.
Disconnect(r) ==
    /\ pc[r] # "idle"
    /\ pc' = [pc EXCEPT ![r] = "idle"]
    /\ conns' = [conns EXCEPT ![r] = 0]
    /\ IF Waits(r)
       THEN \E i \in DOMAIN queue : queue[i] = r /\ queue' = WithoutEntry(i)
       ELSE UNCHANGED queue

Serve(r) ==
    \/ NoKey(r) \/ KeyFits(r) \/ NoMember(r) \/ Member(r) \/ SignedIn(r)
    \/ HandlerDone(r) \/ AuditDone(r)

Next ==
    \/ Grant
    \/ \E r \in Req : Arrive(r) \/ Serve(r) \/ Disconnect(r)

Spec == Init /\ [][Next]_vars

\* The pool grants what is free, and a request that has its connection goes on.
\* Nothing makes a request come in, and nothing makes a client give up: there is
\* no timeout (request_timeout of the configuration is not used).
Fairness == WF_vars(Grant) /\ \A r \in Req : WF_vars(Serve(r))

FairSpec == Spec /\ Fairness

-----------------------------------------------------------------------------
\* Connections a request holds while it waits for one, and once it has it.
Base(p) == IF p \in {"role", "user"} THEN 1 ELSE 0

\* The types; who holds how many connections, none of them lost: an idle
\* request none, a key request one more than the step it is at asks for while
\* its rows are open; the pool never hands out more than it has.
TypeOK ==
    /\ pc \in [Req -> {"idle", "key", "role", "user", "handler", "audit"}]
    /\ conns \in [Req -> 0..2]
    /\ queue \in Seq(Req)
    /\ \A i, j \in DOMAIN queue : queue[i] = queue[j] => i = j
    /\ \A r \in Req : pc[r] \in {"key", "role", "user"} => r \in KeyReq
    /\ \A r \in Req :
          conns[r] = IF pc[r] = "idle" THEN 0
                     ELSE IF Waits(r) THEN Base(pc[r]) ELSE Base(pc[r]) + 1
    /\ \A r \in Req : Waits(r) => pc[r] # "idle"
    /\ Used <= MaxConns

\* Every connection is held by a request that waits for another one.
Stalled == Used = MaxConns /\ \A r \in Req : conns[r] > 0 => Waits(r)

\* The pool can only come to a standstill through API keys: as many of them as
\* there are connections, each between its first query and its second lookup
\* (middleware.go:80-111).
StallOnlyByKeys ==
    Stalled => Cardinality({r \in KeyReq : pc[r] \in {"role", "user"}}) = MaxConns

\* Fewer concurrent key requests than connections never stall the pool.
NoStall == Cardinality(KeyReq) < MaxConns => ~Stalled

\* While a request is under way the pool can hand out a connection or some
\* request has the one it needs, unless the pool is stalled: there is no other
\* standstill (middleware.go:80-113).
NoOtherStandstill ==
    (\E r \in Req : pc[r] # "idle") =>
        \/ Stalled
        \/ queue # <<>> /\ Used < MaxConns
        \/ \E r \in Req : pc[r] # "idle" /\ ~Waits(r)

\* Every request is answered, or the pool stalls (middleware.go:69-114).
AnsweredUnlessStalled ==
    \A r \in Req : pc[r] # "idle" ~> pc[r] = "idle" \/ Stalled
=============================================================================
