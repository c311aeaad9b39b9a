--------------------------- MODULE RequestsProofs ---------------------------
(***************************************************************************)
(* Proofs about Requests, for any number of requests and any handlers of   *)
(* Handlers, organisations, keys, nodes, guests and faults.                *)
(*                                                                         *)
(* The inductive invariant IInv of Requests is kept, for each request, by  *)
(* its own handler (HandleOwn, one lemma for each part), by the handlers   *)
(* of the others, which leave it alone (HandleSame, SameKeepsOwn), and by  *)
(* each action of the surroundings.  KeyKnown and KeysSignIn relate two    *)
(* requests and come last.  The properties, the implementation of          *)
(* RequestContract and the completeness of lists follow.                   *)
(***************************************************************************)
EXTENDS Requests, FiniteSetTheorems, WellFoundedInduction, TLAPS

\* Of any organisations there is a first one.
LEMMA FirstOrgType ==
  ASSUME NEW S \in SUBSET Org, S # {}
  PROVE  FirstOrg(S) \in S
<1>0. S \subseteq Nat
  BY OrgAssumption
<1>1. PICK x \in S : \A y \in S : ~(<<y, x>> \in OpToRel(<, Nat))
  BY <1>0, NatLessThanWellFounded, WFMin
<1>2. \A y \in S : (<<y, x>> \in OpToRel(<, Nat)) <=> y < x
  BY <1>0 DEF OpToRel
<1>3. \A y \in S : ~(y < x)
  BY <1>1, <1>2, Zenon
<1>4. \A y \in S : x <= y
  BY <1>0, <1>3
<1>5. QED
  BY <1>4 DEF FirstOrg

\* Every place of a request.
Place == Unserved \cup Served \cup {"over"}
\* Every way a request may end, or be open.
Ending == {"open", "ok", "error", "empty", "none"}

\* Where requests are and what has been answered.
ControlOK == pc \in [Req -> Place] /\ written \in [Req -> Nat] /\ reply \in [Req -> Ending]
\* What befell requests.
FateOK == /\ hit \in [Req -> SUBSET {"db", "disconnect", "proxmox", "terminated"}]
          /\ events \in 0..MaxEvents
\* The rows and the history of the roles.
StoreOK == /\ role \in [Org -> Role] /\ keys \subseteq Key
           /\ held \in [Req -> [Org -> SUBSET Role]]
\* What requests carry and have done.
RequestOK == /\ input \in [Req -> Input] /\ ctx \in [Req -> Context]
             /\ committed \subseteq Req /\ audit \subseteq Req

\* TypeOK, in the parts that different steps disturb.
LEMMA TypeParts == TypeOK <=> ClusterTypeOK /\ ControlOK /\ FateOK /\ StoreOK /\ RequestOK
  BY DEF TypeOK, ControlOK, FateOK, StoreOK, RequestOK, Place, Ending

\* ... and put together again after a step.
LEMMA TypeJoined ==
  ASSUME ClusterTypeOK', ControlOK', FateOK', StoreOK', RequestOK'
  PROVE  TypeOK'
  BY DEF TypeOK, ControlOK, FateOK, StoreOK, RequestOK, Place, Ending

\* A handler goes on within its places.
LEMMA GoToType ==
  ASSUME ControlOK, NEW r \in Req, NEW place \in Place, GoTo(r, place)
  PROVE  ControlOK'
  BY DEF ControlOK, GoTo

\* Returning counts the bodies written and sets how the request ended.
LEMMA ReturnType ==
  ASSUME ControlOK, NEW r \in Req, NEW ending \in Ending, NEW n \in Nat,
         Return(r, ending, n)
  PROVE  ControlOK'
  BY DEF ControlOK, Return, Place

\* So does a refusal.
LEMMA RefuseType ==
  ASSUME ControlOK, NEW r \in Req, NEW n \in Nat, Refuse(r, n)
  PROVE  ControlOK'
  BY ReturnType DEF Refuse, Ending

\* A statement that works or fails keeps to the faults and their bound.
LEMMA FateType ==
  ASSUME FateOK, NEW r \in Req, Works(r) \/ Fails(r) \/ UNCHANGED <<hit, events>>
  PROVE  FateOK'
  BY EventAssumption DEF FateOK, Works, Fails, Event

\* What sign-in puts into the context is a context.
LEMMA ContextType ==
  ASSUME RequestOK, NEW r \in Req, NEW org \in Org \cup {NoOrg}, NEW rl,
         org \in Org => rl \in Role, NEW plat \in BOOLEAN, SetContext(r, org, rl, plat)
  PROVE  ctx' \in [Req -> Context]
  BY DEF SetContext, RequestOK, Context, Role

\* Every step of a handler keeps where it is, what it has written and how it ended.
LEMMA HandleControl ==
  ASSUME ControlOK, NEW r \in Req, Handle(r)
  PROVE  ControlOK'
<1> USE GoToType, ReturnType, RefuseType DEF Unserved, Served, Place, Ending
<1>1. CASE NoToken(r)
  BY <1>1 DEF NoToken
<1>2. CASE KeyRows(r)
  BY <1>2 DEF KeyRows
<1>3. CASE KeyRole(r)
  BY <1>3 DEF KeyRole
<1>4. CASE DevUser(r)
  BY <1>4 DEF DevUser
<1>5. CASE DevRole(r)
  BY <1>5 DEF DevRole
<1>6. CASE ParseSession(r)
  BY <1>6 DEF ParseSession
<1>7. CASE SessionRole(r)
  BY <1>7 DEF SessionRole
<1>8. CASE Guard(r)
  BY <1>8 DEF Guard, FirstPlace
<1>9. CASE Commit(r)
  BY <1>9 DEF Commit, AfterEffect
<1>10. CASE CommitUnseen(r)
  BY <1>10 DEF CommitUnseen
<1>11. CASE RollBack(r)
  BY <1>11 DEF RollBack
<1>12. CASE ReportFailure(r)
  BY <1>12 DEF ReportFailure
<1>13. CASE Connect(r)
  BY <1>13 DEF Connect
<1>14. CASE VerifyReachability(r)
  BY <1>14 DEF VerifyReachability
<1>15. CASE CallProxmox(r)
  BY <1>15 DEF CallProxmox
<1>16. CASE ProxmoxAnswers(r)
  BY <1>16 DEF ProxmoxAnswers
<1>17. CASE ProxmoxFails(r)
  BY <1>17 DEF ProxmoxFails
<1>18. CASE StartListing(r)
  BY <1>18 DEF StartListing
<1>19. CASE ListNext(r)
  BY <1>19 DEF ListNext, ControlOK
<1>20. CASE EndListing(r)
  BY <1>20 DEF EndListing
<1>21. CASE InsertAudit(r)
  BY <1>21 DEF InsertAudit
<1>22. CASE Answer(r)
  BY <1>22 DEF Answer
<1>23. QED
  BY <1>1, <1>2, <1>3, <1>4, <1>5, <1>6, <1>7, <1>8, <1>9, <1>10, <1>11, <1>12, <1>13,
     <1>14, <1>15, <1>16, <1>17, <1>18, <1>19, <1>20, <1>21, <1>22
  DEF Handle

\* ... and what befell it.
LEMMA HandleFate ==
  ASSUME FateOK, NEW r \in Req, Handle(r)
  PROVE  FateOK'
<1> USE FateType DEF unserved
<1>1. CASE NoToken(r)
  BY <1>1 DEF NoToken
<1>2. CASE KeyRows(r)
  BY <1>2 DEF KeyRows
<1>3. CASE KeyRole(r)
  BY <1>3 DEF KeyRole
<1>4. CASE DevUser(r)
  BY <1>4 DEF DevUser
<1>5. CASE DevRole(r)
  BY <1>5 DEF DevRole
<1>6. CASE ParseSession(r)
  BY <1>6 DEF ParseSession
<1>7. CASE SessionRole(r)
  BY <1>7 DEF SessionRole
<1>8. CASE Guard(r)
  BY <1>8 DEF Guard
<1>9. CASE Commit(r)
  BY <1>9 DEF Commit
<1>10. CASE CommitUnseen(r)
  BY <1>10 DEF CommitUnseen
<1>11. CASE RollBack(r)
  BY <1>11 DEF RollBack
<1>12. CASE ReportFailure(r)
  BY <1>12 DEF ReportFailure
<1>13. CASE Connect(r)
  BY <1>13 DEF Connect
<1>14. CASE VerifyReachability(r)
  BY <1>14 DEF VerifyReachability
<1>15. CASE CallProxmox(r)
  BY <1>15 DEF CallProxmox
<1>16. CASE ProxmoxAnswers(r)
  BY <1>16 DEF ProxmoxAnswers
<1>17. CASE ProxmoxFails(r)
  BY <1>17 DEF ProxmoxFails, FateOK
<1>18. CASE StartListing(r)
  BY <1>18 DEF StartListing
<1>19. CASE ListNext(r)
  BY <1>19 DEF ListNext
<1>20. CASE EndListing(r)
  BY <1>20 DEF EndListing
<1>21. CASE InsertAudit(r)
  BY <1>21 DEF InsertAudit
<1>22. CASE Answer(r)
  BY <1>22 DEF Answer
<1>23. QED
  BY <1>1, <1>2, <1>3, <1>4, <1>5, <1>6, <1>7, <1>8, <1>9, <1>10, <1>11, <1>12, <1>13,
     <1>14, <1>15, <1>16, <1>17, <1>18, <1>19, <1>20, <1>21, <1>22
  DEF Handle

\* ... and its context, which comes from the header or from the memberships.
LEMMA HandleRequest ==
  ASSUME RequestOK, StoreOK, NEW r \in Req, Handle(r)
  PROVE  RequestOK'
<1>0. /\ input[r].hdr \in Org \cup {NoOrg} /\ ctx[r].org \in Org \cup {NoOrg}
      /\ ctx[r].plat \in BOOLEAN
      /\ "none" \in Role /\ "org_admin" \in Role /\ \A o \in Org : role[o] \in Role
      /\ IsPlatformToken(r) \in BOOLEAN
  BY DEF RequestOK, StoreOK, Input, Context, Role, IsPlatformToken
<1>00. Memberships # {} => FirstOrg(Memberships) \in Org
  BY FirstOrgType DEF Memberships
<1> USE <1>0, <1>00, ContextType DEF unserved
<1>1. CASE NoToken(r)
  BY <1>1 DEF NoToken, RequestOK
<1>2. CASE KeyRows(r)
  BY <1>2 DEF KeyRows, RequestOK
<1>3. CASE KeyRole(r)
  BY <1>3 DEF KeyRole, RequestOK
<1>4. CASE DevUser(r)
  BY <1>4 DEF DevUser, RequestOK
<1>5. CASE DevRole(r)
  BY <1>5 DEF DevRole, RequestOK
<1>6. CASE ParseSession(r)
  BY <1>6 DEF ParseSession, RequestOK
<1>7. CASE SessionRole(r)
  BY <1>7 DEF SessionRole, RequestOK
<1>8. CASE Guard(r)
  BY <1>8 DEF Guard, RequestOK
<1>9. CASE Commit(r)
  BY <1>9 DEF Commit, RequestOK
<1>10. CASE CommitUnseen(r)
  BY <1>10 DEF CommitUnseen, RequestOK
<1>11. CASE RollBack(r)
  BY <1>11 DEF RollBack, RequestOK
<1>12. CASE ReportFailure(r)
  BY <1>12 DEF ReportFailure, RequestOK
<1>13. CASE Connect(r)
  BY <1>13 DEF Connect, RequestOK
<1>14. CASE VerifyReachability(r)
  BY <1>14 DEF VerifyReachability, RequestOK
<1>15. CASE CallProxmox(r)
  BY <1>15 DEF CallProxmox, RequestOK
<1>16. CASE ProxmoxAnswers(r)
  BY <1>16 DEF ProxmoxAnswers, RequestOK
<1>17. CASE ProxmoxFails(r)
  BY <1>17 DEF ProxmoxFails, RequestOK
<1>18. CASE StartListing(r)
  BY <1>18 DEF StartListing, RequestOK
<1>19. CASE ListNext(r)
  BY <1>19 DEF ListNext, RequestOK
<1>20. CASE EndListing(r)
  BY <1>20 DEF EndListing, RequestOK
<1>21. CASE InsertAudit(r)
  BY <1>21 DEF InsertAudit, RequestOK
<1>22. CASE Answer(r)
  BY <1>22 DEF Answer, RequestOK
<1>23. QED
  BY <1>1, <1>2, <1>3, <1>4, <1>5, <1>6, <1>7, <1>8, <1>9, <1>10, <1>11, <1>12, <1>13,
     <1>14, <1>15, <1>16, <1>17, <1>18, <1>19, <1>20, <1>21, <1>22
  DEF Handle

\* Only CreateAPIKey makes a key, and it needs an administrator; lists keep no audit trail.
LEMMA HandlersApart ==
  \A op \in Op : /\ op.does = "key" => op.needs = "admin"
                 /\ op.does = "list" => ~op.audited
  BY OpAssumption
  DEF Handlers, Handler, Me, ListOrgs, ListTemplates, PostTemplate, ListFlavors, PostFlavor,
      ListAudit, ListAPIKeys, CreateAPIKey, ListWorkspaces, CreateWorkspace, UploadConfig,
      EnqueueTF, GetRun, GetPVEConnection, PostPVEConnection, PVEVMs, PVEPower,
      PostPVEConsole, GetAdminEnv, PatchAdminEnv

\* The key CreateAPIKey inserts is a row of api_keys (handler_apikey.go:82-90).
LEMMA KeyInserted ==
  ASSUME StoreOK, RequestOK, NEW r \in Req, Allowed(r), InsertKey(r),
         UNCHANGED <<role, held>>
  PROVE  StoreOK'
<1>1. CASE input[r].op.does = "key"
  <2>0. ctx[r].org \in Org
    BY <1>1, HandlersApart DEF Allowed, RequestOK, Input, Context
  <2>1. PICK p \in Prefix : keys' = keys \cup {[id |-> r, org |-> ctx[r].org, prefix |-> p]}
    BY <1>1 DEF InsertKey
  <2>2. QED
    BY <2>0, <2>1 DEF StoreOK, Key, KeyId
<1>2. CASE input[r].op.does # "key"
  BY <1>2 DEF InsertKey, StoreOK
<1>3. QED
  BY <1>1, <1>2

\* Rows and histories: a handler changes the keys only.
LEMMA HandleStore ==
  ASSUME StoreOK, RequestOK, NEW r \in Req, pc[r] = "work" => Allowed(r), Handle(r)
  PROVE  StoreOK'
<1> USE DEF unserved, world
<1>1. CASE NoToken(r)
  BY <1>1 DEF NoToken, StoreOK
<1>2. CASE KeyRows(r)
  BY <1>2 DEF KeyRows, StoreOK
<1>3. CASE KeyRole(r)
  BY <1>3 DEF KeyRole, StoreOK
<1>4. CASE DevUser(r)
  BY <1>4 DEF DevUser, StoreOK
<1>5. CASE DevRole(r)
  BY <1>5 DEF DevRole, StoreOK
<1>6. CASE ParseSession(r)
  BY <1>6 DEF ParseSession, StoreOK
<1>7. CASE SessionRole(r)
  BY <1>7 DEF SessionRole, StoreOK
<1>8. CASE Guard(r)
  BY <1>8 DEF Guard, StoreOK
<1>9. CASE Commit(r)
  BY <1>9, KeyInserted DEF Commit
<1>10. CASE CommitUnseen(r)
  BY <1>10, KeyInserted DEF CommitUnseen
<1>11. CASE RollBack(r)
  BY <1>11 DEF RollBack, StoreOK
<1>12. CASE ReportFailure(r)
  BY <1>12 DEF ReportFailure, StoreOK
<1>13. CASE Connect(r)
  BY <1>13 DEF Connect, StoreOK
<1>14. CASE VerifyReachability(r)
  BY <1>14 DEF VerifyReachability, StoreOK
<1>15. CASE CallProxmox(r)
  BY <1>15 DEF CallProxmox, StoreOK
<1>16. CASE ProxmoxAnswers(r)
  BY <1>16 DEF ProxmoxAnswers, StoreOK
<1>17. CASE ProxmoxFails(r)
  BY <1>17 DEF ProxmoxFails, StoreOK
<1>18. CASE StartListing(r)
  BY <1>18 DEF StartListing, StoreOK
<1>19. CASE ListNext(r)
  BY <1>19 DEF ListNext, StoreOK
<1>20. CASE EndListing(r)
  BY <1>20 DEF EndListing, StoreOK
<1>21. CASE InsertAudit(r)
  BY <1>21 DEF InsertAudit, StoreOK
<1>22. CASE Answer(r)
  BY <1>22 DEF Answer, StoreOK
<1>23. QED
  BY <1>1, <1>2, <1>3, <1>4, <1>5, <1>6, <1>7, <1>8, <1>9, <1>10, <1>11, <1>12, <1>13,
     <1>14, <1>15, <1>16, <1>17, <1>18, <1>19, <1>20, <1>21, <1>22
  DEF Handle

\* The calls for an order of the nodes are calls.
LEMMA CallsOfType ==
  ASSUME NEW scope, IsFiniteSet(scope), scope \subseteq Node,
         NEW order \in Bijection(1..Cardinality(scope), scope)
  PROVE  CallsOf(order) \in Seq(Call)
<1>1. Cardinality(scope) \in Nat
  BY FS_CardinalityType
<1>2. order \in [1..Cardinality(scope) -> scope]
  BY DEF Bijection, Injection
<1>3. order \in Seq(scope) /\ Len(order) = Cardinality(scope)
  BY <1>1, <1>2
<1>4. \A i \in 1..(2 * Len(order)) : (i + 1) \div 2 \in 1..Len(order)
  BY <1>1, <1>3
<1>5. \A i \in 1..(2 * Len(order)) : order[(i + 1) \div 2] \in Node
  BY <1>2, <1>3, <1>4
<1>6. CallsOf(order) \in [1..(2 * Len(order)) -> Call]
  BY <1>5 DEF CallsOf, Call
<1>7. 2 * Len(order) \in Nat
  BY <1>1, <1>3
<1>8. QED
  BY <1>6, <1>7

\* ListNodes plans calls to nodes of the cluster.
LEMMA ListNodesType ==
  ASSUME ClusterTypeOK, NEW r \in Req, ListNodes(r)
  PROVE  ClusterTypeOK'
<1>0. PICK scope \in {Node} \cup {{n} : n \in Node} :
         \E order \in Bijection(1..Cardinality(scope), scope) :
            listing' = [listing EXCEPT ![r] = [scope |-> scope, calls |-> CallsOf(order),
                                               found |-> [g \in Guest |-> 0]]]
  BY DEF ListNodes
<1>1. PICK order \in Bijection(1..Cardinality(scope), scope) :
         listing' = [listing EXCEPT ![r] = [scope |-> scope, calls |-> CallsOf(order),
                                            found |-> [g \in Guest |-> 0]]]
  BY <1>0
<1>2. scope \subseteq Node /\ IsFiniteSet(scope)
  BY ClusterAssumption, FS_Singleton
<1>3. CallsOf(order) \in Seq(Call)
  BY <1>2, CallsOfType
<1>4. listing' \in [Req -> Listings]
  BY <1>1, <1>2, <1>3 DEF ClusterTypeOK, Listings
<1>5. QED
  BY <1>4 DEF ClusterTypeOK, ListNodes

\* One ListQemu or ListLxc uses up a call and counts the guests it returns.
LEMMA ListGuestsType ==
  ASSUME ClusterTypeOK, NEW r \in Req, ListGuests(r)
  PROVE  ClusterTypeOK'
<1> DEFINE l == listing[r]
           found == [g \in Guest |-> IF g \in GuestsAt(Head(l.calls)) THEN l.found[g] + 1
                                                                      ELSE l.found[g]]
<1>1. l.scope \in SUBSET Node /\ l.calls \in Seq(Call) /\ l.found \in [Guest -> Nat]
  BY DEF ClusterTypeOK, Listings
<1>2. Tail(l.calls) \in Seq(Call)
  BY <1>1 DEF ListGuests
<1>3. found \in [Guest -> Nat]
  BY <1>1
<1>4. listing' = [listing EXCEPT ![r] = [l EXCEPT !.calls = Tail(l.calls), !.found = found]]
  BY DEF ListGuests
<1>5. [l EXCEPT !.calls = Tail(l.calls), !.found = found] \in Listings
  BY <1>1, <1>2, <1>3 DEF Listings, ClusterTypeOK
<1>6. listing' \in [Req -> Listings]
  BY <1>4, <1>5 DEF ClusterTypeOK
<1>7. QED
  BY <1>6 DEF ClusterTypeOK, ListGuests

\* A handler keeps the types of the calls to Proxmox.
LEMMA HandleCluster ==
  ASSUME ClusterTypeOK, NEW r \in Req, Handle(r)
  PROVE  ClusterTypeOK'
<1> USE DEF unserved
<1>1. CASE CallProxmox(r)
  BY <1>1 DEF CallProxmox, SendPost, ClusterTypeOK
<1>2. CASE StartListing(r)
  <2>1. CASE ListNodes(r)
    BY <2>1, ListNodesType
  <2>2. CASE UNCHANGED clusterVars
    BY <2>2 DEF clusterVars, ClusterTypeOK
  <2>3. QED
    BY <1>2, <2>1, <2>2 DEF StartListing
<1>3. CASE ListNext(r)
  <2>1. CASE ListGuests(r)
    BY <2>1, ListGuestsType
  <2>2. CASE UNCHANGED clusterVars
    BY <2>2 DEF clusterVars, ClusterTypeOK
  <2>3. QED
    BY <1>3, <2>1, <2>2 DEF ListNext
<1>4. CASE UNCHANGED clusterVars
  BY <1>4 DEF clusterVars, ClusterTypeOK
<1>5. QED
  BY <1>1, <1>2, <1>3, <1>4 DEF Handle, NoToken, KeyRows, KeyRole, DevUser, DevRole,
                                ParseSession, SessionRole, Guard, Commit, CommitUnseen,
                                RollBack, ReportFailure, Connect, VerifyReachability,
                                ProxmoxAnswers, ProxmoxFails, EndListing, InsertAudit,
                                Answer

-----------------------------------------------------------------------------
(* One request at a time.                                                  *)

\* Nothing of a request changes.
Same(q) ==
    /\ pc'[q] = pc[q] /\ input'[q] = input[q] /\ ctx'[q] = ctx[q]
    /\ written'[q] = written[q] /\ reply'[q] = reply[q] /\ hit'[q] = hit[q]
    /\ held'[q] = held[q] /\ post'[q] = post[q]
    /\ q \in committed' <=> q \in committed
    /\ q \in audit' <=> q \in audit

\* A handler leaves the other requests and the memberships alone.
LEMMA HandleSame ==
  ASSUME TypeOK, NEW r \in Req, NEW q \in Req \ {r}, Handle(r)
  PROVE  Same(q) /\ role' = role
<1> USE DEF unserved, clusterVars, world, GoTo, Return, Refuse, Same
<1>1. CASE NoToken(r)
  BY <1>1 DEF NoToken, TypeOK, ClusterTypeOK, Works, Fails, Event
<1>2. CASE KeyRows(r)
  BY <1>2 DEF KeyRows, TypeOK, ClusterTypeOK, Works, Fails, Event
<1>3. CASE KeyRole(r)
  BY <1>3 DEF KeyRole, TypeOK, ClusterTypeOK, Works, Fails, Event, SetContext
<1>4. CASE DevUser(r)
  BY <1>4 DEF DevUser, TypeOK, ClusterTypeOK, Works, Fails, Event, SetContext
<1>5. CASE DevRole(r)
  BY <1>5 DEF DevRole, TypeOK, ClusterTypeOK, Works, Fails, Event, SetContext
<1>6. CASE ParseSession(r)
  BY <1>6 DEF ParseSession, TypeOK, ClusterTypeOK, Works, Fails, Event, SetContext
<1>7. CASE SessionRole(r)
  BY <1>7 DEF SessionRole, TypeOK, ClusterTypeOK, Works, Fails, Event, SetContext
<1>8. CASE Guard(r)
  BY <1>8 DEF Guard, TypeOK, ClusterTypeOK, Works, Fails, Event
<1>9. CASE Commit(r)
  BY <1>9 DEF Commit, TypeOK, ClusterTypeOK, Works, Fails, Event
<1>10. CASE CommitUnseen(r)
  BY <1>10 DEF CommitUnseen, TypeOK, ClusterTypeOK, Works, Fails, Event
<1>11. CASE RollBack(r)
  BY <1>11 DEF RollBack, TypeOK, ClusterTypeOK, Works, Fails, Event
<1>12. CASE ReportFailure(r)
  BY <1>12 DEF ReportFailure, TypeOK, ClusterTypeOK, Works, Fails, Event
<1>13. CASE Connect(r)
  BY <1>13 DEF Connect, TypeOK, ClusterTypeOK, Works, Fails, Event
<1>14. CASE VerifyReachability(r)
  BY <1>14 DEF VerifyReachability, TypeOK, ClusterTypeOK, Works, Fails, Event
<1>15. CASE CallProxmox(r)
  BY <1>15 DEF CallProxmox, TypeOK, ClusterTypeOK, Works, Fails, Event, SendPost
<1>16. CASE ProxmoxAnswers(r)
  BY <1>16 DEF ProxmoxAnswers, TypeOK, ClusterTypeOK, Works, Fails, Event
<1>17. CASE ProxmoxFails(r)
  BY <1>17 DEF ProxmoxFails, TypeOK, ClusterTypeOK, Works, Fails, Event
<1>18. CASE StartListing(r)
  BY <1>18 DEF StartListing, TypeOK, ClusterTypeOK, Works, Fails, Event, ListNodes
<1>19. CASE ListNext(r)
  BY <1>19 DEF ListNext, TypeOK, ClusterTypeOK, Works, Fails, Event, ListGuests
<1>20. CASE EndListing(r)
  BY <1>20 DEF EndListing, TypeOK, ClusterTypeOK, Works, Fails, Event
<1>21. CASE InsertAudit(r)
  BY <1>21 DEF InsertAudit, TypeOK, ClusterTypeOK, Works, Fails, Event
<1>22. CASE Answer(r)
  BY <1>22 DEF Answer, TypeOK, ClusterTypeOK, Works, Fails, Event
<1>23. QED
  BY <1>1, <1>2, <1>3, <1>4, <1>5, <1>6, <1>7, <1>8, <1>9, <1>10, <1>11, <1>12, <1>13,
     <1>14, <1>15, <1>16, <1>17, <1>18, <1>19, <1>20, <1>21, <1>22
  DEF Handle

\* AnsweredOnce, for one request.
Answered(r) ==
    pc[r] = "over" =>
        \/ written[r] = 1
        \/ written[r] = 0 /\ (reply[r] = "none" \/ input[r].cred \in KeyId)
        \/ written[r] = 2 /\ input[r].cred = "session" /\ r \notin Done

\* What is known of one request.
Own(r) == Progress(r) /\ Faults(r) /\ SigningIn(r) /\ RoleHeld(r) /\ Answered(r)

\* What is known of a request stays while nothing of it changes.
LEMMA SameKeepsOwn ==
  ASSUME NEW q \in Req, Same(q), role' = role, Own(q)
  PROVE  Own(q)'
<1>1. q \in Done' <=> q \in Done
  BY DEF Same, Done
<1>2. Progress(q)'
  BY <1>1 DEF Same, Own, Progress
<1>3. Faults(q)'
  BY <1>1 DEF Same, Own, Faults
<1>4. SigningIn(q)'
  BY <1>1 DEF Same, Own, SigningIn, IsPlatformToken, Started
<1>5. RoleHeld(q)'
  BY <1>1 DEF Same, Own, RoleHeld, Allowed, ByMembership, InProgress, Started
<1>6. Answered(q)'
  BY <1>1 DEF Same, Own, Answered
<1>7. QED
  BY <1>2, <1>3, <1>4, <1>5, <1>6 DEF Own

\* Effect, entry and answer of a request come in their order.
LEMMA HandleProgress ==
  ASSUME TypeOK, NEW r \in Req, Own(r), Handle(r)
  PROVE  Progress(r)'
<1> USE DEF Own, Progress, Done, Effectless, Unserved, Served, GoTo, Return, Refuse,
            unserved, clusterVars, TypeOK, ClusterTypeOK
<1>1. CASE NoToken(r)
  BY <1>1 DEF NoToken
<1>2. CASE KeyRows(r)
  BY <1>2 DEF KeyRows
<1>3. CASE KeyRole(r)
  BY <1>3 DEF KeyRole
<1>4. CASE DevUser(r)
  BY <1>4 DEF DevUser
<1>5. CASE DevRole(r)
  BY <1>5 DEF DevRole
<1>6. CASE ParseSession(r)
  BY <1>6 DEF ParseSession
<1>7. CASE SessionRole(r)
  BY <1>7 DEF SessionRole
<1>8. CASE Guard(r)
  BY <1>8 DEF Guard, FirstPlace
<1>9. CASE Commit(r)
  BY <1>9 DEF Commit, AfterEffect
<1>10. CASE CommitUnseen(r)
  BY <1>10 DEF CommitUnseen
<1>11. CASE RollBack(r)
  BY <1>11 DEF RollBack
<1>12. CASE ReportFailure(r)
  BY <1>12 DEF ReportFailure
<1>13. CASE Connect(r)
  BY <1>13 DEF Connect
<1>14. CASE VerifyReachability(r)
  BY <1>14 DEF VerifyReachability
<1>15. CASE CallProxmox(r)
  BY <1>15 DEF CallProxmox, SendPost
<1>16. CASE ProxmoxAnswers(r)
  BY <1>16 DEF ProxmoxAnswers
<1>17. CASE ProxmoxFails(r)
  BY <1>17 DEF ProxmoxFails
<1>18. CASE StartListing(r)
  BY <1>18 DEF StartListing, ListNodes
<1>19. CASE ListNext(r)
  BY <1>19 DEF ListNext, ListGuests
<1>20. CASE EndListing(r)
  BY <1>20 DEF EndListing
<1>21. CASE InsertAudit(r)
  BY <1>21 DEF InsertAudit
<1>22. CASE Answer(r)
  BY <1>22 DEF Answer
<1>23. QED
  BY <1>1, <1>2, <1>3, <1>4, <1>5, <1>6, <1>7, <1>8, <1>9, <1>10, <1>11, <1>12, <1>13,
     <1>14, <1>15, <1>16, <1>17, <1>18, <1>19, <1>20, <1>21, <1>22
  DEF Handle

\* What a step does to the request itself.
LEMMA RefuseOwn ==
  ASSUME TypeOK, NEW r \in Req, NEW n \in Nat, Refuse(r, n)
  PROVE  /\ pc'[r] = "over" /\ written'[r] = written[r] + n
         /\ reply'[r] = IF n = 0 THEN "empty" ELSE "error"
  BY DEF TypeOK, Refuse, Return

\* A statement that fails leaves a trace.
LEMMA FailsOwn ==
  ASSUME TypeOK, NEW r \in Req, Fails(r)
  PROVE  hit'[r] # {}
<1>1. CASE "disconnect" \in hit[r] /\ hit' = hit
  BY <1>1
<1>2. CASE hit' = [hit EXCEPT ![r] = @ \cup {"db"}]
  <2>1. "db" \in hit'[r]
    BY <1>2 DEF TypeOK
  <2>2. QED
    BY <2>1
<1>3. QED
  BY <1>1, <1>2 DEF Fails

\* Sign-in and guards have no effect.
LEMMA UnservedStarted ==
  ASSUME NEW r \in Req, Own(r), pc[r] \in Unserved \cup {"serve"},
         UNCHANGED <<clusterVars, committed>>
  PROVE  ~Started(r)'
  BY DEF Own, Progress, Unserved, Started, Effectless, Served, clusterVars

\* Every request is for a handler.
LEMMA InputOwn ==
  ASSUME TypeOK, NEW r \in Req
  PROVE  input[r].op \in Op
  BY DEF TypeOK, Input

\* The context is what sign-in puts into it.
LEMMA ContextOwn ==
  ASSUME TypeOK, NEW r \in Req, NEW org, NEW rl, NEW plat, SetContext(r, org, rl, plat)
  PROVE  /\ ctx'[r].plat = plat /\ ctx'[r].org = org
         /\ ctx'[r].role = IF org = NoOrg THEN "none" ELSE rl
  BY DEF TypeOK, SetContext

\* Only a fault keeps "ok" or an entry from what is done.
LEMMA HandleFaults ==
  ASSUME TypeOK, NEW r \in Req, Own(r), Handle(r)
  PROVE  Faults(r)'
<1> USE DEF Own, Progress, Faults, Done, Effectless, Unserved, Served, GoTo, Return,
            Refuse, unserved, clusterVars, TypeOK, ClusterTypeOK, Works, Fails, Event
<1>1. CASE NoToken(r)
  BY <1>1 DEF NoToken
<1>2. CASE KeyRows(r)
  BY <1>2 DEF KeyRows
<1>3. CASE KeyRole(r)
  BY <1>3 DEF KeyRole
<1>4. CASE DevUser(r)
  BY <1>4 DEF DevUser
<1>5. CASE DevRole(r)
  BY <1>5 DEF DevRole
<1>6. CASE ParseSession(r)
  BY <1>6 DEF ParseSession
<1>7. CASE SessionRole(r)
  BY <1>7 DEF SessionRole
<1>8. CASE Guard(r)
  BY <1>8 DEF Guard, FirstPlace
<1>9. CASE Commit(r)
  BY <1>9 DEF Commit, AfterEffect
<1>10. CASE CommitUnseen(r)
  BY <1>10, FailsOwn DEF CommitUnseen
<1>11. CASE RollBack(r)
  BY <1>11 DEF RollBack
<1>12. CASE ReportFailure(r)
  BY <1>12 DEF ReportFailure
<1>13. CASE Connect(r)
  BY <1>13 DEF Connect
<1>14. CASE VerifyReachability(r)
  BY <1>14 DEF VerifyReachability
<1>15. CASE CallProxmox(r)
  BY <1>15 DEF CallProxmox, SendPost
<1>16. CASE ProxmoxAnswers(r)
  BY <1>16 DEF ProxmoxAnswers
<1>17. CASE ProxmoxFails(r)
  BY <1>17 DEF ProxmoxFails
<1>18. CASE StartListing(r)
  BY <1>18 DEF StartListing, ListNodes
<1>19. CASE ListNext(r)
  BY <1>19 DEF ListNext, ListGuests
<1>20. CASE EndListing(r)
  BY <1>20, HandlersApart, InputOwn DEF EndListing
<1>21. CASE InsertAudit(r)
  BY <1>21, FailsOwn DEF InsertAudit
<1>22. CASE Answer(r)
  BY <1>22 DEF Answer
<1>23. QED
  BY <1>1, <1>2, <1>3, <1>4, <1>5, <1>6, <1>7, <1>8, <1>9, <1>10, <1>11, <1>12, <1>13,
     <1>14, <1>15, <1>16, <1>17, <1>18, <1>19, <1>20, <1>21, <1>22
  DEF Handle

\* A request stays on its way of signing in; until it is over nothing is written.
LEMMA HandleSigning ==
  ASSUME TypeOK, NEW r \in Req, Own(r), Handle(r)
  PROVE  SigningIn(r)'
<1>1. CASE ParseSession(r)
  <2>1. /\ input[r].cred \in {"session", "platform"} /\ input' = input
        /\ written[r] = 0 /\ reply[r] = "open" /\ ~Started(r)'
    BY <1>1, UnservedStarted DEF ParseSession, Own, Progress, SigningIn, unserved,
                                 Unserved
  <2>2. CASE Refuse(r, 1) \/ Refuse(r, 2)
    BY <2>1, <2>2, RefuseOwn DEF SigningIn
  <2>3. ASSUME NEW org, SetContext(r, org, "none", IsPlatformToken(r)),
               GoTo(r, "role") \/ GoTo(r, "serve")
        PROVE  SigningIn(r)'
    <3>1. ctx'[r].plat = IsPlatformToken(r)
      BY <2>3, ContextOwn
    <3>2. pc'[r] \in {"role", "serve"} /\ written'[r] = 0 /\ reply'[r] = "open"
      BY <2>1, <2>3 DEF GoTo, TypeOK
    <3>3. QED
      BY <2>1, <3>1, <3>2 DEF SigningIn, IsPlatformToken
  <2>4. CASE SetContext(r, FirstOrg(Memberships), "none", FALSE) /\ ~IsPlatformToken(r)
    <3>1. SetContext(r, FirstOrg(Memberships), "none", IsPlatformToken(r))
      BY <2>4 DEF IsPlatformToken
    <3>2. QED
      BY <1>1, <2>2, <2>3, <3>1 DEF ParseSession
  <2>5. QED
    BY <1>1, <2>2, <2>3, <2>4 DEF ParseSession
<1>2. CASE SessionRole(r)
  <2>1. /\ input[r].cred \in {"session", "platform"} /\ input' = input
        /\ written[r] = 0 /\ reply[r] = "open" /\ ~Started(r)'
    BY <1>2, UnservedStarted DEF SessionRole, Own, Progress, SigningIn, unserved, Unserved
  <2>2. CASE Refuse(r, 2)
    BY <2>1, <2>2, RefuseOwn DEF SigningIn
  <2>3. CASE GoTo(r, "serve")
    BY <2>1, <2>3 DEF SigningIn, GoTo, TypeOK
  <2>4. QED
    BY <1>2, <2>2, <2>3 DEF SessionRole
<1> USE DEF Own, SigningIn, Unserved, Served, IsPlatformToken, GoTo, Return, Refuse,
            unserved, clusterVars, TypeOK, ClusterTypeOK
<1>3. CASE NoToken(r)
  BY <1>3 DEF NoToken
<1>4. CASE KeyRows(r)
  BY <1>4 DEF KeyRows, KeyId
<1>5. CASE KeyRole(r)
  BY <1>5 DEF KeyRole, SetContext
<1>6. CASE DevUser(r)
  BY <1>6 DEF DevUser, SetContext
<1>7. CASE DevRole(r)
  BY <1>7 DEF DevRole, SetContext
<1>8. CASE Guard(r)
  BY <1>8 DEF Guard, FirstPlace
<1>9. CASE Commit(r)
  BY <1>9 DEF Commit, AfterEffect
<1>10. CASE CommitUnseen(r)
  BY <1>10 DEF CommitUnseen
<1>11. CASE RollBack(r)
  BY <1>11 DEF RollBack
<1>12. CASE ReportFailure(r)
  BY <1>12 DEF ReportFailure
<1>13. CASE Connect(r)
  BY <1>13 DEF Connect
<1>14. CASE VerifyReachability(r)
  BY <1>14 DEF VerifyReachability
<1>15. CASE CallProxmox(r)
  BY <1>15 DEF CallProxmox
<1>16. CASE ProxmoxAnswers(r)
  BY <1>16 DEF ProxmoxAnswers
<1>17. CASE ProxmoxFails(r)
  BY <1>17 DEF ProxmoxFails
<1>18. CASE StartListing(r)
  BY <1>18 DEF StartListing
<1>19. CASE ListNext(r)
  BY <1>19 DEF ListNext
<1>20. CASE EndListing(r)
  BY <1>20 DEF EndListing
<1>21. CASE InsertAudit(r)
  BY <1>21 DEF InsertAudit
<1>22. CASE Answer(r)
  BY <1>22 DEF Answer
<1>23. QED
  BY <1>1, <1>2, <1>3, <1>4, <1>5, <1>6, <1>7, <1>8, <1>9, <1>10, <1>11, <1>12, <1>13,
     <1>14, <1>15, <1>16, <1>17, <1>18, <1>19, <1>20, <1>21, <1>22
  DEF Handle

\* Bodies are counted: one, or none for a key, or two for a session that is refused.
LEMMA HandleAnswered ==
  ASSUME TypeOK, NEW r \in Req, Own(r), Handle(r)
  PROVE  Answered(r)'
<1>1. CASE KeyRole(r)
  <2>1. written[r] = 0 /\ input[r].cred \in KeyId /\ input' = input
    BY <1>1 DEF KeyRole, Own, SigningIn, unserved
  <2>2. CASE Refuse(r, 0)
    BY <2>1, <2>2, RefuseOwn DEF Answered
  <2>3. CASE GoTo(r, "serve")
    BY <2>3 DEF Answered, GoTo, TypeOK
  <2>4. QED
    BY <1>1, <2>2, <2>3 DEF KeyRole
<1>2. CASE ParseSession(r)
  <2>1. written[r] = 0 /\ r \notin Done' /\ input' = input
    BY <1>2 DEF ParseSession, Own, Progress, SigningIn, Effectless, Unserved, Done,
                unserved, clusterVars
  <2>2. CASE Refuse(r, 1)
    BY <2>1, <2>2, RefuseOwn DEF Answered
  <2>3. CASE Refuse(r, 2) /\ ~IsPlatformToken(r)
    <3>1. input[r].cred = "session"
      BY <1>2, <2>3 DEF ParseSession, IsPlatformToken
    <3>2. QED
      BY <2>1, <2>3, <3>1, RefuseOwn DEF Answered
  <2>4. CASE GoTo(r, "serve") \/ GoTo(r, "role")
    BY <2>4 DEF Answered, GoTo, TypeOK
  <2>5. QED
    BY <1>2, <2>2, <2>3, <2>4 DEF ParseSession
<1>3. CASE SessionRole(r)
  <2>1. written[r] = 0 /\ r \notin Done' /\ input' = input
    BY <1>3 DEF SessionRole, Own, Progress, SigningIn, Effectless, Unserved, Done,
                unserved, clusterVars
  <2>2. CASE Refuse(r, 2) /\ ~ctx[r].plat
    <3>1. input[r].cred = "session"
      BY <1>3, <2>2 DEF SessionRole, Own, SigningIn, IsPlatformToken
    <3>2. QED
      BY <2>1, <2>2, <3>1, RefuseOwn DEF Answered
  <2>3. CASE GoTo(r, "serve")
    BY <2>3 DEF Answered, GoTo, TypeOK
  <2>4. QED
    BY <1>3, <2>2, <2>3 DEF SessionRole
<1> USE DEF Own, Progress, SigningIn, Answered, Done, Effectless, Unserved, Served,
            IsPlatformToken, GoTo, Return, Refuse, unserved, clusterVars, TypeOK,
            ClusterTypeOK
<1>4. CASE NoToken(r)
  BY <1>4 DEF NoToken
<1>5. CASE KeyRows(r)
  BY <1>5 DEF KeyRows
<1>6. CASE DevUser(r)
  BY <1>6 DEF DevUser
<1>7. CASE DevRole(r)
  BY <1>7 DEF DevRole
<1>8. CASE Guard(r)
  BY <1>8 DEF Guard, FirstPlace
<1>9. CASE Commit(r)
  BY <1>9 DEF Commit, AfterEffect
<1>10. CASE CommitUnseen(r)
  BY <1>10 DEF CommitUnseen
<1>11. CASE RollBack(r)
  BY <1>11 DEF RollBack
<1>12. CASE ReportFailure(r)
  BY <1>12 DEF ReportFailure
<1>13. CASE Connect(r)
  BY <1>13 DEF Connect
<1>14. CASE VerifyReachability(r)
  BY <1>14 DEF VerifyReachability
<1>15. CASE CallProxmox(r)
  BY <1>15 DEF CallProxmox
<1>16. CASE ProxmoxAnswers(r)
  BY <1>16 DEF ProxmoxAnswers
<1>17. CASE ProxmoxFails(r)
  BY <1>17 DEF ProxmoxFails
<1>18. CASE StartListing(r)
  BY <1>18 DEF StartListing
<1>19. CASE ListNext(r)
  BY <1>19 DEF ListNext
<1>20. CASE EndListing(r)
  BY <1>20 DEF EndListing
<1>21. CASE InsertAudit(r)
  BY <1>21 DEF InsertAudit
<1>22. CASE Answer(r)
  BY <1>22 DEF Answer
<1>23. QED
  BY <1>1, <1>2, <1>3, <1>4, <1>5, <1>6, <1>7, <1>8, <1>9, <1>10, <1>11, <1>12, <1>13,
     <1>14, <1>15, <1>16, <1>17, <1>18, <1>19, <1>20, <1>21, <1>22
  DEF Handle

\* A request that is handled has arrived and is not over; memberships, their
\* history and what was sent stay.
LEMMA HandleStarts ==
  ASSUME TypeOK, NEW r \in Req, Own(r), Handle(r)
  PROVE  /\ pc[r] \in (Unserved \cup Served) \ {"new"} /\ reply[r] = "open"
         /\ UNCHANGED <<role, held, input>>
<1> USE DEF unserved, world, Unserved, Served, Own, Progress
<1>1. CASE NoToken(r)
  BY <1>1 DEF NoToken
<1>2. CASE KeyRows(r)
  BY <1>2 DEF KeyRows
<1>3. CASE KeyRole(r)
  BY <1>3 DEF KeyRole
<1>4. CASE DevUser(r)
  BY <1>4 DEF DevUser
<1>5. CASE DevRole(r)
  BY <1>5 DEF DevRole
<1>6. CASE ParseSession(r)
  BY <1>6 DEF ParseSession
<1>7. CASE SessionRole(r)
  BY <1>7 DEF SessionRole
<1>8. CASE Guard(r)
  BY <1>8 DEF Guard
<1>9. CASE Commit(r)
  BY <1>9 DEF Commit
<1>10. CASE CommitUnseen(r)
  BY <1>10 DEF CommitUnseen
<1>11. CASE RollBack(r)
  BY <1>11 DEF RollBack
<1>12. CASE ReportFailure(r)
  BY <1>12 DEF ReportFailure
<1>13. CASE Connect(r)
  BY <1>13 DEF Connect
<1>14. CASE VerifyReachability(r)
  BY <1>14 DEF VerifyReachability
<1>15. CASE CallProxmox(r)
  BY <1>15 DEF CallProxmox
<1>16. CASE ProxmoxAnswers(r)
  BY <1>16 DEF ProxmoxAnswers
<1>17. CASE ProxmoxFails(r)
  BY <1>17 DEF ProxmoxFails
<1>18. CASE StartListing(r)
  BY <1>18 DEF StartListing
<1>19. CASE ListNext(r)
  BY <1>19 DEF ListNext
<1>20. CASE EndListing(r)
  BY <1>20 DEF EndListing
<1>21. CASE InsertAudit(r)
  BY <1>21 DEF InsertAudit
<1>22. CASE Answer(r)
  BY <1>22 DEF Answer
<1>23. QED
  BY <1>1, <1>2, <1>3, <1>4, <1>5, <1>6, <1>7, <1>8, <1>9, <1>10, <1>11, <1>12, <1>13,
     <1>14, <1>15, <1>16, <1>17, <1>18, <1>19, <1>20, <1>21, <1>22
  DEF Handle

\* Who is served, or was, keeps the context it was served with.
LEMMA ServedRole ==
  ASSUME NEW r \in Req, Own(r), pc[r] \in Served \ {"serve"},
         UNCHANGED <<role, held, input, ctx>>
  PROVE  RoleHeld(r)'
  BY DEF Own, RoleHeld, ByMembership, InProgress, Allowed, Served, Started

\* Who is refused before it is served owes nothing.
LEMMA RefusedRole ==
  ASSUME NEW r \in Req, pc'[r] = "over", ~Started(r)'
  PROVE  RoleHeld(r)'
  BY DEF RoleHeld, InProgress, Served

\* Signing in goes on without a role yet.
LEMMA UnservedRole ==
  ASSUME NEW r \in Req, Own(r), pc[r] \in Unserved \ {"new"}, pc'[r] \in Unserved,
         ~Started(r)',
         UNCHANGED <<role, held>>
  PROVE  RoleHeld(r)'
  BY DEF Own, RoleHeld, InProgress, Served, Unserved

\* Signing in ends with a role the user has.
LEMMA SignedInRole ==
  ASSUME TypeOK, NEW r \in Req, Own(r), pc[r] \in Unserved \ {"new"}, pc'[r] = "serve",
         ~Started(r)',
         UNCHANGED <<role, held, input>>,
         ByMembership(r)' => ctx'[r].org \in Org /\ ctx'[r].role = role[ctx'[r].org]
                             /\ ctx'[r].role # "none"
  PROVE  RoleHeld(r)'
<1>1. \A o \in Org : role[o] \in held[r][o]
  BY DEF Own, RoleHeld, InProgress, Unserved
<1>2. QED
  BY <1>1 DEF RoleHeld, InProgress, Served, ByMembership

\* Where a request goes it is.
LEMMA GoToOwn ==
  ASSUME TypeOK, NEW r \in Req, NEW place, GoTo(r, place)
  PROVE  pc'[r] = place
  BY DEF TypeOK, GoTo

\* The role a request is served with is one the user has had meanwhile.
LEMMA HandleRoleHeld ==
  ASSUME TypeOK, NEW r \in Req, Own(r), Handle(r)
  PROVE  RoleHeld(r)'
<1>0. /\ pc[r] \in (Unserved \cup Served) \ {"new"}
      /\ UNCHANGED <<role, held, input>>
      /\ input[r].hdr \in Org \cup {NoOrg} /\ ctx[r].org \in Org \cup {NoOrg}
  BY HandleStarts DEF TypeOK, Input, Context
<1>00. Memberships # {} => FirstOrg(Memberships) \in Org
  BY FirstOrgType DEF Memberships
<1>1. CASE NoToken(r)
  BY <1>1, UnservedStarted, RefuseOwn, RefusedRole DEF NoToken, unserved, Unserved
<1>2. CASE KeyRows(r)
  <2>1. ~Started(r)'
    BY <1>2, UnservedStarted DEF KeyRows, unserved, Unserved
  <2>2. CASE \E n \in {0, 1} : Refuse(r, n)
    BY <2>1, <2>2, RefuseOwn, RefusedRole
  <2>3. CASE GoTo(r, "keyrole")
    BY <1>0, <1>2, <2>1, <2>3, GoToOwn, UnservedRole DEF KeyRows, Unserved
  <2>4. QED
    BY <1>2, <2>2, <2>3 DEF KeyRows
<1>3. CASE KeyRole(r)
  <2>1. ~Started(r)'
    BY <1>3, UnservedStarted DEF KeyRole, unserved, Unserved
  <2>2. CASE Refuse(r, 0)
    BY <2>1, <2>2, RefuseOwn, RefusedRole
  <2>3. CASE /\ SetContext(r, input[r].hdr, role[input[r].hdr], FALSE) /\ GoTo(r, "serve")
             /\ role[input[r].hdr] # "none"
    <3>1. ctx'[r].org = input[r].hdr
          /\ ctx'[r].role = IF input[r].hdr = NoOrg THEN "none" ELSE role[input[r].hdr]
      BY <2>3 DEF SetContext, TypeOK
    <3>2. ByMembership(r)' => ctx'[r].org \in Org /\ ctx'[r].role = role[ctx'[r].org]
                              /\ ctx'[r].role # "none"
      BY <1>0, <2>3, <3>1 DEF ByMembership
    <3>3. QED
      BY <1>0, <1>3, <2>1, <2>3, <3>2, GoToOwn, SignedInRole DEF KeyRole, Unserved
  <2>4. QED
    BY <1>3, <2>2, <2>3 DEF KeyRole
<1>4. CASE DevUser(r)
  <2>1. ~Started(r)'
    BY <1>4, UnservedStarted DEF DevUser, unserved, Unserved
  <2>2. CASE Refuse(r, 1)
    BY <2>1, <2>2, RefuseOwn, RefusedRole
  <2>3. CASE GoTo(r, "devrole")
    BY <1>0, <1>4, <2>1, <2>3, GoToOwn, UnservedRole DEF DevUser, Unserved
  <2>4. QED
    BY <1>4, <2>2, <2>3 DEF DevUser
<1>5. CASE DevRole(r)
  <2>1. ~Started(r)'
    BY <1>5, UnservedStarted DEF DevRole, unserved, Unserved
  <2>2. ~ByMembership(r)'
    BY <1>0, <1>5 DEF DevRole, Own, SigningIn, ByMembership
  <2>3. QED
    BY <1>0, <1>5, <2>1, <2>2, GoToOwn, SignedInRole DEF DevRole, Unserved
<1>6. CASE ParseSession(r)
  <2>1. ~Started(r)'
    BY <1>6, UnservedStarted DEF ParseSession, unserved, Unserved
  <2>2. CASE \E n \in {1, 2} : Refuse(r, n)
    BY <2>1, <2>2, RefuseOwn, RefusedRole
  <2>3. CASE GoTo(r, "role")
    BY <1>0, <1>6, <2>1, <2>3, GoToOwn, UnservedRole DEF ParseSession, Unserved
  <2>4. CASE SetContext(r, NoOrg, "none", IsPlatformToken(r)) /\ GoTo(r, "serve")
    <3>1. ~ByMembership(r)'
      BY <2>4, ContextOwn DEF ByMembership
    <3>2. QED
      BY <1>0, <1>6, <2>1, <2>4, <3>1, GoToOwn, SignedInRole DEF ParseSession, Unserved
  <2>5. QED
    BY <1>6, <2>2, <2>3, <2>4 DEF ParseSession
<1>7. CASE SessionRole(r)
  <2>1. ~Started(r)'
    BY <1>7, UnservedStarted DEF SessionRole, unserved, Unserved
  <2>2. CASE Refuse(r, 2)
    BY <2>1, <2>2, RefuseOwn, RefusedRole
  <2>3. CASE /\ SetContext(r, ctx[r].org, role[ctx[r].org], ctx[r].plat) /\ GoTo(r, "serve")
             /\ ctx[r].plat \/ role[ctx[r].org] # "none"
    <3>1. /\ ctx'[r].org = ctx[r].org /\ ctx'[r].plat = ctx[r].plat
          /\ ctx'[r].role = IF ctx[r].org = NoOrg THEN "none" ELSE role[ctx[r].org]
      BY <2>3, ContextOwn
    <3>2. ByMembership(r)' => ctx'[r].org \in Org /\ ctx'[r].role = role[ctx'[r].org]
                              /\ ctx'[r].role # "none"
      BY <1>0, <2>3, <3>1 DEF ByMembership
    <3>3. QED
      BY <1>0, <1>7, <2>1, <2>3, <3>2, GoToOwn, SignedInRole DEF SessionRole, Unserved
  <2>4. CASE ctx[r].plat /\ GoTo(r, "serve") /\ UNCHANGED ctx
    <3>1. ~ByMembership(r)'
      BY <2>4 DEF ByMembership
    <3>2. QED
      BY <1>0, <1>7, <2>1, <2>4, <3>1, GoToOwn, SignedInRole DEF SessionRole, Unserved
  <2>5. QED
    BY <1>7, <2>2, <2>3, <2>4 DEF SessionRole
<1>8. CASE Guard(r)
  <2>1. ~Started(r)'
    BY <1>8, UnservedStarted DEF Guard, unserved, Unserved
  <2>2. CASE Refuse(r, 1)
    BY <2>1, <2>2, RefuseOwn, RefusedRole
  <2>3. CASE Allowed(r) /\ GoTo(r, FirstPlace(input[r].op))
    <3>1. UNCHANGED <<role, held, input, ctx>> /\ pc[r] = "serve"
      BY <1>0, <1>8 DEF Guard
    <3>2. Allowed(r)'
      BY <2>3, <3>1 DEF Allowed
    <3>3. ByMembership(r)' => ctx'[r].role \in held'[r][ctx'[r].org] \ {"none"}
      BY <3>1 DEF Own, RoleHeld, ByMembership, Served
    <3>4. \A o \in Org : role'[o] \in held'[r][o]
      BY <3>1 DEF Own, RoleHeld, InProgress
    <3>5. QED
      BY <3>2, <3>3, <3>4 DEF RoleHeld
  <2>4. QED
    BY <1>8, <2>2, <2>3 DEF Guard
<1>9. CASE pc[r] \in Served \ {"serve"} /\ UNCHANGED ctx
  BY <1>0, <1>9, ServedRole
<1>10. QED
  BY <1>1, <1>2, <1>3, <1>4, <1>5, <1>6, <1>7, <1>8, <1>9
  DEF Handle, Served, Commit, CommitUnseen, RollBack, ReportFailure, Connect,
      VerifyReachability, CallProxmox, ProxmoxAnswers, ProxmoxFails, StartListing,
      ListNext, EndListing, InsertAudit, Answer

\* A step of a handler keeps what is known of its request.
LEMMA HandleOwn ==
  ASSUME TypeOK, NEW r \in Req, Own(r), Handle(r)
  PROVE  Own(r)'
  BY HandleProgress, HandleFaults, HandleSigning, HandleRoleHeld, HandleAnswered DEF Own

-----------------------------------------------------------------------------
(* The surroundings.                                                       *)

\* What is known of every request.
OwnAll == \A q \in Req : Own(q)

\* Arriving keeps the types.
LEMMA ArriveType ==
  ASSUME TypeOK, NEW r \in Req, Arrive(r)
  PROVE  TypeOK'
<1>1. ControlOK'
  BY GoToType, TypeParts DEF Arrive, Place, Unserved
<1>2. FateOK' /\ RequestOK' /\ ClusterTypeOK'
  BY TypeParts DEF Arrive, FateOK, RequestOK, ClusterTypeOK, clusterVars
<1>3. StoreOK'
  BY TypeParts DEF Arrive, StoreOK, world
<1>4. QED
  BY <1>1, <1>2, <1>3, TypeJoined

\* A request that arrives has done nothing, and the history of its roles begins.
LEMMA ArriveOwn ==
  ASSUME TypeOK, OwnAll, NEW r \in Req, Arrive(r)
  PROVE  OwnAll'
<1>1. ASSUME NEW q \in Req \ {r}
      PROVE  Own(q)'
  <2>1. Same(q) /\ role' = role
    BY DEF Arrive, GoTo, Same, TypeOK, clusterVars, world, ClusterTypeOK
  <2>2. QED
    BY <2>1, SameKeepsOwn DEF OwnAll
<1>2. /\ pc[r] = "new" /\ pc'[r] = "token" /\ reply'[r] = reply[r]
      /\ written'[r] = written[r]
      /\ UNCHANGED <<input, ctx, committed, audit, hit, post, role>>
      /\ \A o \in Org : role[o] \in held'[r][o]
  BY DEF Arrive, GoTo, TypeOK, clusterVars, world
<1>3. Progress(r)'
  BY <1>2 DEF OwnAll, Own, Progress, Effectless, Unserved, Served, Done
<1>4. Faults(r)'
  BY <1>2 DEF Faults
<1>5. SigningIn(r)' /\ Answered(r)'
  BY <1>2 DEF OwnAll, Own, Progress, SigningIn, Answered, Started
<1>6. ~Started(r)'
  BY <1>2 DEF OwnAll, Own, Progress, Started, Effectless, Unserved
<1>7. RoleHeld(r)'
  BY <1>2, <1>6 DEF RoleHeld, Served, InProgress
<1>8. QED
  BY <1>1, <1>3, <1>4, <1>5, <1>7 DEF OwnAll, Own

\* A change of a membership keeps the types.
LEMMA SetRoleType ==
  ASSUME TypeOK, NEW o \in Org, NEW rl \in Role, SetRole(o, rl)
  PROVE  TypeOK'
<1>1. FateOK'
  BY TypeParts, EventAssumption DEF SetRole, FateOK, Event
<1>2. ControlOK' /\ RequestOK' /\ ClusterTypeOK'
  BY TypeParts DEF SetRole, ControlOK, RequestOK, ClusterTypeOK, clusterVars, unasked
<1>3. StoreOK'
  BY TypeParts DEF SetRole, StoreOK
<1>4. QED
  BY <1>1, <1>2, <1>3, TypeJoined

\* It is remembered for every request in progress, and nothing is forgotten.
LEMMA SetRoleOwn ==
  ASSUME TypeOK, OwnAll, NEW o \in Org, NEW rl \in Role, SetRole(o, rl)
  PROVE  OwnAll' /\ \A q \in Req, p \in Org : held[q][p] \subseteq held'[q][p]
<1> SUFFICES ASSUME NEW q \in Req
             PROVE  Own(q)' /\ \A p \in Org : held[q][p] \subseteq held'[q][p]
  BY DEF OwnAll
<1>0. UNCHANGED <<pc, input, ctx, committed, audit, written, reply, hit, post>>
  BY DEF SetRole, unasked, clusterVars
<1>00. Own(q)
  BY DEF OwnAll
<1>1. held'[q] = IF InProgress(q) THEN [held[q] EXCEPT ![o] = @ \cup {rl}] ELSE held[q]
  BY DEF SetRole
<1>2. held[q] \in [Org -> SUBSET Role]
  BY DEF TypeOK
<1>3. \A p \in Org : held'[q][p] = IF InProgress(q) /\ p = o THEN held[q][p] \cup {rl}
                                                          ELSE held[q][p]
  BY <1>1, <1>2
<1>4. \A p \in Org : held[q][p] \subseteq held'[q][p]
  BY <1>3
<1>5. \A p \in Org : role'[p] = IF p = o THEN rl ELSE role[p]
  BY DEF SetRole, TypeOK
<1>6. InProgress(q)' => \A p \in Org : role'[p] \in held'[q][p]
  BY <1>0, <1>00, <1>3, <1>5 DEF Own, RoleHeld, InProgress
<1>7. ctx[q].org \in Org \cup {NoOrg}
  BY DEF TypeOK, Context
<1>8. RoleHeld(q)'
  BY <1>0, <1>00, <1>4, <1>6, <1>7 DEF Own, RoleHeld, ByMembership, Started, Allowed
<1>9. Progress(q)' /\ Faults(q)' /\ Answered(q)'
  BY <1>0, <1>00 DEF Own, Progress, Faults, Answered, Done
<1>10. SigningIn(q)'
  BY <1>0, <1>00 DEF Own, SigningIn, IsPlatformToken, Started
<1>11. QED
  BY <1>4, <1>8, <1>9, <1>10 DEF Own

\* The end of a key keeps the types.
LEMMA KeyEndsType ==
  ASSUME TypeOK, NEW k \in keys, KeyEnds(k)
  PROVE  TypeOK'
<1>1. FateOK'
  BY TypeParts, EventAssumption DEF KeyEnds, FateOK, Event
<1>2. ControlOK' /\ RequestOK' /\ ClusterTypeOK'
  BY TypeParts DEF KeyEnds, ControlOK, RequestOK, ClusterTypeOK, clusterVars, unasked
<1>3. StoreOK'
  BY TypeParts DEF KeyEnds, StoreOK
<1>4. QED
  BY <1>1, <1>2, <1>3, TypeJoined

\* It changes no request.
LEMMA KeyEndsOwn ==
  ASSUME OwnAll, NEW k \in keys, KeyEnds(k)
  PROVE  OwnAll'
  BY SameKeepsOwn DEF OwnAll, Same, KeyEnds, clusterVars, unasked

\* A step of Proxmox keeps the types.
LEMMA ClusterStepType ==
  ASSUME TypeOK, ClusterStep
  PROVE  TypeOK'
<1>1. FateOK'
  BY TypeParts, EventAssumption DEF ClusterStep, FateOK, Event
<1>2. ControlOK' /\ RequestOK' /\ StoreOK'
  BY TypeParts DEF ClusterStep, ControlOK, RequestOK, StoreOK, world, unasked
<1>3. ASSUME NEW r \in Req, HandlePost(r)
      PROVE  ClusterTypeOK'
  BY <1>3 DEF TypeOK, ClusterTypeOK, HandlePost
<1>4. ASSUME NEW g \in Guest, NEW n \in Node, Migrate(g, n)
      PROVE  ClusterTypeOK'
  BY <1>4 DEF TypeOK, ClusterTypeOK, Migrate
<1>5. QED
  BY <1>1, <1>2, <1>3, <1>4, TypeJoined DEF ClusterStep

\* A call that Proxmox executes or declines was sent by a handler past its guard.
LEMMA ClusterStepOwn ==
  ASSUME TypeOK, OwnAll, ClusterStep
  PROVE  OwnAll'
<1>0. UNCHANGED <<role, pc, input, ctx, committed, audit, written, reply, hit, held>>
  BY DEF ClusterStep, world, unasked
<1>1. CASE \E g \in Guest, n \in Node : Migrate(g, n)
  <2>1. UNCHANGED post
    BY <1>1 DEF Migrate
  <2>2. QED
    BY <1>0, <2>1, SameKeepsOwn DEF OwnAll, Same
<1>2. ASSUME NEW r \in Req, HandlePost(r)
      PROVE  OwnAll'
  <2>1. ASSUME NEW q \in Req \ {r}
        PROVE  Own(q)'
    BY <1>0, <1>2, <2>1, SameKeepsOwn DEF OwnAll, Same, HandlePost, TypeOK, ClusterTypeOK
  <2>2. post[r] = "sent" /\ post'[r] \in {"executed", "declined"} /\ Own(r)
    BY <1>2 DEF HandlePost, TypeOK, ClusterTypeOK, OwnAll
  <2>3. Progress(r)'
    BY <1>0, <2>2 DEF Own, Progress, Done, Effectless, Unserved, Served
  <2>4. Faults(r)'
    BY <1>0, <2>2 DEF Own, Progress, Faults, Done
  <2>5. Started(r) /\ Started(r)'
    BY <2>2 DEF Started
  <2>6. SigningIn(r)'
    BY <1>0, <2>2, <2>5 DEF Own, SigningIn, IsPlatformToken
  <2>7. RoleHeld(r)'
    BY <1>0, <2>2, <2>5 DEF Own, RoleHeld, ByMembership, Allowed, InProgress
  <2>8. Answered(r)'
    BY <1>0, <2>2, <2>5 DEF Own, Answered, SigningIn
  <2>9. QED
    BY <2>1, <2>3, <2>4, <2>6, <2>7, <2>8 DEF OwnAll, Own
<1>3. QED
  BY <1>1, <1>2 DEF ClusterStep

\* The client going away keeps the types.
LEMMA DisconnectType ==
  ASSUME TypeOK, NEW r \in Req, Disconnect(r)
  PROVE  TypeOK'
<1>1. FateOK'
  BY TypeParts DEF Disconnect, FateOK
<1>2. ControlOK' /\ RequestOK' /\ ClusterTypeOK' /\ StoreOK'
  BY TypeParts DEF Disconnect, ControlOK, RequestOK, ClusterTypeOK, StoreOK, clusterVars,
                   unasked, world
<1>3. QED
  BY <1>1, <1>2, TypeJoined

\* It leaves a trace.
LEMMA DisconnectOwn ==
  ASSUME TypeOK, OwnAll, NEW r \in Req, Disconnect(r)
  PROVE  OwnAll' /\ \A q \in Req : hit[q] # {} => hit'[q] # {}
<1>0. UNCHANGED <<role, pc, input, ctx, committed, audit, written, reply, held, post>>
  BY DEF Disconnect, unasked, world, clusterVars
<1>1. ASSUME NEW q \in Req \ {r}
      PROVE  Own(q)' /\ hit'[q] = hit[q]
  <2>1. hit'[q] = hit[q]
    BY DEF Disconnect, TypeOK
  <2>2. QED
    BY <1>0, <2>1, SameKeepsOwn DEF OwnAll, Same
<1>2. "disconnect" \in hit'[r]
  BY DEF Disconnect, TypeOK
<1>3. Faults(r)'
  BY <1>0, <1>2 DEF OwnAll, Own, Faults
<1>4. Own(r)'
  BY <1>0, <1>3 DEF OwnAll, Own, Progress, SigningIn, RoleHeld, Answered, Done, Started,
                    IsPlatformToken, ByMembership, Allowed, InProgress
<1>5. hit'[r] # {}
  BY <1>2
<1>6. QED
  BY <1>1, <1>4, <1>5 DEF OwnAll

\* The end of the process keeps the types.
LEMMA TerminateType ==
  ASSUME TypeOK, Terminate
  PROVE  TypeOK'
<1>1. FateOK'
  BY TypeParts, EventAssumption DEF Terminate, FateOK, Event
<1>2. ControlOK'
  BY TypeParts DEF Terminate, ControlOK, Place, Ending
<1>3. RequestOK' /\ ClusterTypeOK' /\ StoreOK'
  BY TypeParts DEF Terminate, RequestOK, ClusterTypeOK, StoreOK, clusterVars, unserved,
                   world
<1>4. QED
  BY <1>1, <1>2, <1>3, TypeJoined

\* It gives up what is in progress, wherever that is.
LEMMA TerminateOwn ==
  ASSUME TypeOK, OwnAll, Terminate
  PROVE  OwnAll'
<1> SUFFICES ASSUME NEW q \in Req
             PROVE  Own(q)'
  BY DEF OwnAll
<1>0. UNCHANGED <<role, input, ctx, committed, audit, written, held, post>>
  BY DEF Terminate, unserved, world, clusterVars
<1>1. CASE ~InProgress(q)
  BY <1>0, <1>1, SameKeepsOwn DEF OwnAll, Same, Terminate, TypeOK
<1>2. CASE InProgress(q)
  <2>1. pc'[q] = "over" /\ reply'[q] = "none" /\ "terminated" \in hit'[q] /\ Own(q)
    BY <1>2 DEF Terminate, OwnAll
  <2>2. Progress(q)'
    BY <1>0, <1>2, <2>1 DEF Own, Progress, Done, InProgress, Effectless, Unserved, Served
  <2>3. Faults(q)'
    BY <1>0, <2>1 DEF Faults
  <2>4. SigningIn(q)'
    BY <1>0, <1>2, <2>1 DEF Own, SigningIn, InProgress, Started
  <2>5. RoleHeld(q)'
    BY <1>0, <1>2, <2>1 DEF Own, RoleHeld, InProgress, Started, ByMembership, Allowed,
                            Served
  <2>6. Answered(q)'
    BY <1>0, <1>2, <2>1 DEF Own, Answered, SigningIn, InProgress
  <2>7. QED
    BY <2>2, <2>3, <2>4, <2>5, <2>6 DEF Own
<1>3. QED
  BY <1>1, <1>2

-----------------------------------------------------------------------------
(* The inductive invariant.                                                *)

\* A handler keeps the types.
LEMMA HandleType ==
  ASSUME TypeOK, NEW r \in Req, Own(r), Handle(r)
  PROVE  TypeOK'
<1>1. pc[r] = "work" => Allowed(r)
  BY DEF Own, RoleHeld, Served
<1>2. QED
  BY <1>1, HandleControl, HandleFate, HandleRequest, HandleStore, HandleCluster,
     TypeParts, TypeJoined

\* A handler keeps what is known of all requests.
LEMMA HandleOwnAll ==
  ASSUME TypeOK, OwnAll, NEW r \in Req, Handle(r)
  PROVE  OwnAll'
<1>1. Own(r)'
  BY HandleOwn DEF OwnAll
<1>2. ASSUME NEW q \in Req \ {r}
      PROVE  Own(q)'
  BY HandleSame, SameKeepsOwn DEF OwnAll
<1>3. QED
  BY <1>1, <1>2 DEF OwnAll

\* Nobody presents a key too early.
KeysKnown == \A q \in Req : KeyKnown(q)

\* Nobody presents a key before the answer that hands it out, and that answer stays.
LEMMA NextKeepsKeyKnown ==
  ASSUME TypeOK, OwnAll, KeysKnown, Next
  PROVE  KeysKnown'
<1> SUFFICES ASSUME NEW q \in Req, pc'[q] # "new", input'[q].cred \in Req
             PROVE  reply'[input'[q].cred] = "ok"
  BY DEF KeysKnown, KeyKnown
<1> DEFINE c == input[q].cred
<1>1. CASE \E r \in Req : Handle(r)
  <2>1. PICK r \in Req : Handle(r)
    BY <1>1
  <2>2. pc[r] # "new" /\ reply[r] = "open" /\ input' = input
    BY <2>1, HandleStarts DEF OwnAll
  <2>3. c \in Req /\ pc[q] # "new"
    <3>1. CASE q = r
      BY <2>2, <3>1
    <3>2. CASE q # r
      BY <2>1, <2>2, <3>2, HandleSame DEF Same
    <3>3. QED
      BY <2>2, <3>1, <3>2
  <2>4. reply[c] = "ok"
    BY <2>3 DEF KeysKnown, KeyKnown
  <2>5. c # r
    BY <2>2, <2>4
  <2>6. reply'[c] = reply[c]
    BY <2>1, <2>3, <2>5, HandleSame DEF Same
  <2>7. QED
    BY <2>2, <2>4, <2>6
<1>2. CASE \E r \in Req : Arrive(r)
  <2>1. PICK r \in Req : Arrive(r)
    BY <1>2
  <2>2. UNCHANGED <<reply, input>> /\ (q # r => pc'[q] = pc[q])
    BY <2>1 DEF Arrive, GoTo, TypeOK
  <2>3. q = r => reply[c] = "ok"
    BY <2>1, <2>2 DEF Arrive, Presentable
  <2>4. QED
    BY <2>2, <2>3 DEF KeysKnown, KeyKnown
<1>3. CASE UNCHANGED <<pc, reply, input>>
  BY <1>3 DEF KeysKnown, KeyKnown
<1>4. CASE Terminate
  <2>1. input' = input /\ pc[q] # "new"
    BY <1>4 DEF Terminate, unserved, TypeOK, InProgress
  <2>2. c \in Req /\ reply[c] = "ok"
    BY <2>1 DEF KeysKnown, KeyKnown
  <2>3. pc[c] = "over"
    BY <2>2 DEF OwnAll, Own, Progress
  <2>4. QED
    BY <1>4, <2>1, <2>2, <2>3 DEF Terminate, InProgress
<1>5. QED
  BY <1>1, <1>2, <1>3, <1>4 DEF Next, SetRole, KeyEnds, ClusterStep, Disconnect, unasked

\* A key that fits is in the way of its own refusal.
LEMMA RefusedKey ==
  ASSUME TypeOK, NEW r \in Req, Own(r), Handle(r), reply'[r] = "empty",
         NEW k \in keys, input[r].cred = k.id, input[r].hdr = k.org
  PROVE  hit'[r] # {} \/ "none" \in held[r][k.org]
<1>0. reply[r] = "open" /\ k.org \in Org /\ k.org # NoOrg
  BY HandleStarts, OrgAssumption DEF TypeOK, Key
<1>1. CASE KeyRows(r)
  <2>1. SomeRowFits(r)
    BY DEF SomeRowFits, RowsFor, Fits
  <2>2. Fails(r)
    BY <1>0, <1>1, <2>1 DEF KeyRows, GoTo
  <2>3. QED
    BY <2>2, FailsOwn
<1>2. CASE KeyRole(r)
  <2>1. role[k.org] \in held[r][k.org]
    BY <1>0, <1>2 DEF KeyRole, Own, RoleHeld, InProgress
  <2>2. role[k.org] = "none" \/ Fails(r)
    BY <1>0, <1>2 DEF KeyRole, GoTo
  <2>3. QED
    BY <2>1, <2>2, FailsOwn
<1>3. CASE UNCHANGED reply \/ (\E n \in {1, 2} : Refuse(r, n)) \/ Return(r, "ok", 1)
  BY <1>0, <1>3, RefuseOwn DEF Return, TypeOK
<1>4. QED
  BY <1>1, <1>2, <1>3 DEF Handle, GoTo, NoToken, DevUser, DevRole, ParseSession,
                          SessionRole, Guard, Commit, CommitUnseen, RollBack,
                          ReportFailure, Connect, VerifyReachability, CallProxmox,
                          ProxmoxAnswers, ProxmoxFails, StartListing, ListNext,
                          EndListing, InsertAudit, Answer

\* Only a request at work inserts a key, and its answer is still open.
LEMMA NewKeys ==
  ASSUME TypeOK, NEW r \in Req, Handle(r)
  PROVE  \A k \in keys' \ keys : k.id = r /\ reply'[r] = reply[r]
<1>1. CASE Commit(r)
  BY <1>1 DEF Commit, InsertKey, GoTo
<1>2. CASE CommitUnseen(r)
  BY <1>2 DEF CommitUnseen, InsertKey, GoTo
<1>3. CASE keys' = keys
  BY <1>3
<1>4. QED
  BY <1>1, <1>2, <1>3 DEF Handle, unserved, world, NoToken, KeyRows, KeyRole, DevUser,
                          DevRole, ParseSession, SessionRole, Guard, RollBack,
                          ReportFailure, Connect, VerifyReachability, CallProxmox,
                          ProxmoxAnswers, ProxmoxFails, StartListing, ListNext,
                          EndListing, InsertAudit, Answer

\* A key is refused by its rows only when something befell it, or its membership.
LEMMA NextKeepsKeysSignIn ==
  ASSUME TypeOK, OwnAll, KeysKnown, KeysSignIn, Next
  PROVE  KeysSignIn'
<1> SUFFICES ASSUME NEW q \in Req, NEW k \in keys', input'[q].cred = k.id,
                    input'[q].hdr = k.org, reply'[q] = "empty"
             PROVE  hit'[q] # {} \/ "none" \in held'[q][k.org]
  BY DEF KeysSignIn
<1>1. CASE \E r \in Req : Handle(r)
  <2>1. PICK r \in Req : Handle(r)
    BY <1>1
  <2>2. reply[r] = "open" /\ pc[r] # "new" /\ input' = input /\ held' = held
    BY <2>1, HandleStarts DEF OwnAll
  <2>3. CASE k \notin keys
    <3>1. k.id = r /\ reply'[r] = "open"
      BY <2>1, <2>2, <2>3, NewKeys
    <3>2. q # r
      BY <3>1
    <3>3. reply[q] = "empty"
      BY <2>1, <3>2, HandleSame DEF Same
    <3>4. pc[q] = "over"
      BY <3>3 DEF OwnAll, Own, Progress
    <3>5. reply[r] = "ok"
      BY <2>2, <3>1, <3>4 DEF KeysKnown, KeyKnown
    <3>6. QED
      BY <2>2, <3>5
  <2>4. CASE k \in keys /\ q = r
    BY <2>1, <2>2, <2>4, RefusedKey DEF OwnAll
  <2>5. CASE k \in keys /\ q # r
    <3>1. reply[q] = "empty" /\ hit'[q] = hit[q]
      BY <2>1, <2>5, HandleSame DEF Same
    <3>2. QED
      BY <2>2, <2>5, <3>1 DEF KeysSignIn
  <2>6. QED
    BY <2>3, <2>4, <2>5
<1>2. CASE \E r \in Req : Arrive(r)
  <2>1. PICK r \in Req : Arrive(r)
    BY <1>2
  <2>2. UNCHANGED <<reply, input, keys, hit>> /\ pc[r] = "new"
    BY <2>1 DEF Arrive, GoTo, world
  <2>3. q # r
    BY <2>2 DEF OwnAll, Own, Progress
  <2>4. held'[q] = held[q]
    BY <2>1, <2>3 DEF Arrive, TypeOK
  <2>5. QED
    BY <2>2, <2>4 DEF KeysSignIn
<1>3. CASE \E o \in Org, rl \in Role : SetRole(o, rl)
  <2>1. PICK o \in Org, rl \in Role : SetRole(o, rl)
    BY <1>3
  <2>2. UNCHANGED <<reply, input, keys, hit>>
    BY <2>1 DEF SetRole, unasked
  <2>3. k.org \in Org /\ held[q][k.org] \subseteq held'[q][k.org]
    BY <2>1, <2>2, SetRoleOwn DEF TypeOK, Key
  <2>4. QED
    BY <2>2, <2>3 DEF KeysSignIn
<1>4. CASE \E j \in keys : KeyEnds(j)
  BY <1>4 DEF KeyEnds, unasked, KeysSignIn
<1>5. CASE \E r \in Req : Disconnect(r)
  <2>1. PICK r \in Req : Disconnect(r)
    BY <1>5
  <2>2. UNCHANGED <<reply, input, keys, held>>
    BY <2>1 DEF Disconnect, unasked, world
  <2>3. hit[q] # {} => hit'[q] # {}
    BY <2>1, DisconnectOwn
  <2>4. QED
    BY <2>2, <2>3 DEF KeysSignIn
<1>6. CASE ClusterStep
  BY <1>6 DEF ClusterStep, unasked, world, KeysSignIn
<1>7. CASE Terminate
  <2>1. UNCHANGED <<input, keys, held>> /\ ~InProgress(q)
    BY <1>7 DEF Terminate, unserved, world
  <2>2. reply'[q] = reply[q] /\ hit'[q] = hit[q]
    BY <1>7, <2>1 DEF Terminate
  <2>3. QED
    BY <2>1, <2>2 DEF KeysSignIn
<1>8. QED
  BY <1>1, <1>2, <1>3, <1>4, <1>5, <1>6, <1>7 DEF Next

\* The inductive invariant, in parts.
LEMMA IInvParts == IInv <=> TypeOK /\ OwnAll /\ KeysKnown /\ KeysSignIn
  BY DEF IInv, OwnAll, Own, KeysKnown, Answered, AnsweredOnce

\* ... and put together again after a step.
LEMMA IInvJoined ==
  ASSUME TypeOK', OwnAll', KeysKnown', KeysSignIn'
  PROVE  IInv'
  BY DEF IInv, OwnAll, Own, KeysKnown, Answered, AnsweredOnce

\* The invariant holds at first: nothing has arrived.
LEMMA InitIInv == Init => IInv
<1> SUFFICES ASSUME Init
             PROVE  IInv
  OBVIOUS
<1>1. ClusterTypeOK
  <2>1. NoListing \in Listings
    BY DEF NoListing, Listings, Call
  <2>2. QED
    BY <2>1 DEF Init, ClusterInit, ClusterTypeOK
<1>2. ControlOK /\ FateOK
  BY EventAssumption DEF Init, ControlOK, FateOK, Place, Unserved, Ending
<1>3. StoreOK
  <2>1. PICK o \in Org, p \in Prefix : keys = {[id |-> OldKey, org |-> o, prefix |-> p]}
    BY DEF Init
  <2>2. keys \subseteq Key
    BY <2>1 DEF Key, KeyId
  <2>3. QED
    BY <2>2 DEF Init, StoreOK
<1>4. RequestOK
  BY DEF Init, RequestOK, Anonymous, Context, Role
<1>5. TypeOK
  BY <1>1, <1>2, <1>3, <1>4, TypeParts
<1>6. ASSUME NEW q \in Req
      PROVE  Own(q) /\ KeyKnown(q) /\ reply[q] = "open"
  <2>1. /\ pc[q] = "new" /\ written[q] = 0 /\ reply[q] = "open" /\ post[q] = "none"
        /\ ctx[q] = Anonymous /\ q \notin committed /\ q \notin audit
    BY DEF Init, ClusterInit
  <2>2. ~Started(q) /\ q \notin Done
    BY <2>1 DEF Started, Done
  <2>3. Progress(q) /\ Faults(q) /\ SigningIn(q) /\ Answered(q) /\ KeyKnown(q)
    BY <2>1, <2>2 DEF Progress, Faults, SigningIn, Answered, KeyKnown
  <2>4. RoleHeld(q)
    BY <2>1, <2>2 DEF RoleHeld, InProgress, Served
  <2>5. QED
    BY <2>1, <2>3, <2>4 DEF Own
<1>7. KeysSignIn
  BY <1>6 DEF KeysSignIn
<1>8. QED
  BY <1>5, <1>6, <1>7, IInvParts DEF OwnAll, KeysKnown

\* Every step keeps the invariant.
LEMMA NextIInv == IInv /\ [Next]_vars => IInv'
<1> SUFFICES ASSUME IInv, [Next]_vars
             PROVE  IInv'
  OBVIOUS
<1>0. TypeOK /\ OwnAll /\ KeysKnown /\ KeysSignIn
  BY IInvParts
<1>1. CASE UNCHANGED vars
  <2>1. TypeOK'
    BY <1>0, <1>1 DEF vars, clusterVars, world, TypeOK, ClusterTypeOK
  <2>2. OwnAll'
    BY <1>0, <1>1, SameKeepsOwn DEF OwnAll, Same, vars, clusterVars, world
  <2>3. KeysKnown' /\ KeysSignIn'
    BY <1>0, <1>1 DEF KeysKnown, KeyKnown, KeysSignIn, vars, world
  <2>4. QED
    BY <2>1, <2>2, <2>3, IInvJoined
<1>2. CASE Next
  <2>1. TypeOK' /\ OwnAll'
    <3>1. CASE \E r \in Req : Arrive(r)
      BY <1>0, <3>1, ArriveType, ArriveOwn
    <3>2. CASE \E r \in Req : Handle(r)
      <4>1. PICK r \in Req : Handle(r)
        BY <3>2
      <4>2. Own(r)
        BY <1>0 DEF OwnAll
      <4>3. QED
        BY <1>0, <4>1, <4>2, HandleType, HandleOwnAll
    <3>3. CASE \E r \in Req : Disconnect(r)
      BY <1>0, <3>3, DisconnectType, DisconnectOwn
    <3>4. CASE \E o \in Org, rl \in Role : SetRole(o, rl)
      BY <1>0, <3>4, SetRoleType, SetRoleOwn
    <3>5. CASE \E k \in keys : KeyEnds(k)
      BY <1>0, <3>5, KeyEndsType, KeyEndsOwn
    <3>6. CASE ClusterStep
      BY <1>0, <3>6, ClusterStepType, ClusterStepOwn
    <3>7. CASE Terminate
      BY <1>0, <3>7, TerminateType, TerminateOwn
    <3>8. QED
      BY <1>2, <3>1, <3>2, <3>3, <3>4, <3>5, <3>6, <3>7 DEF Next
  <2>2. KeysKnown' /\ KeysSignIn'
    BY <1>0, <1>2, NextKeepsKeyKnown, NextKeepsKeysSignIn
  <2>3. QED
    BY <2>1, <2>2, IInvJoined
<1>3. QED
  BY <1>1, <1>2

\* The inductive invariant, for any handlers, organisations, keys, nodes and guests and
\* any number of requests, operator changes and faults.
THEOREM Invariant == Spec => []IInv
  BY InitIInv, NextIInv, PTL DEF Spec

-----------------------------------------------------------------------------
(* What follows from it.                                                   *)

\* Rows, requests and calls to Proxmox have their types.
THEOREM TypeCorrect == Spec => []TypeOK
<1>1. IInv => TypeOK
  BY DEF IInv
<1>2. QED
  BY <1>1, Invariant, PTL

\* Without a fault nothing is done silently: what is done was answered with "ok" and has
\* its audit entry, although effect, entry and answer are separate steps whose errors are
\* ignored (handler_tf.go:166-191, handler_v1.go:405-410).
THEOREM Accounted == Spec => []AccountedFor
<1>1. IInv => AccountedFor
  BY DEF IInv, Faults, AccountedFor
<1>2. QED
  BY <1>1, Invariant, PTL

\* What is done in an organisation was asked for by someone who had the role for it at
\* some time since the request arrived (middleware.go:106-110, 142-165).
THEOREM CurrentRoles == Spec => []RolesAreCurrent
<1>1. IInv => RolesAreCurrent
  <2> SUFFICES ASSUME IInv, NEW r \in Done, ctx[r].org # NoOrg, ~ctx[r].plat,
                      input[r].cred # "dev"
               PROVE  IF input[r].op.needs = "admin"
                        THEN "org_admin" \in held[r][ctx[r].org]
                        ELSE held[r][ctx[r].org] \ {"none"} # {}
    BY DEF RolesAreCurrent
  <2>1. r \in Req /\ Started(r)
    BY DEF Done, Started, IInv, TypeOK
  <2>2. Allowed(r) /\ ctx[r].role \in held[r][ctx[r].org] \ {"none"}
    BY <2>1 DEF IInv, RoleHeld, ByMembership
  <2>3. QED
    BY <2>2 DEF Allowed
<1>2. QED
  BY <1>1, Invariant, PTL

\* A key that was handed out signs its user in, whatever other keys have its prefix
\* (middleware.go:89-113).
THEOREM KeysWork == Spec => []KeysSignIn
<1>1. IInv => KeysSignIn
  BY DEF IInv
<1>2. QED
  BY <1>1, Invariant, PTL

\* Every request is answered once, but for the refusals by authAPIKey and by authJWT
\* (middleware.go:113, 147-162).
THEOREM OneAnswer == Spec => []AnsweredOnce
<1>1. IInv => AnsweredOnce
  BY DEF IInv
<1>2. QED
  BY <1>1, Invariant, PTL

-----------------------------------------------------------------------------
(* The contract.                                                           *)

\* No step of the contract.
Quiet == UNCHANGED <<Done, audit, reply>>

\* A refusal is an open request given up.
LEMMA RefuseGivesUp ==
  ASSUME TypeOK, NEW r \in Req, NEW n \in Nat, reply[r] = "open", Refuse(r, n),
         UNCHANGED <<post, committed, audit>>
  PROVE  RC!Next
<1>1. PICK ending \in {"error", "empty"} : reply' = [reply EXCEPT ![r] = ending]
  BY DEF Refuse, Return
<1>2. reply' = [q \in Req |-> IF q \in {r} THEN ending ELSE reply[q]]
  BY <1>1 DEF TypeOK
<1>3. Done' = Done
  BY DEF Done
<1>4. RC!GiveUp({r})
  BY <1>2, <1>3 DEF RC!GiveUp
<1>5. QED
  BY <1>4 DEF RC!Next

\* What is done in the request's own transaction, file or listing takes effect once.
LEMMA CommitTakesEffect ==
  ASSUME NEW r \in Req, Own(r), reply[r] = "open", pc[r] \in {"work", "listing"},
         committed' = committed \cup {r}, UNCHANGED <<post, audit, reply>>
  PROVE  RC!Next
<1>1. r \notin Done
  BY DEF Own, Progress, Effectless, Unserved, Served, Done
<1>2. Done' = Done \cup {r}
  BY DEF Done
<1>3. RC!TakeEffect(r)
  BY <1>1, <1>2 DEF RC!TakeEffect
<1>4. QED
  BY <1>3 DEF RC!Next

\* A step of a handler is a step of the contract or none.
LEMMA HandleRefines ==
  ASSUME TypeOK, NEW r \in Req, Own(r), Handle(r)
  PROVE  RC!Next \/ Quiet
<1> USE DEF unserved, clusterVars
<1>0. reply[r] = "open"
  BY HandleStarts
<1>1. CASE Commit(r) \/ CommitUnseen(r) \/ EndListing(r)
  <2>1. /\ pc[r] \in {"work", "listing"} /\ committed' = committed \cup {r}
        /\ UNCHANGED <<post, audit, reply>>
    BY <1>1 DEF Commit, CommitUnseen, EndListing, GoTo
  <2>2. QED
    BY <1>0, <2>1, CommitTakesEffect
<1>2. CASE InsertAudit(r)
  <2>1. r \in Done \ audit
    BY <1>2 DEF InsertAudit, Own, Progress
  <2>2. UNCHANGED <<Done, reply>> /\ (audit' = audit \/ audit' = audit \cup {r})
    BY <1>2 DEF InsertAudit, Done, GoTo
  <2>3. CASE audit' = audit
    BY <2>2, <2>3 DEF Quiet
  <2>4. CASE audit' = audit \cup {r}
    <3>1. RC!Record(r)
      BY <1>0, <2>1, <2>2, <2>4 DEF RC!Record
    <3>2. QED
      BY <3>1 DEF RC!Next
  <2>5. QED
    BY <2>2, <2>3, <2>4
<1>3. CASE Answer(r)
  <2>1. r \in Done
    BY <1>3 DEF Answer, Own, Progress
  <2>2. RC!Report(r)
    BY <1>0, <1>3, <2>1 DEF Answer, Return, Done, RC!Report
  <2>3. QED
    BY <2>2 DEF RC!Next
<1>4. CASE CallProxmox(r)
  <2>1. /\ post' = [post EXCEPT ![r] = "sent"] /\ post[r] = "none"
        /\ UNCHANGED <<committed, audit, reply>>
    BY <1>4 DEF CallProxmox, SendPost, GoTo, Own, Progress, Effectless, Served
  <2>2. \A q \in Req : post'[q] = "executed" <=> post[q] = "executed"
    BY <2>1 DEF TypeOK, ClusterTypeOK
  <2>3. QED
    BY <2>1, <2>2 DEF Done, Quiet
<1>5. ASSUME UNCHANGED <<post, committed, audit>>,
             UNCHANGED reply \/ \E n \in {0, 1, 2} : Refuse(r, n)
      PROVE  RC!Next \/ Quiet
  <2>1. CASE UNCHANGED reply
    BY <1>5, <2>1 DEF Done, Quiet
  <2>2. CASE \E n \in {0, 1, 2} : Refuse(r, n)
    BY <1>0, <1>5, <2>2, RefuseGivesUp
  <2>3. QED
    BY <1>5, <2>1, <2>2
<1>6. CASE StartListing(r)
  BY <1>5, <1>6 DEF StartListing, ListNodes, GoTo
<1>7. CASE ListNext(r)
  BY <1>5, <1>7 DEF ListNext, ListGuests
<1>8. QED
  BY <1>1, <1>2, <1>3, <1>4, <1>5, <1>6, <1>7
  DEF Handle, GoTo, NoToken, KeyRows, KeyRole, DevUser, DevRole, ParseSession,
      SessionRole, Guard, RollBack, ReportFailure, Connect, VerifyReachability,
      ProxmoxAnswers, ProxmoxFails

\* Proxmox gets to a call, before the wait is over or after.
LEMMA HandlePostRefines ==
  ASSUME TypeOK, NEW r \in Req, Own(r), HandlePost(r), UNCHANGED <<committed, audit, reply>>
  PROVE  RC!Next \/ Quiet
<1>1. post[r] = "sent"
      /\ \E result \in {"executed", "declined"} : post' = [post EXCEPT ![r] = result]
  BY DEF HandlePost
<1>2. r \notin Done /\ reply[r] # "ok"
  BY <1>1 DEF Own, Progress, Done
<1>3. CASE post' = [post EXCEPT ![r] = "executed"]
  <2>1. \A q \in Req : post'[q] = "executed" <=> post[q] = "executed" \/ q = r
    BY <1>3 DEF TypeOK, ClusterTypeOK
  <2>2. Done' = Done \cup {r}
    BY <2>1 DEF Done
  <2>3. RC!TakeEffect(r)
    BY <1>2, <2>2 DEF RC!TakeEffect
  <2>4. QED
    BY <2>3 DEF RC!Next
<1>4. CASE post' = [post EXCEPT ![r] = "declined"]
  <2>1. \A q \in Req : post'[q] = "executed" <=> post[q] = "executed"
    BY <1>1, <1>4 DEF TypeOK, ClusterTypeOK
  <2>2. QED
    BY <2>1 DEF Done, Quiet
<1>5. QED
  BY <1>1, <1>3, <1>4

\* When the process ends, all open requests are given up at once.
LEMMA TerminateRefines ==
  ASSUME TypeOK, OwnAll, Terminate
  PROVE  RC!Next
<1> DEFINE S == {r \in Req : InProgress(r)}
<1>1. \A r \in S : reply[r] = "open"
  BY DEF OwnAll, Own, Progress, InProgress
<1>2. reply' = [r \in Req |-> IF r \in S THEN "none" ELSE reply[r]]
  BY DEF Terminate
<1>3. UNCHANGED <<Done, audit>>
  BY DEF Terminate, unserved, clusterVars, Done
<1>4. RC!GiveUp(S)
  BY <1>1, <1>2, <1>3 DEF RC!GiveUp
<1>5. QED
  BY <1>4 DEF RC!Next

\* Every step is a step of the contract or none.
LEMMA NextRefines == IInv /\ [Next]_vars => [RC!Next]_(RC!vars)
<1> SUFFICES ASSUME IInv, [Next]_vars
             PROVE  RC!Next \/ Quiet
  BY DEF Quiet, RC!vars
<1>0. TypeOK /\ OwnAll /\ \A r \in Req : Own(r)
  BY IInvParts DEF OwnAll
<1>1. CASE \E r \in Req : Handle(r)
  BY <1>0, <1>1, HandleRefines
<1>2. CASE \E r \in Req : HandlePost(r) /\ UNCHANGED <<committed, audit, reply>>
  BY <1>0, <1>2, HandlePostRefines
<1>3. CASE Terminate
  BY <1>0, <1>3, TerminateRefines
<1>4. CASE UNCHANGED <<post, committed, audit, reply>>
  BY <1>4 DEF Quiet, Done
<1>5. CASE ClusterStep
  BY <1>2, <1>4, <1>5 DEF ClusterStep, Migrate, unasked
<1>6. QED
  BY <1>1, <1>2, <1>3, <1>4, <1>5
  DEF Next, Arrive, GoTo, SetRole, KeyEnds, Disconnect, unasked, clusterVars, vars

\* The API implements RequestContract: done at most once, recorded only when done, "ok" only
\* when done, also when Proxmox acts after the client has given up (client.go:142-162).
THEOREM Refinement == Spec => Contract
<1>1. Init => RC!Init
  BY DEF Init, ClusterInit, Done, RC!Init
<1>2. QED
  BY <1>1, Invariant, NextRefines, PTL DEF Spec, Contract, RC!Spec

-----------------------------------------------------------------------------
(* The list of guests.                                                     *)

\* The one call that returns a guest.
CallFor(g) == <<at[g], IF g \in Container THEN "lxc" ELSE "qemu">>

\* The calls to come differ and stay in scope; a guest that has not migrated is
\* found if its call is no longer one of them.
Listed(r) ==
    LET l == listing[r] IN
    /\ \A i, j \in DOMAIN l.calls : l.calls[i] = l.calls[j] => i = j
    /\ \A i \in DOMAIN l.calls : l.calls[i][1] \in l.scope
    /\ \A g \in Guest \ moved[r] :
          l.found[g] = IF /\ at[g] \in l.scope
                          /\ \A i \in DOMAIN l.calls : l.calls[i] # CallFor(g)
                         THEN 1 ELSE 0

\* A listing is answered when no call is left.
ListEnded(r) ==
    input[r].op.does = "list" =>
       /\ pc[r] \notin {"work", "waiting", "audit"}
       /\ pc[r] = "answer" \/ reply[r] = "ok" => listing[r].calls = <<>>

\* Every listing is right.
LInv == \A r \in Req : Listed(r) /\ ListEnded(r)

\* The calls of an order of the nodes: two for each node, and all different.
LEMMA CallsOfOrder ==
  ASSUME NEW scope, IsFiniteSet(scope),
         NEW order \in Bijection(1..Cardinality(scope), scope)
  PROVE  LET calls == CallsOf(order) IN
         /\ \A i, j \in DOMAIN calls : calls[i] = calls[j] => i = j
         /\ \A i \in DOMAIN calls : calls[i][1] \in scope
         /\ \A n \in scope, kind \in {"qemu", "lxc"} :
               \E i \in DOMAIN calls : calls[i] = <<n, kind>>
<1> DEFINE N == Cardinality(scope)
           calls == CallsOf(order)
<1>1. N \in Nat
  BY FS_CardinalityType
<1>2. /\ order \in [1..N -> scope]
      /\ \A i, j \in 1..N : order[i] = order[j] => i = j
      /\ \A n \in scope : \E i \in 1..N : order[i] = n
  BY DEF Bijection, Injection, Surjection, IsInjective
<1>3. Len(order) = N
  BY <1>1, <1>2
<1>4. calls = [i \in 1..(2 * N) |->
                 <<order[(i + 1) \div 2], IF i % 2 = 1 THEN "qemu" ELSE "lxc">>]
  BY <1>3 DEF CallsOf
<1>5. \A i \in 1..(2 * N) : (i + 1) \div 2 \in 1..N
  BY <1>1
<1>6. ASSUME NEW i \in 1..(2 * N), NEW j \in 1..(2 * N), calls[i] = calls[j]
      PROVE  i = j
  <2>1. order[(i + 1) \div 2] = order[(j + 1) \div 2] /\ (i % 2 = 1 <=> j % 2 = 1)
    BY <1>4, <1>6
  <2>2. (i + 1) \div 2 = (j + 1) \div 2
    BY <1>2, <1>5, <2>1
  <2>3. QED
    BY <1>1, <2>1, <2>2
<1>7. \A i \in 1..(2 * N) : calls[i][1] \in scope
  BY <1>2, <1>4, <1>5
<1>8. ASSUME NEW n \in scope, NEW kind \in {"qemu", "lxc"}
      PROVE  \E i \in 1..(2 * N) : calls[i] = <<n, kind>>
  <2>1. PICK i \in 1..N : order[i] = n
    BY <1>2
  <2>2. CASE kind = "qemu"
    <3>1. /\ 2 * i - 1 \in 1..(2 * N) /\ (2 * i - 1 + 1) \div 2 = i
          /\ (2 * i - 1) % 2 = 1
      BY <1>1
    <3>2. QED
      BY <1>4, <2>1, <2>2, <3>1
  <2>3. CASE kind = "lxc"
    <3>1. /\ 2 * i \in 1..(2 * N) /\ (2 * i + 1) \div 2 = i
          /\ (2 * i) % 2 # 1
      BY <1>1
    <3>2. QED
      BY <1>4, <2>1, <2>3, <3>1
  <2>4. QED
    BY <2>2, <2>3
<1>9. DOMAIN calls = 1..(2 * N)
  BY <1>4
<1>10. QED
  BY <1>6, <1>7, <1>8, <1>9

\* A listing begins with all its calls to come and nothing found.
LEMMA ListNodesListed ==
  ASSUME TypeOK, NEW r \in Req, ListNodes(r)
  PROVE  Listed(r)'
<1>0. PICK scope \in {Node} \cup {{n} : n \in Node} :
         \E order \in Bijection(1..Cardinality(scope), scope) :
            listing' = [listing EXCEPT ![r] = [scope |-> scope, calls |-> CallsOf(order),
                                               found |-> [g \in Guest |-> 0]]]
  BY DEF ListNodes
<1>1. PICK order \in Bijection(1..Cardinality(scope), scope) :
         listing' = [listing EXCEPT ![r] = [scope |-> scope, calls |-> CallsOf(order),
                                            found |-> [g \in Guest |-> 0]]]
  BY <1>0
<1>2. IsFiniteSet(scope)
  BY ClusterAssumption, FS_Singleton
<1>3. listing'[r] = [scope |-> scope, calls |-> CallsOf(order),
                     found |-> [g \in Guest |-> 0]]
  BY <1>1 DEF TypeOK, ClusterTypeOK
<1>4. UNCHANGED <<at, moved>>
  BY DEF ListNodes
<1>5. \A g \in Guest : at[g] \in scope =>
         \E i \in DOMAIN CallsOf(order) : CallsOf(order)[i] = CallFor(g)
  BY <1>2, CallsOfOrder DEF CallFor
<1>6. \A g \in Guest : CallFor(g)' = CallFor(g)
  BY <1>4 DEF CallFor
<1>7. QED
  BY <1>2, <1>3, <1>4, <1>5, <1>6, CallsOfOrder DEF Listed

\* A call finds its guests, and none of the others to come does.
LEMMA ListGuestsListed ==
  ASSUME TypeOK, NEW r \in Req, Listed(r), ListGuests(r)
  PROVE  Listed(r)'
<1> DEFINE l == listing[r]
           m == listing'[r]
<1>1. l.calls \in Seq(Call) /\ l.calls # <<>> /\ l.found \in [Guest -> Nat]
  BY DEF TypeOK, ClusterTypeOK, Listings, ListGuests
<1>2. /\ m.calls = Tail(l.calls) /\ m.scope = l.scope
      /\ m.found = [g \in Guest |-> IF g \in GuestsAt(Head(l.calls)) THEN l.found[g] + 1
                                                                    ELSE l.found[g]]
  BY DEF ListGuests, TypeOK, ClusterTypeOK, Listings
<1>3. UNCHANGED <<at, moved>>
  BY DEF ListGuests
<1>4. /\ 1 \in DOMAIN l.calls /\ Head(l.calls) = l.calls[1]
      /\ \A i \in DOMAIN m.calls : i + 1 \in DOMAIN l.calls /\ m.calls[i] = l.calls[i + 1]
      /\ \A i \in DOMAIN l.calls :
            i = 1 \/ (i - 1 \in DOMAIN m.calls /\ m.calls[i - 1] = l.calls[i])
      /\ \A i \in DOMAIN m.calls : i \in Nat /\ i + 1 # 1
  BY <1>1, <1>2
<1>5. \A g \in Guest : g \in GuestsAt(Head(l.calls)) <=> l.calls[1] = CallFor(g)
  <2>1. l.calls[1] \in Call
    BY <1>1, <1>4
  <2>2. QED
    BY <1>4, <2>1 DEF GuestsAt, CallFor, Call
<1>6. \A i, j \in DOMAIN m.calls : m.calls[i] = m.calls[j] => i = j
  BY <1>4 DEF Listed
<1>7. \A i \in DOMAIN m.calls : m.calls[i][1] \in m.scope
  BY <1>2, <1>4 DEF Listed
<1>8. ASSUME NEW g \in Guest \ moved[r]
      PROVE  m.found[g] = IF /\ at[g] \in m.scope
                             /\ \A i \in DOMAIN m.calls : m.calls[i] # CallFor(g)
                            THEN 1 ELSE 0
  <2>1. l.found[g] = IF /\ at[g] \in l.scope
                        /\ \A i \in DOMAIN l.calls : l.calls[i] # CallFor(g)
                       THEN 1 ELSE 0
    BY DEF Listed
  <2>2. CASE l.calls[1] = CallFor(g)
    <3>1. at[g] \in l.scope
      BY <1>4, <2>2 DEF Listed, CallFor
    <3>2. \A i \in DOMAIN m.calls : m.calls[i] # CallFor(g)
      BY <1>4, <2>2 DEF Listed
    <3>3. l.found[g] = 0
      BY <1>4, <2>1, <2>2
    <3>4. QED
      BY <1>2, <1>5, <2>2, <3>1, <3>2, <3>3
  <2>3. CASE l.calls[1] # CallFor(g)
    <3>1. (\A i \in DOMAIN m.calls : m.calls[i] # CallFor(g))
             <=> (\A i \in DOMAIN l.calls : l.calls[i] # CallFor(g))
      BY <1>4, <2>3
    <3>2. m.found[g] = l.found[g]
      BY <1>2, <1>5, <2>3
    <3>3. QED
      BY <1>2, <2>1, <3>1, <3>2
  <2>4. QED
    BY <2>2, <2>3
<1>9. \A g \in Guest : CallFor(g)' = CallFor(g)
  BY <1>3 DEF CallFor
<1>10. QED
  BY <1>3, <1>6, <1>7, <1>8, <1>9 DEF Listed

\* A guest that migrates is not one the listing answers for.
LEMMA MigrateListed ==
  ASSUME TypeOK, NEW r \in Req, Listed(r), NEW g \in Guest, NEW n \in Node, Migrate(g, n)
  PROVE  Listed(r)'
<1>1. listing' = listing /\ \A h \in Guest : h # g => at'[h] = at[h]
  BY DEF Migrate, TypeOK, ClusterTypeOK
<1>2. moved'[r] = IF listing[r].scope # {} THEN moved[r] \cup {g} ELSE moved[r]
  BY DEF Migrate
<1>3. \A h \in Guest : h # g => CallFor(h)' = CallFor(h)
  BY <1>1 DEF CallFor
<1>4. CASE listing[r].scope # {}
  BY <1>1, <1>2, <1>3, <1>4 DEF Listed
<1>5. CASE listing[r].scope = {}
  BY <1>1, <1>2, <1>5 DEF Listed
<1>6. QED
  BY <1>4, <1>5

\* Nothing else changes a listing.
LEMMA SameKeepsListed ==
  ASSUME NEW r \in Req, Listed(r), listing'[r] = listing[r], UNCHANGED <<at, moved>>
  PROVE  Listed(r)'
  BY DEF Listed, CallFor

\* A handler keeps its listing and those of the others right.
LEMMA HandleListed ==
  ASSUME TypeOK, NEW r \in Req, Handle(r), NEW q \in Req, Listed(q)
  PROVE  Listed(q)'
<1> USE DEF unserved, clusterVars
<1>1. CASE q = r /\ ListNodes(r)
  BY <1>1, ListNodesListed
<1>2. CASE q = r /\ ListGuests(r)
  BY <1>2, ListGuestsListed
<1>3. CASE listing'[q] = listing[q] /\ UNCHANGED <<at, moved>>
  BY <1>3, SameKeepsListed
<1>4. CASE q # r /\ (ListNodes(r) \/ ListGuests(r))
  BY <1>3, <1>4 DEF ListNodes, ListGuests, TypeOK, ClusterTypeOK
<1>5. QED
  BY <1>1, <1>2, <1>3, <1>4 DEF Handle, SendPost, NoToken, KeyRows, KeyRole, DevUser,
                                DevRole, ParseSession, SessionRole, Guard, Commit,
                                CommitUnseen, RollBack, ReportFailure, Connect,
                                VerifyReachability, CallProxmox, ProxmoxAnswers,
                                ProxmoxFails, StartListing, ListNext, EndListing,
                                InsertAudit, Answer

\* A handler leaves the listings of the others alone.
LEMMA HandleListing ==
  ASSUME TypeOK, NEW r \in Req, Handle(r), NEW q \in Req \ {r}
  PROVE  listing'[q] = listing[q]
  BY DEF Handle, SendPost, ListNodes, ListGuests, TypeOK, ClusterTypeOK, unserved,
         clusterVars, NoToken, KeyRows, KeyRole, DevUser, DevRole,
         ParseSession, SessionRole, Guard, Commit, CommitUnseen, RollBack, ReportFailure,
         Connect, VerifyReachability, CallProxmox, ProxmoxAnswers, ProxmoxFails,
         StartListing, ListNext, EndListing, InsertAudit, Answer

\* A listing is answered only when no call is left.
LEMMA HandleListEnded ==
  ASSUME TypeOK, NEW r \in Req, Own(r), ListEnded(r), Handle(r)
  PROVE  ListEnded(r)'
<1> USE DEF ListEnded, Own, Progress, Faults, GoTo, Return, Refuse, unserved,
            clusterVars, TypeOK, ClusterTypeOK
<1>1. CASE NoToken(r)
  BY <1>1 DEF NoToken
<1>2. CASE KeyRows(r)
  BY <1>2 DEF KeyRows
<1>3. CASE KeyRole(r)
  BY <1>3 DEF KeyRole
<1>4. CASE DevUser(r)
  BY <1>4 DEF DevUser
<1>5. CASE DevRole(r)
  BY <1>5 DEF DevRole
<1>6. CASE ParseSession(r)
  BY <1>6 DEF ParseSession
<1>7. CASE SessionRole(r)
  BY <1>7 DEF SessionRole
<1>8. CASE Guard(r)
  BY <1>8 DEF Guard, FirstPlace
<1>9. CASE Commit(r)
  BY <1>9 DEF Commit, AfterEffect
<1>10. CASE CommitUnseen(r)
  BY <1>10 DEF CommitUnseen
<1>11. CASE RollBack(r)
  BY <1>11 DEF RollBack
<1>12. CASE ReportFailure(r)
  BY <1>12 DEF ReportFailure
<1>13. CASE Connect(r)
  BY <1>13 DEF Connect
<1>14. CASE VerifyReachability(r)
  BY <1>14 DEF VerifyReachability
<1>15. CASE CallProxmox(r)
  BY <1>15 DEF CallProxmox, SendPost
<1>16. CASE ProxmoxAnswers(r)
  BY <1>16 DEF ProxmoxAnswers
<1>17. CASE ProxmoxFails(r)
  BY <1>17 DEF ProxmoxFails
<1>18. CASE StartListing(r)
  BY <1>18 DEF StartListing, ListNodes
<1>19. CASE ListNext(r)
  BY <1>19 DEF ListNext, ListGuests
<1>20. CASE EndListing(r)
  BY <1>20 DEF EndListing
<1>21. CASE InsertAudit(r)
  BY <1>21 DEF InsertAudit
<1>22. CASE Answer(r)
  BY <1>22 DEF Answer
<1>23. QED
  BY <1>1, <1>2, <1>3, <1>4, <1>5, <1>6, <1>7, <1>8, <1>9, <1>10, <1>11, <1>12, <1>13,
     <1>14, <1>15, <1>16, <1>17, <1>18, <1>19, <1>20, <1>21, <1>22
  DEF Handle

\* Nothing is listed at first.
LEMMA InitLInv == Init => LInv
<1> SUFFICES ASSUME Init, NEW r \in Req
             PROVE  Listed(r) /\ ListEnded(r)
  BY DEF LInv
<1>1. /\ listing[r] = NoListing /\ pc[r] = "new" /\ reply[r] = "open"
  BY DEF Init, ClusterInit
<1>2. /\ NoListing.scope = {} /\ NoListing.calls = <<>>
      /\ \A g \in Guest : NoListing.found[g] = 0
  BY DEF NoListing
<1>3. QED
  BY <1>1, <1>2 DEF Listed, ListEnded

\* Every step keeps the listings right.
LEMMA NextLInv == LInv /\ IInv /\ [Next]_vars => LInv'
<1> SUFFICES ASSUME LInv, IInv, [Next]_vars, NEW q \in Req
             PROVE  Listed(q)' /\ ListEnded(q)'
  BY DEF LInv
<1>0. TypeOK /\ (\A r \in Req : Own(r)) /\ Listed(q) /\ ListEnded(q)
  BY IInvParts DEF OwnAll, LInv
<1>1. CASE \E r \in Req : Handle(r)
  <2>1. PICK r \in Req : Handle(r)
    BY <1>1
  <2>2. Listed(q)'
    BY <1>0, <2>1, HandleListed
  <2>3. CASE q = r
    BY <1>0, <2>1, <2>2, <2>3, HandleListEnded
  <2>4. CASE q # r
    <3>1. Same(q) /\ listing'[q] = listing[q]
      BY <1>0, <2>1, <2>4, HandleSame, HandleListing
    <3>2. QED
      BY <1>0, <2>2, <3>1 DEF Same, ListEnded
  <2>5. QED
    BY <2>3, <2>4
<1>2. CASE \E r \in Req : Arrive(r)
  <2>1. PICK r \in Req : Arrive(r)
    BY <1>2
  <2>2. UNCHANGED <<at, moved, listing, input, reply>> /\ pc'[q] \in {pc[q], "token"}
    BY <1>0, <2>1 DEF Arrive, GoTo, TypeOK, clusterVars
  <2>3. QED
    BY <1>0, <2>2, SameKeepsListed DEF ListEnded
<1>3. CASE \E g \in Guest, n \in Node : Migrate(g, n) /\ UNCHANGED <<pc, input, reply>>
  BY <1>0, <1>3, MigrateListed DEF Migrate, ListEnded
<1>4. CASE UNCHANGED <<at, moved, listing, pc, input, reply>>
  BY <1>0, <1>4, SameKeepsListed DEF ListEnded
<1>5. CASE ClusterStep
  BY <1>3, <1>4, <1>5 DEF ClusterStep, HandlePost, unasked
<1>6. CASE Terminate
  <2>1. /\ UNCHANGED <<at, moved, listing, input>>
        /\ pc'[q] \in {pc[q], "over"} /\ reply'[q] \in {reply[q], "none"}
    BY <1>6 DEF Terminate, unserved, clusterVars
  <2>2. QED
    BY <1>0, <2>1, SameKeepsListed DEF ListEnded
<1>7. QED
  BY <1>1, <1>2, <1>4, <1>5, <1>6
  DEF Next, SetRole, KeyEnds, Disconnect, unasked, clusterVars, vars

\* A list put together from two calls for each node names every guest of its nodes once,
\* unless the guest migrates meanwhile (handler_v1.go:109-151).
THEOREM CompleteLists == Spec => []ListedOnce
<1>1. LInv /\ IInv => ListedOnce
  <2> SUFFICES ASSUME LInv, NEW r \in Req, reply[r] = "ok", input[r].op.does = "list",
                      NEW g \in Guest \ moved[r]
               PROVE  listing[r].found[g] = IF at[g] \in listing[r].scope THEN 1 ELSE 0
    BY DEF ListedOnce
  <2>1. listing[r].calls = <<>>
    BY DEF LInv, ListEnded
  <2>2. QED
    BY <2>1 DEF LInv, Listed
<1>2. QED
  BY <1>1, InitLInv, NextLInv, Invariant, PTL DEF Spec
=============================================================================
