------------------------------- MODULE Requests -------------------------------
(***************************************************************************)
(* The life of a request to the API (internal/api): the choice of the      *)
(* sign-in method and of organisation and role (middleware.go), the guards *)
(* of the handlers, their transaction or their call to Proxmox, the audit  *)
(* entry (repo.InsertAudit) and the answer.                                *)
(*                                                                         *)
(* Every query is a step of its own, as each is a transaction of its own;  *)
(* in between an operator changes memberships, sessions and keys expire,   *)
(* the client goes away, the database loses a statement and the process    *)
(* is stopped.                                                             *)
(*                                                                         *)
(* There is one user: only DevLogin issues sessions, and only for          *)
(* dev@local.invalid, so every session and every key is that user's.  The  *)
(* platform flag of a session is the one of its issue, up to 24 hours ago: *)
(* a session with it and one without may exist at any time.                *)
(***************************************************************************)
EXTENDS ProxmoxCluster

CONSTANTS
    Op,         \* the handlers that are called
    Org,        \* organisations, numbered in the order of their names
    NoOrg,      \* no X-Cloudmanager-Org, no organisation in the context
    OldKey,     \* an API key from before
    Prefix,     \* key prefixes; two keys may have the same one
    MaxEvents   \* bound on operator changes, expiries, migrations and faults

-----------------------------------------------------------------------------
(* The handlers: what they require of the caller, whether they refuse a body  *)
(* that does not parse, what they do - a transaction, the insertion of a key, *)
(* work on managed.env, a look-up whose errors are ignored, the list of       *)
(* organisations, or calls to Proxmox - and whether they keep an audit trail. *)

Handler(needs, parses, does, audited) ==
    [needs |-> needs, parses |-> parses, does |-> does, audited |-> audited]

Me == Handler("user", FALSE, "lookup", FALSE)
ListOrgs == Handler("user", FALSE, "orgs", FALSE)
ListTemplates == Handler("org", FALSE, "query", FALSE)
PostTemplate == Handler("admin", TRUE, "query", TRUE)
ListFlavors == Handler("org", FALSE, "query", FALSE)
PostFlavor == Handler("admin", TRUE, "query", TRUE)
ListAudit == Handler("org", FALSE, "query", FALSE)
ListAPIKeys == Handler("admin", FALSE, "query", FALSE)
CreateAPIKey == Handler("admin", TRUE, "key", TRUE)
ListWorkspaces == Handler("org", FALSE, "query", FALSE)
CreateWorkspace == Handler("admin", TRUE, "query", TRUE)
\* What comes before its transaction is in ConfigBundles.
UploadConfig == Handler("org", TRUE, "query", FALSE)
EnqueueTF == Handler("org", FALSE, "query", TRUE)
GetRun == Handler("org", FALSE, "query", FALSE)
GetPVEConnection == Handler("admin", FALSE, "query", FALSE)
\* What comes before its last transaction is in PveConnection.
PostPVEConnection == Handler("admin", TRUE, "query", TRUE)
PVEVMs == Handler("org", FALSE, "list", FALSE)
PVEPower == Handler("org", TRUE, "power", TRUE)
PostPVEConsole == Handler("org", TRUE, "console", TRUE)
GetAdminEnv == Handler("platform", FALSE, "file", FALSE)
\* Its file is in ManagedEnv.
PatchAdminEnv == Handler("platform", TRUE, "file", TRUE)

\* The routes of cmd/api/main.go.
Handlers ==
    {Me, ListOrgs, ListTemplates, PostTemplate, ListFlavors, PostFlavor, ListAudit,
     ListAPIKeys, CreateAPIKey, ListWorkspaces, CreateWorkspace, UploadConfig, EnqueueTF,
     GetRun, GetPVEConnection, PostPVEConnection, PVEVMs, PVEPower, PostPVEConsole,
     GetAdminEnv, PatchAdminEnv}

ASSUME OpAssumption == Op \subseteq Handlers
ASSUME OrgAssumption == Org \subseteq Nat /\ NoOrg \notin Org
ASSUME KeyAssumption ==
    OldKey \notin Req /\ ({OldKey} \cup Req) \cap {"none", "dev", "session", "platform"} = {}
ASSUME EventAssumption == MaxEvents \in Nat

VARIABLES
    role,       \* org_memberships of the user; "none" without a row
    keys,       \* api_keys
    pc,         \* the query or call a request is at
    input,      \* what the client sent
    ctx,        \* WithAuth: what sign-in has put into the context
    committed,  \* requests whose own transaction, file or listing is done
    audit,      \* audit_log: the requests that have an entry
    written,    \* how many bodies were written as an answer
    reply,      \* how a request ended
    hit,        \* what befell a request
    held,       \* history: the roles the user has had since a request arrived
    events      \* how much of MaxEvents is used up

world == <<role, keys>>
vars == <<clusterVars, world, pc, input, ctx, committed, audit, written, reply, hit,
          held, events>>

\* Where a request is before and after it has got its context.
Unserved == {"new", "token", "keyrole", "devrole", "role"}
Served == {"serve", "work", "failing", "connect", "version", "call", "waiting",
           "listing", "audit", "answer"}

Role == {"none", "org_member", "org_admin"}
KeyId == Req \cup {OldKey}
Key == [id : KeyId, org : Org, prefix : Prefix]
Credential == {"none", "dev", "session", "platform"} \cup KeyId
Input == [op : Op, cred : Credential, hdr : Org \cup {NoOrg}]
Context == [org : Org \cup {NoOrg}, role : Role, plat : BOOLEAN]
Anonymous == [org |-> NoOrg, role |-> "none", plat |-> FALSE]

Init ==
    /\ ClusterInit
    /\ role \in [Org -> Role]
    /\ \E o \in Org, p \in Prefix : keys = {[id |-> OldKey, org |-> o, prefix |-> p]}
    /\ pc = [r \in Req |-> "new"]
    /\ input \in [Req -> Input]
    /\ ctx = [r \in Req |-> Anonymous]
    /\ committed = {}
    /\ audit = {}
    /\ written = [r \in Req |-> 0]
    /\ reply = [r \in Req |-> "open"]
    /\ hit = [r \in Req |-> {}]
    /\ held = [r \in Req |-> [o \in Org |-> {}]]
    /\ events = 0

-----------------------------------------------------------------------------
(* Steps of a handler.                                                     *)

InProgress(r) == pc[r] \notin {"new", "over"}

Event == events < MaxEvents /\ events' = events + 1

\* A statement under r.Context(): refused once the client is gone, lost by a
\* database fault.
Works(r) == "disconnect" \notin hit[r] /\ UNCHANGED <<hit, events>>

Fails(r) ==
    \/ "disconnect" \in hit[r] /\ UNCHANGED <<hit, events>>
    \/ Event /\ hit' = [hit EXCEPT ![r] = @ \cup {"db"}]

GoTo(r, place) ==
    /\ pc' = [pc EXCEPT ![r] = place]
    /\ UNCHANGED <<written, reply>>

\* The handler returns, having written n bodies (of them, at most the last one
\* is looked at).  Without any, net/http answers 200 with nothing in it.
Return(r, ending, n) ==
    /\ pc' = [pc EXCEPT ![r] = "over"]
    /\ reply' = [reply EXCEPT ![r] = ending]
    /\ written' = [written EXCEPT ![r] = @ + n]

Refuse(r, n) == Return(r, IF n = 0 THEN "empty" ELSE "error", n)

SetContext(r, org, rl, plat) ==
    ctx' = [ctx EXCEPT ![r] = [org |-> org, role |-> IF org = NoOrg THEN "none" ELSE rl,
                               plat |-> plat]]

\* What sign-in and guards leave alone.
unserved == <<clusterVars, world, input, committed, audit, held>>

-----------------------------------------------------------------------------
(* Sign-in (middleware.go).                                                *)

\* The secret of a key is known to a client that got an answer with it.
Presentable(c) == c \in Req => reply[c] = "ok" /\ input[c].op.does = "key"

Arrive(r) ==
    /\ pc[r] = "new"
    /\ Presentable(input[r].cred)
    /\ held' = [held EXCEPT ![r] = [o \in Org |-> {role[o]}]]
    /\ GoTo(r, "token")
    /\ UNCHANGED <<clusterVars, world, input, ctx, committed, audit, hit, events>>

NoToken(r) ==
    /\ pc[r] = "token"
    /\ input[r].cred = "none"
    /\ Refuse(r, 1)
    /\ UNCHANGED <<unserved, ctx, hit, events>>

\* The rows of the key's prefix (bcrypt tells the row of the key itself).
RowsFor(r) == {k \in keys : \E own \in keys : own.id = input[r].cred /\ k.prefix = own.prefix}

Fits(r, k) == k.id = input[r].cred /\ k.org = input[r].hdr

\* Bug: a row that does not fit ends the search.
EveryRowFits(r) == RowsFor(r) # {} /\ \A k \in RowsFor(r) : Fits(r, k)

SomeRowFits(r) == \E k \in RowsFor(r) : Fits(r, k)

\* authAPIKey returns without having written an answer, and so does Auth.
KeyRows(r) ==
    /\ pc[r] = "token"
    /\ input[r].cred \in KeyId
    /\ \/ /\ input[r].hdr = NoOrg
          /\ Refuse(r, 1)
          /\ UNCHANGED <<hit, events>>
       \/ /\ input[r].hdr # NoOrg
          /\ \/ Works(r) /\ SomeRowFits(r) /\ GoTo(r, "keyrole")
             \/ Works(r) /\ ~SomeRowFits(r) /\ Refuse(r, 0)
             \/ Fails(r) /\ Refuse(r, 0)
    /\ UNCHANGED <<unserved, ctx>>

\* GetMembershipRole for the row that fits; without a role the search goes on
\* and finds nothing else.
KeyRole(r) ==
    /\ pc[r] = "keyrole"
    /\ LET o == input[r].hdr IN
       \/ /\ Works(r)
          /\ role[o] # "none"
          /\ SetContext(r, o, role[o], FALSE)
          /\ GoTo(r, "serve")
       \/ /\ (Works(r) /\ role[o] = "none") \/ Fails(r)
          /\ Refuse(r, 0)
          /\ UNCHANGED ctx
    /\ UNCHANGED unserved

\* The first organisation of ListOrgsForUser, ORDER BY name.
FirstOrg(S) == CHOOSE o \in S : \A p \in S : o <= p

Memberships == {o \in Org : role[o] # "none"}

\* authDevUser: GetUserByEmail.  Without an answer Auth goes on to authJWT, for
\* which the dev bearer is not a token.
DevUser(r) ==
    /\ pc[r] = "token"
    /\ input[r].cred = "dev"
    /\ \/ Works(r) /\ (\E plat \in BOOLEAN : SetContext(r, NoOrg, "none", plat))
          /\ GoTo(r, "devrole")
       \/ Fails(r) /\ Refuse(r, 1) /\ UNCHANGED ctx
    /\ UNCHANGED unserved

\* The organisations or the role: errors are ignored and leave the defaults.
DevRole(r) ==
    /\ pc[r] = "devrole"
    /\ LET o == input[r].hdr  plat == ctx[r].plat IN
       \/ /\ Works(r)
          /\ IF o # NoOrg
               THEN SetContext(r, o, IF role[o] = "none" THEN "org_admin" ELSE role[o], plat)
               ELSE IF Memberships = {} THEN SetContext(r, NoOrg, "none", plat)
               ELSE SetContext(r, FirstOrg(Memberships), role[FirstOrg(Memberships)], plat)
       \/ Fails(r) /\ SetContext(r, o, "org_admin", plat)
    /\ GoTo(r, "serve")
    /\ UNCHANGED unserved

IsPlatformToken(r) == input[r].cred = "platform"

\* authJWT: the token may not parse, as after 24 hours; the organisation is the
\* header's, or else the first one, or none for a platform user.  A 400 of
\* authJWT is followed by the 401 of Auth.
ParseSession(r) ==
    /\ pc[r] = "token"
    /\ input[r].cred \in {"session", "platform"}
    /\ LET o == input[r].hdr  plat == IsPlatformToken(r) IN
       \/ /\ Refuse(r, 1)
          /\ UNCHANGED <<ctx, hit, events>>
       \/ /\ o # NoOrg \/ plat
          /\ SetContext(r, o, "none", plat)
          /\ GoTo(r, IF o # NoOrg THEN "role" ELSE "serve")
          /\ UNCHANGED <<hit, events>>
       \/ /\ o = NoOrg /\ ~plat
          /\ \/ /\ Works(r) /\ Memberships # {}
                /\ SetContext(r, FirstOrg(Memberships), "none", FALSE)
                /\ GoTo(r, "role")
             \/ /\ (Works(r) /\ Memberships = {}) \/ Fails(r)
                /\ Refuse(r, 2)
                /\ UNCHANGED ctx
    /\ UNCHANGED unserved

\* Bug: the error of GetMembershipRole is ignored for everybody.
SessionRoleUnchecked(r) ==
    /\ pc[r] = "role"
    /\ LET o == ctx[r].org IN
       \/ Works(r) /\ SetContext(r, o, role[o], ctx[r].plat)
       \/ Fails(r) /\ UNCHANGED ctx
    /\ GoTo(r, "serve")
    /\ UNCHANGED unserved

\* A 403 of authJWT is followed by the 401 of Auth; for a platform user the
\* error is ignored.
SessionRole(r) ==
    /\ pc[r] = "role"
    /\ LET o == ctx[r].org  plat == ctx[r].plat IN
       \/ /\ Works(r)
          /\ plat \/ role[o] # "none"
          /\ SetContext(r, o, role[o], plat)
          /\ GoTo(r, "serve")
       \/ Fails(r) /\ plat /\ GoTo(r, "serve") /\ UNCHANGED ctx
       \/ /\ ~plat
          /\ (Works(r) /\ role[o] = "none") \/ Fails(r)
          /\ Refuse(r, 2)
          /\ UNCHANGED ctx
    /\ UNCHANGED unserved

-----------------------------------------------------------------------------
(* The handlers.                                                           *)

Allowed(r) ==
    LET needs == input[r].op.needs IN
    /\ needs \in {"org", "admin"} => ctx[r].org # NoOrg
    /\ needs = "admin" => ctx[r].role = "org_admin" \/ ctx[r].plat
    /\ needs = "platform" => ctx[r].plat

FirstPlace(op) == IF op.does \in {"power", "console", "list"} THEN "connect" ELSE "work"

\* Bug: a guard writes its answer and does not return.
GuardWithoutReturn(r) ==
    /\ pc[r] = "serve"
    /\ pc' = [pc EXCEPT ![r] = FirstPlace(input[r].op)]
    /\ written' = [written EXCEPT ![r] = IF Allowed(r) THEN @ ELSE @ + 1]
    /\ UNCHANGED <<reply, unserved, ctx, hit, events>>

\* A handler refuses for want of organisation, role or platform flag, or because
\* the body does not parse.
Guard(r) ==
    /\ pc[r] = "serve"
    /\ \/ Allowed(r) /\ GoTo(r, FirstPlace(input[r].op))
       \/ (Allowed(r) => input[r].op.parses) /\ Refuse(r, 1)
    /\ UNCHANGED <<unserved, ctx, hit, events>>

AfterEffect(r) == IF input[r].op.audited THEN "audit" ELSE "answer"

\* Me, and ListOrgs unless for a platform user, answer with what they have.
IgnoresErrors(r) ==
    input[r].op.does = "lookup" \/ (input[r].op.does = "orgs" /\ ~ctx[r].plat)

\* What the transaction of CreateAPIKey inserts.
InsertKey(r) ==
    IF input[r].op.does = "key"
      THEN \E p \in Prefix :
              keys' = keys \cup {[id |-> r, org |-> ctx[r].org, prefix |-> p]}
      ELSE UNCHANGED keys

\* WithSession commits, or the file is read or written, whether or not the client
\* is still there.
Commit(r) ==
    /\ pc[r] = "work"
    /\ \/ Works(r)
       \/ (IgnoresErrors(r) \/ input[r].op.does = "file") /\ UNCHANGED <<hit, events>>
    /\ committed' = committed \cup {r}
    /\ InsertKey(r)
    /\ GoTo(r, AfterEffect(r))
    /\ UNCHANGED <<clusterVars, role, input, ctx, audit, held>>

\* The server commits and its reply is lost.
CommitUnseen(r) ==
    /\ pc[r] = "work"
    /\ ~IgnoresErrors(r) /\ input[r].op.does # "file"
    /\ Fails(r)
    /\ committed' = committed \cup {r}
    /\ InsertKey(r)
    /\ GoTo(r, "failing")
    /\ UNCHANGED <<clusterVars, role, input, ctx, audit, held>>

\* The transaction is rolled back, or the statement finds no row or refuses one.
RollBack(r) ==
    /\ pc[r] = "work"
    /\ ~IgnoresErrors(r)
    /\ Fails(r) \/ UNCHANGED <<hit, events>>
    /\ Refuse(r, 1)
    /\ UNCHANGED <<unserved, ctx>>

ReportFailure(r) ==
    /\ pc[r] = "failing"
    /\ Refuse(r, 1)
    /\ UNCHANGED <<unserved, ctx, hit, events>>

\* pveForOrg reads and opens the connection; console and list then ask for the
\* version of the cluster first.
Connect(r) ==
    /\ pc[r] = "connect"
    /\ \/ Works(r) /\ GoTo(r, IF input[r].op.does = "power" THEN "call" ELSE "version")
       \/ (Fails(r) \/ UNCHANGED <<hit, events>>) /\ Refuse(r, 1)
    /\ UNCHANGED <<unserved, ctx>>

VerifyReachability(r) ==
    /\ pc[r] = "version"
    /\ GoTo(r, "call") \/ Refuse(r, 1)
    /\ UNCHANGED <<unserved, ctx, hit, events>>

\* Neither the POST nor the wait for it depends on the client.
CallProxmox(r) ==
    /\ pc[r] = "call"
    /\ input[r].op.does \in {"power", "console"}
    /\ SendPost(r)
    /\ GoTo(r, "waiting")
    /\ UNCHANGED <<world, input, ctx, committed, audit, hit, held, events>>

ProxmoxAnswers(r) ==
    /\ pc[r] = "waiting"
    /\ \/ post[r] = "executed" /\ GoTo(r, "audit")
       \/ post[r] = "declined" /\ Refuse(r, 1)
    /\ UNCHANGED <<unserved, ctx, hit, events>>

\* Bug: the error of SetPower and VncProxy is ignored.
ProxmoxErrorIgnored(r) ==
    /\ pc[r] = "waiting"
    /\ GoTo(r, "audit")
    /\ hit' = [hit EXCEPT ![r] = @ \cup {"proxmox"}]
    /\ UNCHANGED <<unserved, ctx, events>>

\* Bug: no timeout, only an answer of Proxmox ends the wait.
ProxmoxFailsLate(r) ==
    /\ pc[r] = "waiting"
    /\ post[r] # "sent"
    /\ Refuse(r, 1)
    /\ hit' = [hit EXCEPT ![r] = @ \cup {"proxmox"}]
    /\ UNCHANGED <<unserved, ctx, events>>

\* 60 s are over, the connection breaks, or the answer has no port and ticket:
\* whether the POST was or will be executed is not known.
ProxmoxFails(r) ==
    /\ pc[r] = "waiting"
    /\ Refuse(r, 1)
    /\ hit' = [hit EXCEPT ![r] = @ \cup {"proxmox"}]
    /\ UNCHANGED <<unserved, ctx, events>>

StartListing(r) ==
    /\ pc[r] = "call"
    /\ input[r].op.does = "list"
    /\ \/ ListNodes(r) /\ GoTo(r, "listing")
       \/ UNCHANGED clusterVars /\ Refuse(r, 1)
    /\ UNCHANGED <<world, input, ctx, committed, audit, hit, held, events>>

\* Bug: a node that cannot be listed is left out.
ListOrSkip(r) ==
    /\ pc[r] = "listing"
    /\ \/ ListGuests(r)
       \/ /\ listing[r].calls # <<>>
          /\ listing' = [listing EXCEPT ![r].calls = Tail(@)]
          /\ UNCHANGED <<at, post, moved>>
    /\ UNCHANGED <<world, pc, written, reply, input, ctx, committed, audit, hit, held,
                   events>>

\* One failing call fails the whole request.
ListNext(r) ==
    /\ pc[r] = "listing"
    /\ listing[r].calls # <<>>
    /\ \/ ListGuests(r) /\ UNCHANGED <<pc, written, reply>>
       \/ UNCHANGED clusterVars /\ Refuse(r, 1)
    /\ UNCHANGED <<world, input, ctx, committed, audit, hit, held, events>>

EndListing(r) ==
    /\ pc[r] = "listing"
    /\ listing[r].calls = <<>>
    /\ committed' = committed \cup {r}
    /\ GoTo(r, "answer")
    /\ UNCHANGED <<clusterVars, world, input, ctx, audit, hit, held, events>>

\* Bug: an entry without organisation is inserted with '' for its uuid.
InsertAuditOfOrg(r) ==
    /\ pc[r] = "audit"
    /\ \/ Works(r) /\ audit' = IF ctx[r].org = NoOrg THEN audit ELSE audit \cup {r}
       \/ Fails(r) /\ UNCHANGED audit
    /\ GoTo(r, "answer")
    /\ UNCHANGED <<clusterVars, world, input, ctx, committed, held>>

\* A transaction of its own; its error is ignored.
InsertAudit(r) ==
    /\ pc[r] = "audit"
    /\ \/ Works(r) /\ audit' = audit \cup {r}
       \/ Fails(r) /\ UNCHANGED audit
    /\ GoTo(r, "answer")
    /\ UNCHANGED <<clusterVars, world, input, ctx, committed, held>>

Answer(r) ==
    /\ pc[r] = "answer"
    /\ Return(r, "ok", 1)
    /\ UNCHANGED <<unserved, ctx, hit, events>>

Handle(r) ==
    \/ NoToken(r) \/ KeyRows(r) \/ KeyRole(r) \/ DevUser(r) \/ DevRole(r)
    \/ ParseSession(r) \/ SessionRole(r) \/ Guard(r) \/ Commit(r) \/ CommitUnseen(r)
    \/ RollBack(r) \/ ReportFailure(r) \/ Connect(r) \/ VerifyReachability(r)
    \/ CallProxmox(r) \/ ProxmoxAnswers(r) \/ ProxmoxFails(r) \/ StartListing(r)
    \/ ListNext(r) \/ EndListing(r) \/ InsertAudit(r) \/ Answer(r)

-----------------------------------------------------------------------------
(* The surroundings.                                                       *)

unasked == <<pc, input, ctx, committed, audit, written, reply>>

\* Nothing under src/ changes a membership or a key: operators do.
SetRole(o, rl) ==
    /\ role[o] # rl
    /\ Event
    /\ role' = [role EXCEPT ![o] = rl]
    /\ held' = [r \in Req |-> IF InProgress(r) THEN [held[r] EXCEPT ![o] = @ \cup {rl}]
                                               ELSE held[r]]
    /\ UNCHANGED <<clusterVars, keys, unasked, hit>>

KeyEnds(k) ==
    /\ k \in keys
    /\ Event
    /\ keys' = keys \ {k}
    /\ UNCHANGED <<clusterVars, role, unasked, hit, held>>

ClusterStep ==
    /\ \/ \E r \in Req : HandlePost(r) /\ UNCHANGED events
       \/ \E g \in Guest, n \in Node : Migrate(g, n) /\ Event
    /\ UNCHANGED <<world, unasked, hit, held>>

Disconnect(r) ==
    /\ InProgress(r)
    /\ "disconnect" \notin hit[r]
    /\ hit' = [hit EXCEPT ![r] = @ \cup {"disconnect"}]
    /\ UNCHANGED <<clusterVars, world, unasked, held, events>>

\* The process ends: killed, or because ListenAndServe returns as soon as
\* Shutdown begins, and log.Fatal does not wait for the handlers.
Terminate ==
    /\ Event
    /\ \E r \in Req : InProgress(r)
    /\ pc' = [r \in Req |-> IF InProgress(r) THEN "over" ELSE pc[r]]
    /\ reply' = [r \in Req |-> IF InProgress(r) THEN "none" ELSE reply[r]]
    /\ hit' = [r \in Req |-> IF InProgress(r) THEN hit[r] \cup {"terminated"} ELSE hit[r]]
    /\ UNCHANGED <<unserved, ctx, written>>

Next ==
    \/ \E r \in Req : Arrive(r) \/ Handle(r) \/ Disconnect(r)
    \/ \E o \in Org, rl \in Role : SetRole(o, rl)
    \/ \E k \in keys : KeyEnds(k)
    \/ ClusterStep
    \/ Terminate

Spec == Init /\ [][Next]_vars

\* A handler goes on: queries are assumed to end (ApiKeyPool says when they
\* wait), calls to Proxmox end after 60 s.
Fairness == \A r \in Req : WF_vars(Handle(r))

FairSpec == Spec /\ Fairness

-----------------------------------------------------------------------------
(* Properties.                                                             *)

Done == committed \cup {r \in Req : post[r] = "executed"}

\* The types of the rows, the requests and the calls to Proxmox.
TypeOK ==
    /\ ClusterTypeOK
    /\ role \in [Org -> Role] /\ keys \subseteq Key
    /\ pc \in [Req -> Unserved \cup Served \cup {"over"}]
    /\ input \in [Req -> Input]
    /\ ctx \in [Req -> Context]
    /\ committed \subseteq Req /\ audit \subseteq Req
    /\ written \in [Req -> Nat]
    /\ reply \in [Req -> {"open", "ok", "error", "empty", "none"}]
    /\ hit \in [Req -> SUBSET {"db", "disconnect", "proxmox", "terminated"}]
    /\ held \in [Req -> [Org -> SUBSET Role]]
    /\ events \in 0..MaxEvents

\* The API implements RequestContract (middleware.go:26-54, the handlers,
\* queries.go:73-94, client.go:142-162): done at most once, audited only when
\* done, "ok" only when done, also when Proxmox acts after the client has given up.
RC == INSTANCE RequestContract WITH done <- Done, entry <- audit, reply <- reply
Contract == RC!Spec

\* Without a fault nothing is done silently: what is done was answered with "ok"
\* and, where the handler keeps an audit trail, has its entry, although effect,
\* entry and answer are three steps whose errors are ignored (handler_tf.go:166-191,
\* handler_v1.go:405-410).  A refusal or an error means that nothing was done.
AccountedFor ==
    \A r \in Req : pc[r] = "over" /\ r \in Done /\ hit[r] = {} =>
        /\ reply[r] = "ok"
        /\ input[r].op.audited => r \in audit

\* A membership that ends takes hold at the next request, for keys and sessions
\* alike: what is done in an organisation was asked for by someone who had the
\* role for it at some time since the request arrived (middleware.go:106-110,
\* 142-165).  The platform flag is the one of the session; the dev bearer has
\* defaults of its own.
RolesAreCurrent ==
    \A r \in Done :
        ctx[r].org # NoOrg /\ ~ctx[r].plat /\ input[r].cred # "dev" =>
            IF input[r].op.needs = "admin" THEN "org_admin" \in held[r][ctx[r].org]
                                        ELSE held[r][ctx[r].org] \ {"none"} # {}

\* A key that was handed out signs its user in, whatever other keys have its
\* prefix (middleware.go:89-113): it is refused only if it has ended, names
\* another organisation, the membership was missing at some time or a fault hit.
KeysSignIn ==
    \A r \in Req : \A k \in keys :
        /\ input[r].cred = k.id
        /\ input[r].hdr = k.org
        /\ reply[r] = "empty"
        => hit[r] # {} \/ "none" \in held[r][k.org]

\* Every request is answered once (middleware.go:113, 147-162), with two known
\* exceptions: a key that is refused gets no body, and a session that is refused
\* for its organisation gets two.
AnsweredOnce ==
    \A r \in Req : pc[r] = "over" =>
        \/ written[r] = 1
        \/ written[r] = 0 /\ (reply[r] = "none" \/ input[r].cred \in KeyId)
        \/ written[r] = 2 /\ input[r].cred = "session" /\ r \notin Done

\* A complete list names every guest of its nodes once, although it is put
\* together from two calls for each node (handler_v1.go:109-151): only a guest
\* that migrates meanwhile can be missed or named twice.
ListedOnce ==
    \A r \in Req : reply[r] = "ok" /\ input[r].op.does = "list" =>
        \A g \in Guest \ moved[r] :
            listing[r].found[g] = IF at[g] \in listing[r].scope THEN 1 ELSE 0

\* Every request ends (client.go:54), also when Proxmox does not answer, the
\* client is gone or the database fails.
EveryRequestEnds == \A r \in Req : pc[r] # "new" ~> pc[r] = "over"

-----------------------------------------------------------------------------
(* The inductive invariant behind the safety properties but ListedOnce.    *)

Effectless == Unserved \cup (Served \ {"failing", "waiting", "audit", "answer"})

\* How far the effect of a request, its entry and its answer have got.
Progress(r) ==
    /\ pc[r] = "over" <=> reply[r] # "open"
    /\ pc[r] \in Effectless => post[r] = "none"
    /\ r \in committed => post[r] = "none" /\ pc[r] \in {"failing", "audit", "answer", "over"}
    /\ pc[r] = "waiting" => post[r] # "none"
    /\ post[r] = "sent" => pc[r] \in {"waiting", "over"}
    /\ pc[r] \in {"audit", "answer"} \/ reply[r] = "ok" => r \in Done
    /\ r \in audit => r \in Done /\ pc[r] \in {"answer", "over"}

\* What a step short of "ok" owes to a fault.
Faults(r) ==
    /\ pc[r] = "failing" => hit[r] # {}
    /\ pc[r] = "over" /\ post[r] = "sent" => hit[r] # {}
    /\ pc[r] = "listing" => input[r].op.does = "list"
    /\ pc[r] = "answer" /\ hit[r] = {} /\ input[r].op.audited => r \in audit
    /\ pc[r] = "over" /\ r \in Done /\ hit[r] = {} =>
          reply[r] = "ok" /\ (input[r].op.audited => r \in audit)

\* What a request asks for has been done or handed to Proxmox, who may yet do it.
Started(r) == r \in committed \/ post[r] # "none"

\* Which way of signing in a request is on, and what it has written.
SigningIn(r) ==
    /\ pc[r] \in {"new", "token"} => ctx[r] = Anonymous
    /\ pc[r] = "keyrole" => input[r].cred \in KeyId
    /\ pc[r] = "devrole" => input[r].cred = "dev"
    /\ pc[r] = "role" => input[r].cred \in {"session", "platform"}
                        /\ ctx[r].plat = IsPlatformToken(r)
    /\ pc[r] # "over" => written[r] = 0
    /\ written[r] = 2 => ~Started(r)
    /\ reply[r] = "empty" => input[r].cred \in KeyId

\* The role of a request that is served is one the user has had meanwhile, and
\* past the guard it is enough for the handler.
ByMembership(r) == ctx[r].org # NoOrg /\ ~ctx[r].plat /\ input[r].cred # "dev"

RoleHeld(r) ==
    /\ InProgress(r) => \A o \in Org : role[o] \in held[r][o]
    /\ ByMembership(r) /\ (pc[r] \in Served \/ Started(r)) =>
          ctx[r].role \in held[r][ctx[r].org] \ {"none"}
    /\ pc[r] \in Served \ {"serve"} \/ Started(r) => Allowed(r)

\* Nobody presents a key before the request that made it is over.
KeyKnown(r) == pc[r] # "new" /\ input[r].cred \in Req => reply[input[r].cred] = "ok"

IInv ==
    /\ TypeOK
    /\ \A r \in Req : Progress(r) /\ Faults(r) /\ SigningIn(r) /\ RoleHeld(r) /\ KeyKnown(r)
    /\ AnsweredOnce
    /\ KeysSignIn
=============================================================================
