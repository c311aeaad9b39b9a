---------------------------- MODULE ProxmoxCluster ----------------------------
(***************************************************************************)
(* The Proxmox cluster of an organisation as internal/pve/client.go sees   *)
(* it: one HTTP call at a time, no retry, a timeout of 60 s, and nothing   *)
(* remembered between the calls of one request.  The cluster itself is     *)
(* external: guests migrate between two calls, and a POST that the client  *)
(* has given up on may still be executed.                                  *)
(***************************************************************************)
EXTENDS Naturals, Sequences, FiniteSets, Functions

CONSTANTS
    Req,        \* the requests to the API
    Node,       \* the nodes of the cluster
    Guest,      \* its guests
    Container   \* the guests that are LXC; the others are QEMU

ASSUME ClusterAssumption == IsFiniteSet(Node) /\ Container \subseteq Guest

VARIABLES
    at,         \* the node each guest is on
    post,       \* the power or console POST of a request
    listing,    \* what a request has listed and has still to list
    moved       \* history: the guests that migrated since a listing began

clusterVars == <<at, post, listing, moved>>

Call == Node \X {"qemu", "lxc"}

Listings == [scope : SUBSET Node, calls : Seq(Call), found : [Guest -> Nat]]

NoListing == [scope |-> {}, calls |-> <<>>, found |-> [g \in Guest |-> 0]]

ClusterInit ==
    /\ at \in [Guest -> Node]
    /\ post = [r \in Req |-> "none"]
    /\ listing = [r \in Req |-> NoListing]
    /\ moved = [r \in Req |-> {}]

ClusterTypeOK ==
    /\ at \in [Guest -> Node]
    /\ post \in [Req -> {"none", "sent", "executed", "declined"}]
    /\ listing \in [Req -> Listings]
    /\ moved \in [Req -> SUBSET Guest]

\* postForm: the POST of SetPower or VncProxy leaves the API.
SendPost(r) ==
    /\ post' = [post EXCEPT ![r] = "sent"]
    /\ UNCHANGED <<at, listing, moved>>

\* Proxmox gets to it, in time or not.
HandlePost(r) ==
    /\ post[r] = "sent"
    /\ \E result \in {"executed", "declined"} : post' = [post EXCEPT ![r] = result]
    /\ UNCHANGED <<at, listing, moved>>

\* For each node of an order its QEMU guests and then its containers.
CallsOf(order) ==
    [i \in 1..(2 * Len(order)) |->
        <<order[(i + 1) \div 2], IF i % 2 = 1 THEN "qemu" ELSE "lxc">>]

\* Bug: a ?node= that is not a node of the cluster is asked for all the same.
ListNodeAsNamed(r) ==
    /\ \E scope \in {Node, {"unknown"}} :
         \E order \in Bijection(1..Cardinality(scope), scope) :
            listing' = [listing EXCEPT ![r] =
                          [scope |-> scope, calls |-> CallsOf(order),
                           found |-> [g \in Guest |-> 0]]]
    /\ UNCHANGED <<at, post, moved>>

\* ListNodes in the order of the cluster, then the ?node= of the request, which
\* narrows the list when it names a node.
ListNodes(r) ==
    /\ \E scope \in {Node} \cup {{n} : n \in Node} :
         \E order \in Bijection(1..Cardinality(scope), scope) :
            listing' = [listing EXCEPT ![r] =
                          [scope |-> scope, calls |-> CallsOf(order),
                           found |-> [g \in Guest |-> 0]]]
    /\ UNCHANGED <<at, post, moved>>

\* The guests one ListQemu or ListLxc returns.
GuestsAt(call) ==
    {g \in Guest : at[g] = call[1] /\ (g \in Container <=> call[2] = "lxc")}

ListGuests(r) ==
    /\ listing[r].calls # <<>>
    /\ LET l == listing[r] IN
       listing' = [listing EXCEPT ![r] =
          [l EXCEPT !.calls = Tail(@),
                    !.found = [g \in Guest |-> IF g \in GuestsAt(Head(l.calls))
                                                 THEN @[g] + 1 ELSE @[g]]]]
    /\ UNCHANGED <<at, post, moved>>

Migrate(g, n) ==
    /\ at[g] # n
    /\ at' = [at EXCEPT ![g] = n]
    /\ moved' = [r \in Req |->
                    IF listing[r].scope # {} THEN moved[r] \cup {g} ELSE moved[r]]
    /\ UNCHANGED <<post, listing>>
=============================================================================
