------------------------------ MODULE MCRequests ------------------------------
(* Requests for TLC, with a handler of each shape that makes a difference.    *)
(* Requests share only the table of keys, so there are two kinds of instance: *)
(* one request creates a key for a session while the other one signs in with  *)
(* a key, this one or an old one; or a single request is made with a session  *)
(* or the dev bearer, next to one without a token.                            *)
EXTENDS Requests, TLC

CONSTANT KeyMaker   \* the request that creates a key

MCOp == {CreateAPIKey, EnqueueTF, PVEPower, PatchAdminEnv, PVEVMs, ListOrgs}

MCInit ==
    /\ Init
    /\ role = [o \in Org |-> IF o = 1 THEN "org_admin" ELSE "org_member"]
    /\ \A k \in keys : k.org = 1 /\ k.prefix = CHOOSE p \in Prefix : TRUE
    /\ \A g, h \in Guest : at[g] = at[h]
    /\ PVEVMs \in {input[r].op : r \in Req} \/ at = [g \in Guest |-> CHOOSE n \in Node : TRUE]
    /\ \/ /\ input[KeyMaker] = [op |-> CreateAPIKey, cred |-> "session", hdr |-> 1]
          /\ \A r \in Req \ {KeyMaker} : input[r].cred \in KeyId /\ input[r].op = EnqueueTF
       \/ /\ input[KeyMaker] = [op |-> CreateAPIKey, cred |-> "none", hdr |-> NoOrg]
          /\ \A r \in Req \ {KeyMaker} : input[r].cred \notin KeyId \cup {"none"}

MCSpec == MCInit /\ [][Next]_vars /\ Fairness
=============================================================================
