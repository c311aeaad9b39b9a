--------------------------- MODULE RequestContract ---------------------------
(***************************************************************************)
(* What the API promises about each request, whatever handler serves it:   *)
(*                                                                         *)
(*   - what was asked for is done at most once, and "ok" is said only of   *)
(*     what is done;                                                       *)
(*   - the audit log has at most one entry of a request, and only of one   *)
(*     that is done and still open;                                        *)
(*   - an answer is final.  An error or no answer promises nothing: what   *)
(*     was asked for may be done, or may yet be done by Proxmox.           *)
(*                                                                         *)
(* No users, no transactions, no Proxmox.  Requests implements it.         *)
(***************************************************************************)
CONSTANT Req

VARIABLES
    done,   \* requests whose effect has taken place
    entry,  \* requests with an entry in the audit log
    reply   \* how each request was answered; "open" before

vars == <<done, entry, reply>>

Init ==
    /\ done = {}
    /\ entry = {}
    /\ reply = [r \in Req |-> "open"]

TakeEffect(r) ==
    /\ r \notin done
    /\ reply[r] # "ok"
    /\ done' = done \cup {r}
    /\ UNCHANGED <<entry, reply>>

Record(r) ==
    /\ r \in done \ entry
    /\ reply[r] = "open"
    /\ entry' = entry \cup {r}
    /\ UNCHANGED <<done, reply>>

Report(r) ==
    /\ r \in done
    /\ reply[r] = "open"
    /\ reply' = [reply EXCEPT ![r] = "ok"]
    /\ UNCHANGED <<done, entry>>

\* Several at once when the process ends.
GiveUp(S) ==
    /\ \A r \in S : reply[r] = "open"
    /\ \E ending \in {"error", "empty", "none"} :
          reply' = [r \in Req |-> IF r \in S THEN ending ELSE reply[r]]
    /\ UNCHANGED <<done, entry>>

Next ==
    \/ \E r \in Req : TakeEffect(r) \/ Record(r) \/ Report(r)
    \/ \E S \in SUBSET Req : GiveUp(S)

Spec == Init /\ [][Next]_vars
=============================================================================
