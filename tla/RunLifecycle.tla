---------------------------- MODULE RunLifecycle ----------------------------
(***************************************************************************)
(* What the run subsystem promises about one row of tf_runs, seen through  *)
(* GetRun and through the terraform process that is started for the row:   *)
(* no workers, no claims, no transactions.  TerraformRuns implements it.   *)
(*                                                                         *)
(*   - terraform is started for a run only while the run is 'running', and *)
(*     at most once, whatever crashes and restarts happen;                 *)
(*   - the published result is final, is published only when no terraform  *)
(*     of the run is alive, and says what that terraform did.              *)
(***************************************************************************)
CONSTANT Run

VARIABLES
    status,     \* the run's row: absent, or the value of tf_runs.status
    proc        \* terraform plan/apply of the run: none, live, ok or err

vars == <<status, proc>>

Init ==
    /\ status = [r \in Run |-> "absent"]
    /\ proc = [r \in Run |-> "none"]

Submit(r) ==
    /\ status[r] = "absent"
    /\ status' = [status EXCEPT ![r] = "pending"]
    /\ UNCHANGED proc

Claim(r) ==
    /\ status[r] = "pending"
    /\ status' = [status EXCEPT ![r] = "running"]
    /\ UNCHANGED proc

Begin(r) ==
    /\ status[r] = "running"
    /\ proc[r] = "none"
    /\ proc' = [proc EXCEPT ![r] = "live"]
    /\ UNCHANGED status

End(r, result) ==
    /\ proc[r] = "live"
    /\ proc' = [proc EXCEPT ![r] = result]
    /\ UNCHANGED status

PublishSuccess(r) ==
    /\ status[r] = "running"
    /\ proc[r] = "ok"
    /\ status' = [status EXCEPT ![r] = "succeeded"]
    /\ UNCHANGED proc

PublishFailure(r) ==
    /\ status[r] = "running"
    /\ proc[r] \in {"none", "err"}
    /\ status' = [status EXCEPT ![r] = "failed"]
    /\ UNCHANGED proc

Next ==
    \E r \in Run :
        \/ Submit(r)
        \/ Claim(r)
        \/ Begin(r)
        \/ \E result \in {"ok", "err"} : End(r, result)
        \/ PublishSuccess(r)
        \/ PublishFailure(r)

Spec == Init /\ [][Next]_vars
=============================================================================
