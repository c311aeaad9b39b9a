----------------------------- MODULE ManagedEnv -----------------------------
(***************************************************************************)
(* The admin page's file managed.env (internal/api/handler_admin_env.go,   *)
(* PatchAdminEnv; internal/config/managedenv.go) and the environment of    *)
(* the API process that serves it.                                         *)
(*                                                                         *)
(* A PATCH reads the file, merges its body, writes the file anew and       *)
(* applies it to the process environment.  Nothing is locked: any number   *)
(* of requests do this at once.  os.WriteFile truncates the file first and *)
(* then writes the text with one write call from offset 0, so that a file  *)
(* read, or a process killed, in between is without its content, and a     *)
(* text written over a longer one leaves the end of that in place.         *)
(***************************************************************************)
EXTENDS EnvFile

CONSTANTS
    Req,        \* PATCH requests of platform admins
    Body,       \* the JSON objects they send: "" removes a key
    Unknown,    \* no text: the history makes no claim
    MaxFaults   \* bound on failed writes and on process deaths, together

ASSUME BodyAssumption ==
    \A b \in Body : DOMAIN b \subseteq Name /\ \A k \in DOMAIN b : b[k] \in Seq(Char)
ASSUME FaultAssumption == MaxFaults \in Nat

Removed == <<>>

VARIABLES
    file,       \* the text of managed.env; a missing file reads like an empty one
    env,        \* the process environment: name -> value, <<>> for unset
    stage,      \* where each request is
    body,       \* its JSON object
    held,       \* the map it read and merged
    faults,     \* how many faults have happened
    stale,      \* history: a write failed since the file was last applied
    known,      \* history: what the admins expect each name to be
    blind,      \* history: requests that read while another was writing
    mixed       \* history: requests whose writes overlapped

vars == <<file, env, stage, body, held, faults, stale, known, blind, mixed>>

Writing == {r \in Req : stage[r] = "writing"}

\* The requests that are going to write what they read some time ago.
Merged == {r \in Req : stage[r] \in {"merged", "writing"}}

Nothing == [k \in Name |-> Removed]

ValueOf(m, k) == IF k \in DOMAIN m THEN m[k] ELSE Removed

Init ==
    /\ file = <<>>
    /\ env = Nothing
    /\ stage = [r \in Req |-> "new"]
    /\ body = [r \in Req |-> Nothing]
    /\ held = [r \in Req |-> Nothing]
    /\ faults = 0
    /\ stale = FALSE
    /\ known = Nothing
    /\ blind = {}
    /\ mixed = {}

\* The locals of requests that are over.
Forget(R) ==
    /\ body' = [r \in Req |-> IF r \in R THEN Nothing ELSE body[r]]
    /\ held' = [r \in Req |-> IF r \in R THEN Nothing ELSE held[r]]
    /\ blind' = blind \ R
    /\ mixed' = mixed \ R

-----------------------------------------------------------------------------
\* Bug: a key sent as "" stays in the map with an empty value.
MergeEmpty(m, b) ==
    [k \in DOMAIN m \cup DOMAIN b |-> IF k \in DOMAIN b THEN b[k] ELSE m[k]]

\* The loop over the body (136-158).
Merge(m, b) ==
    [k \in {n \in DOMAIN m \cup DOMAIN b : n \in DOMAIN b => b[n] # Removed} |->
        IF k \in DOMAIN b THEN b[k] ELSE m[k]]

\* No platform admin, no path, an unreadable file, a body that is refused, or
\* MkdirAll or the opening of the file fails (107-161).
Refuse(r) ==
    /\ stage[r] = "new"
    /\ stage' = [stage EXCEPT ![r] = "refused"]
    /\ UNCHANGED <<file, env, body, held, faults, stale, known, blind, mixed>>

\* ReadFile, ParseEnvFile and the merge (116-158).
ReadMerge(r) ==
    /\ stage[r] = "new"
    /\ \E b \in Body :
         /\ body' = [body EXCEPT ![r] = b]
         /\ held' = [held EXCEPT ![r] = Merge(ParseEnvFile(file), b)]
    /\ blind' = IF Writing = {} THEN blind ELSE blind \cup {r}
    /\ stage' = [stage EXCEPT ![r] = "merged"]
    /\ UNCHANGED <<file, env, faults, stale, known, mixed>>

\* os.WriteFile opens the file and truncates it.
BeginWrite(r) ==
    /\ stage[r] = "merged"
    /\ file' = <<>>
    /\ mixed' = IF Writing = {} THEN mixed ELSE mixed \cup Writing \cup {r}
    /\ stage' = [stage EXCEPT ![r] = "writing"]
    /\ UNCHANGED <<env, body, held, faults, stale, known, blind>>

WriteAtStart(t) == t \o SubSeq(file, Len(t) + 1, Len(file))

\* A value with a newline is written as it is: what follows the newline is read
\* back as a line of its own, which may set any name.
BreaksLines(r) == \E n \in DOMAIN body[r] : Contains(body[r][n], "\n")

\* A request that read a file with an odd name writes it as it read it: the line
\* then says something else, perhaps of another name.
HoldsOddName(r) == \E n \in DOMAIN held[r] : Odd(n)

\* What is expected after the write of r: its own keys, unless they came to lie
\* under an overlapping request; the other keys as before, unless r had read
\* the file while it was empty.
Expect(r, k) ==
    IF r \in mixed \/ BreaksLines(r) \/ HoldsOddName(r) THEN Unknown
    ELSE IF k \in DOMAIN body[r]
         THEN IF Merged = {r} /\ Plain(body[r][k]) THEN Kept(body[r][k]) ELSE Unknown
    ELSE IF r \in blind THEN Unknown
    ELSE known[k]

\* os.WriteFile writes the text.
EndWrite(r) ==
    /\ stage[r] = "writing"
    /\ file' = WriteAtStart(EnvText(held[r]))
    /\ known' = [k \in Name |-> Expect(r, k)]
    /\ stage' = [stage EXCEPT ![r] = "written"]
    /\ UNCHANGED <<env, body, held, faults, stale, blind, mixed>>

\* The disk is full: part of the text is written, the request answers 500.
FailWrite(r) ==
    /\ stage[r] = "writing"
    /\ faults < MaxFaults
    /\ faults' = faults + 1
    /\ \E n \in 0..(Len(EnvText(held[r])) - 1) :
          file' = WriteAtStart(SubSeq(EnvText(held[r]), 1, n))
    /\ stale' = TRUE
    /\ known' = [k \in Name |-> Unknown]
    /\ stage' = [stage EXCEPT ![r] = "failed"]
    /\ Forget({r})
    /\ UNCHANGED env

\* os.Setenv refuses a value with NUL; its error is ignored.
Settable(v) == ~Contains(v, "NUL")

\* os.Setenv for every entry of m, over the environment e; nothing is ever unset.
SetAll(m, e) ==
    [k \in Name |-> IF k \in DOMAIN m /\ Settable(m[k]) THEN m[k] ELSE e[k]]

\* Bug: a variable that is already set is left alone.
ApplyOnlyNew(r) ==
    /\ stage[r] = "written"
    /\ env' = [k \in Name |-> IF env[k] # Removed THEN env[k]
                              ELSE SetAll(ParseEnvFile(file), env)[k]]
    /\ stage' = [stage EXCEPT ![r] = "done"]
    /\ stale' = FALSE
    /\ Forget({r})
    /\ UNCHANGED <<file, faults, known>>

\* ApplyManagedEnvFile reads the file again and sets what it holds (163).
Apply(r) ==
    /\ stage[r] = "written"
    /\ env' = SetAll(ParseEnvFile(file), env)
    /\ stage' = [stage EXCEPT ![r] = "done"]
    /\ stale' = FALSE
    /\ Forget({r})
    /\ UNCHANGED <<file, faults, known>>

\* The process dies and is started again: its requests are gone, Load applies
\* the file to a fresh environment.  No request is served in between, so that
\* the end and the start are one step.
Restart ==
    /\ faults < MaxFaults
    /\ faults' = faults + 1
    /\ env' = SetAll(ParseEnvFile(file), Nothing)
    /\ stage' = [r \in Req |-> IF stage[r] \in {"merged", "writing", "written"}
                               THEN "failed" ELSE stage[r]]
    /\ stale' = FALSE
    /\ known' = IF Writing = {} THEN known ELSE [k \in Name |-> Unknown]
    /\ Forget({r \in Req : stage[r] \in {"merged", "writing", "written"}})
    /\ UNCHANGED file

Next ==
    \/ \E r \in Req :
         \/ Refuse(r) \/ ReadMerge(r) \/ BeginWrite(r) \/ EndWrite(r)
         \/ FailWrite(r) \/ Apply(r)
    \/ Restart

Spec == Init /\ [][Next]_vars

-----------------------------------------------------------------------------
\* The types; a request never holds a key that its body removes.
TypeOK ==
    /\ file \in Seq(Char)
    /\ \A k \in Name : env[k] \in Seq(Char) /\ known[k] \in Seq(Char) \cup {Unknown}
    /\ stage \in [Req -> {"new", "refused", "merged", "writing", "written",
                          "done", "failed"}]
    /\ body \in [Req -> Body \cup {Nothing}]
    /\ \A r \in Req : stage[r] = "merged" =>
          \A k \in DOMAIN body[r] : body[r][k] = Removed => k \notin DOMAIN held[r]
    /\ faults \in 0..MaxFaults
    /\ stale \in BOOLEAN
    /\ blind \cup mixed \subseteq Req

\* Between writes the file says of each key what the admins expect: plain
\* values come back as they were entered, but for outer white space that has
\* nothing to quote beside it, through every later rewrite; removed keys stay
\* away, and a request that omits a key leaves it alone; also when requests
\* overlap, unless they touch the key itself, read a truncated file or write at
\* the same time (handler_admin_env.go:116-162, managedenv.go:46-109).
PlainValuesKept ==
    Writing = {} => \A k \in Name :
        known[k] # Unknown => ValueOf(ParseEnvFile(file), k) = known[k]

\* Once every write is answered the running process has each value that the
\* file gives, whichever requests overlapped, read the file while it was empty,
\* tore it or died on the way, unless os.Setenv refuses the value or the last
\* write failed (handler_admin_env.go:163, config.go:52-55).
EnvFollowsFile ==
    (~stale /\ \A r \in Req : stage[r] \notin {"writing", "written"}) =>
        \A k \in Name : LET v == ValueOf(ParseEnvFile(file), k) IN
            v # Removed /\ Settable(v) => env[k] = v

\* "omit a key to leave unchanged" (apps/web/src/api.ts:123): a request that
\* runs alone does not change what the file says of a key that it omits.
OmittedKeysUnchanged ==
    [][\A r \in Req :
          stage[r] = "writing" /\ stage'[r] = "written" /\ Merged = {r}
             /\ r \notin blind \cup mixed
          => \A k \in Name \ DOMAIN body[r] :
                ValueOf(ParseEnvFile(file'), k) = ValueOf(held[r], k)]_vars

\* What does hold beside it: a write that overlaps no other leaves a file with the
\* keys that the request held, no other, and with those of their values that
\* need no escape, trimmed if not quoted, unless a value contains a newline or a
\* name is odd (managedenv.go:46-109).
WritesWhatItHolds ==
    [][\A r \in Req :
          /\ stage[r] = "writing" /\ stage'[r] = "written"
          /\ r \notin mixed /\ ~BreaksLines(r) /\ ~HoldsOddName(r)
          => \A k \in Name : LET v == ValueOf(held[r], k) IN
                /\ k \in DOMAIN ParseEnvFile(file') <=> v # Removed
                /\ Plain(v) => ValueOf(ParseEnvFile(file'), k) = Kept(v)]_vars
=============================================================================
