---------------------------- MODULE PveConnection ----------------------------
(***************************************************************************)
(* The Proxmox connection of one organisation: the row of org_pve_secrets, *)
(* the save handler (internal/api/handler_v1.go, PostPVEConnection) and    *)
(* the encryption key it is sealed under (internal/crypto/aes.go).         *)
(*                                                                         *)
(* A save without a secret keeps the stored one: it reads the row in one   *)
(* transaction and upserts what it read in another.  The key is the        *)
(* process's copy of CM_ENCRYPTION_KEY, read at its start; the admin page  *)
(* can change the one on disk.                                             *)
(*                                                                         *)
(* The other columns are plain last-writer-wins fields and are left out.   *)
(* Token ids are names without '|' and '!', as Proxmox issues them, so     *)
(* joining and splitting "id|secret" loses nothing.  AES-GCM is ideal: a   *)
(* sealed value opens under its own key only.                              *)
(***************************************************************************)
EXTENDS Integers

CONSTANTS
    Save,       \* requests to PostPVEConnection
    Api,        \* API processes
    Token,      \* token ids
    Secret,     \* token secrets
    Blank,      \* an empty field of a request
    NoRow,      \* the organisation has no connection
    MaxKey      \* bound on the key changes: keys are 0..MaxKey

ASSUME BlankAssumption == Blank \notin Token /\ Blank \notin Secret
ASSUME KeyAssumption == MaxKey \in Nat

Key == 0..MaxKey

Sealed == [token : Token, secret : Secret, key : Key]

Row == [token : Token, enc : Sealed]

ASSUME NoRowAssumption == NoRow \notin Row

VARIABLES
    row,        \* org_pve_secrets of the organisation
    diskKey,    \* CM_ENCRYPTION_KEY in managed.env
    procKey,    \* s.Cfg.EncryptionKey of each running process
    stage,      \* where each save is
    via,        \* the process that serves it
    form,       \* the token id and the secret in its body
    next,       \* the row it is going to write
    raced       \* history: saves overtaken between their read and their write

vars == <<row, diskKey, procKey, stage, via, form, next, raced>>

Form == [token : Token \cup {Blank}, secret : Secret \cup {Blank}]

\* A request in its process between the parsing of the body and the reply.
Active(s) == stage[s] \in {"read", "write"}

Init ==
    /\ row = NoRow
    /\ diskKey = 0
    /\ procKey = [p \in Api |-> 0]
    /\ stage = [s \in Save |-> "new"]
    /\ via \in [Save -> Api]
    /\ form = [s \in Save |-> [token |-> Blank, secret |-> Blank]]
    /\ next = [s \in Save |-> NoRow]
    /\ raced = [s \in Save |-> FALSE]

\* crypto.Seal under the key of the serving process.
Seal(t, x, p) == [token |-> t, secret |-> x, key |-> procKey[p]]

-----------------------------------------------------------------------------
\* The body is no JSON, a mandatory field is empty, the token id contains '!',
\* or a secret comes without a token id (254-281, 316-319).
RefuseForm(s) ==
    /\ stage[s] = "new"
    /\ stage' = [stage EXCEPT ![s] = "refused"]
    /\ UNCHANGED <<row, diskKey, procKey, via, form, next, raced>>

\* Bug: the secret is sealed under the key that the admin page has just put in
\* the environment of the process.
SealWithNewKey(s) ==
    /\ stage[s] = "new"
    /\ \E t \in Token, x \in Secret :
         /\ form' = [form EXCEPT ![s] = [token |-> t, secret |-> x]]
         /\ next' = [next EXCEPT ![s] =
               [token |-> t, enc |-> [token |-> t, secret |-> x, key |-> diskKey]]]
    /\ stage' = [stage EXCEPT ![s] = "write"]
    /\ UNCHANGED <<row, diskKey, procKey, via, raced>>

\* A body with a secret: seal it (315-326).
SealSecret(s) ==
    /\ stage[s] = "new"
    /\ \E t \in Token, x \in Secret :
         /\ form' = [form EXCEPT ![s] = [token |-> t, secret |-> x]]
         /\ next' = [next EXCEPT ![s] = [token |-> t, enc |-> Seal(t, x, via[s])]]
    /\ stage' = [stage EXCEPT ![s] = "write"]
    /\ UNCHANGED <<row, diskKey, procKey, via, raced>>

\* Bug: an empty secret is sealed like any other.
SealBlank(s) ==
    /\ stage[s] = "new"
    /\ \E t \in Token :
         /\ form' = [form EXCEPT ![s] = [token |-> t, secret |-> Blank]]
         /\ next' = [next EXCEPT ![s] = [token |-> t, enc |-> Seal(t, Blank, via[s])]]
    /\ stage' = [stage EXCEPT ![s] = "write"]
    /\ UNCHANGED <<row, diskKey, procKey, via, raced>>

\* A body without a secret: the stored one is wanted (289-290).
KeepSecret(s) ==
    /\ stage[s] = "new"
    /\ \E t \in Token \cup {Blank} :
         form' = [form EXCEPT ![s] = [token |-> t, secret |-> Blank]]
    /\ stage' = [stage EXCEPT ![s] = "read"]
    /\ UNCHANGED <<row, diskKey, procKey, via, next, raced>>

\* Bug: the check that the token id is the stored one is missing.
ReadAnyToken(s) ==
    /\ stage[s] = "read"
    /\ row # NoRow
    /\ next' = [next EXCEPT ![s] =
          [row EXCEPT !.token = IF form[s].token = Blank THEN row.token
                                                         ELSE form[s].token]]
    /\ stage' = [stage EXCEPT ![s] = "write"]
    /\ UNCHANGED <<row, diskKey, procKey, via, form, raced>>

\* The read transaction (291-314): the row's token id and ciphertext are kept.
ReadExisting(s) ==
    /\ stage[s] = "read"
    /\ row # NoRow
    /\ form[s].token \in {Blank, row.token}
    /\ next' = [next EXCEPT ![s] = row]
    /\ stage' = [stage EXCEPT ![s] = "write"]
    /\ UNCHANGED <<row, diskKey, procKey, via, form, raced>>

\* No connection to keep the secret of, or another token id (301-312).
RefuseExisting(s) ==
    /\ stage[s] = "read"
    /\ \/ row = NoRow
       \/ row # NoRow /\ form[s].token \notin {Blank, row.token}
    /\ stage' = [stage EXCEPT ![s] = "refused"]
    /\ UNCHANGED <<row, diskKey, procKey, via, form, next, raced>>

\* The upsert transaction (328-341).
Upsert(s) ==
    /\ stage[s] = "write"
    /\ row' = next[s]
    /\ raced' = [x \in Save |-> raced[x] \/ (x # s /\ stage[x] = "write")]
    /\ stage' = [stage EXCEPT ![s] = "saved"]
    /\ UNCHANGED <<diskKey, procKey, via, form, next>>

\* A transaction fails, the client is gone, or the process is stopped.
Drop(s) ==
    /\ Active(s)
    /\ stage' = [stage EXCEPT ![s] = "dropped"]
    /\ UNCHANGED <<row, diskKey, procKey, via, form, next, raced>>

\* PatchAdminEnv writes a new CM_ENCRYPTION_KEY to managed.env.  The running
\* processes keep theirs; nothing re-encrypts the stored secrets.
RotateKey ==
    /\ diskKey < MaxKey
    /\ diskKey' = diskKey + 1
    /\ UNCHANGED <<row, procKey, stage, via, form, next, raced>>

\* A process starts again: it loads the key, its requests are lost.
RestartApi(p) ==
    /\ procKey' = [procKey EXCEPT ![p] = diskKey]
    /\ stage' = [s \in Save |-> IF via[s] = p /\ Active(s) THEN "dropped" ELSE stage[s]]
    /\ UNCHANGED <<row, diskKey, via, form, next, raced>>

Next ==
    \/ \E s \in Save :
         \/ RefuseForm(s) \/ SealSecret(s) \/ KeepSecret(s) \/ ReadExisting(s)
         \/ RefuseExisting(s) \/ Upsert(s) \/ Drop(s)
    \/ RotateKey
    \/ \E p \in Api : RestartApi(p)

Spec == Init /\ [][Next]_vars

-----------------------------------------------------------------------------
\* pveForOrg (155-193): the credentials a process gets out of the row, none if
\* there is no connection or if it cannot be decrypted.
Client(p) ==
    IF row # NoRow /\ row.enc.key = procKey[p]
    THEN {[token |-> row.enc.token, secret |-> row.enc.secret]} ELSE {}

\* Every variable keeps its type; a save that is about to write has a row.
TypeOK ==
    /\ row \in Row \cup {NoRow}
    /\ diskKey \in Key
    /\ procKey \in [Api -> Key]
    /\ stage \in [Save -> {"new", "read", "write", "saved", "refused", "dropped"}]
    /\ via \in [Save -> Api]
    /\ form \in [Save -> Form]
    /\ next \in [Save -> Row \cup {NoRow}]
    /\ \A s \in Save : stage[s] = "write" => next[s] # NoRow
    /\ raced \in [Save -> BOOLEAN]

\* The token id that the settings page shows is the one sealed with the secret
\* (handler_v1.go:305-314, 320), whatever blank and full saves overlap.
TokenMatchesSecret == row # NoRow => row.token = row.enc.token

\* A save without a secret changes neither secret nor token id, unless another
\* save was written between its read and its write (289-314, 328).
BlankKeepsUnlessRaced ==
    [][\A s \in Save :
          /\ stage[s] = "write" /\ stage'[s] = "saved"
          /\ form[s].secret = Blank /\ ~raced[s]
          => row' = row]_vars

\* A save without a secret keeps the existing secret (apps/web/src/api.ts:50).
BlankKeepsSecret ==
    [][\A s \in Save :
          stage[s] = "write" /\ stage'[s] = "saved" /\ form[s].secret = Blank
          => row' = row]_vars

\* Entering the secret again repairs a connection that cannot be decrypted, as
\* the error message says (handler_v1.go:181-186): right after the save the
\* process that served it can use exactly what was entered, also when the key
\* on disk has changed meanwhile.
FullSaveIsUsable ==
    [][\A s \in Save :
          stage[s] = "write" /\ stage'[s] = "saved" /\ form[s].secret # Blank
          => Client(via[s])' = {form[s]}]_vars

-----------------------------------------------------------------------------
(* The inductive invariant behind the properties.                          *)

\* What a save that is about to write has in its hands.
WriteInv(s) ==
    stage[s] = "write" =>
        /\ next[s].token = next[s].enc.token
        /\ form[s].secret = Blank /\ ~raced[s] => row = next[s]
        /\ form[s].secret # Blank =>
              /\ next[s].enc.token = form[s].token
              /\ next[s].enc.secret = form[s].secret
              /\ next[s].enc.key = procKey[via[s]]

IInv ==
    /\ TypeOK
    /\ TokenMatchesSecret
    /\ \A s \in Save : WriteInv(s)
    /\ \A s \in Save : stage[s] = "read" => form[s].secret = Blank
=============================================================================
