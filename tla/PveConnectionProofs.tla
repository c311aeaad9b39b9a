------------------------- MODULE PveConnectionProofs -------------------------
(***************************************************************************)
(* Proofs about PveConnection, for any sets of saves, processes, token ids *)
(* and secrets and any number of key changes.                              *)
(***************************************************************************)
EXTENDS PveConnection, TLAPS

\* The initial state satisfies the invariant.
LEMMA InitIInv == Init => IInv
  BY KeyAssumption DEF Init, IInv, TypeOK, Key, Form, TokenMatchesSecret, WriteInv

\* Every step keeps every variable in its type.
LEMMA NextTypeOK == TypeOK /\ [Next]_vars => TypeOK'
<1> SUFFICES ASSUME TypeOK, [Next]_vars PROVE TypeOK'
  OBVIOUS
<1> USE KeyAssumption, NoRowAssumption DEF TypeOK, Active
<1>1. ASSUME NEW s \in Save, RefuseForm(s) \/ Drop(s) \/ RefuseExisting(s) PROVE TypeOK'
  BY <1>1 DEF RefuseForm, Drop, RefuseExisting
<1>2. ASSUME NEW s \in Save, SealSecret(s) PROVE TypeOK'
  <2>1. PICK t \in Token, x \in Secret :
           /\ form' = [form EXCEPT ![s] = [token |-> t, secret |-> x]]
           /\ next' = [next EXCEPT ![s] = [token |-> t, enc |-> Seal(t, x, via[s])]]
    BY <1>2 DEF SealSecret
  <2>2. [token |-> t, enc |-> Seal(t, x, via[s])] \in Row
    BY DEF Row, Sealed, Seal
  <2>3. [token |-> t, secret |-> x] \in Form
    BY DEF Form
  <2>4. QED
    BY <1>2, <2>1, <2>2, <2>3 DEF SealSecret
<1>3. ASSUME NEW s \in Save, KeepSecret(s) PROVE TypeOK'
  BY <1>3 DEF KeepSecret, Form
<1>4. ASSUME NEW s \in Save, ReadExisting(s) PROVE TypeOK'
  BY <1>4 DEF ReadExisting
<1>5. ASSUME NEW s \in Save, Upsert(s) PROVE TypeOK'
  BY <1>5 DEF Upsert
<1>6. CASE RotateKey
  BY <1>6 DEF RotateKey, Key
<1>7. ASSUME NEW p \in Api, RestartApi(p) PROVE TypeOK'
  BY <1>7 DEF RestartApi
<1>8. CASE UNCHANGED vars
  BY <1>8 DEF vars
<1>9. QED
  BY <1>1, <1>2, <1>3, <1>4, <1>5, <1>6, <1>7, <1>8 DEF Next

\* IInv is inductive.
LEMMA NextIInv == IInv /\ [Next]_vars => IInv'
<1> SUFFICES ASSUME IInv, [Next]_vars PROVE IInv'
  OBVIOUS
<1>1. TypeOK'
  BY NextTypeOK DEF IInv
<1> USE <1>1, NoRowAssumption, BlankAssumption DEF IInv, TypeOK, TokenMatchesSecret, WriteInv
<1>2. ASSUME NEW s \in Save, RefuseForm(s) \/ Drop(s) \/ RefuseExisting(s) PROVE IInv'
  BY <1>2 DEF RefuseForm, Drop, RefuseExisting, Active
<1>3. ASSUME NEW s \in Save, SealSecret(s) PROVE IInv'
  BY <1>3 DEF SealSecret, Seal
<1>4. ASSUME NEW s \in Save, KeepSecret(s) PROVE IInv'
  BY <1>4 DEF KeepSecret
<1>5. ASSUME NEW s \in Save, ReadExisting(s) PROVE IInv'
  BY <1>5 DEF ReadExisting
<1>6. ASSUME NEW s \in Save, Upsert(s) PROVE IInv'
  BY <1>6 DEF Upsert
<1>7. CASE RotateKey
  BY <1>7 DEF RotateKey
<1>8. ASSUME NEW p \in Api, RestartApi(p) PROVE IInv'
  BY <1>8 DEF RestartApi, Active
<1>9. CASE UNCHANGED vars
  BY <1>9 DEF vars
<1>10. QED
  BY <1>2, <1>3, <1>4, <1>5, <1>6, <1>7, <1>8, <1>9 DEF Next

\* The inductive invariant holds in every behaviour.
THEOREM Invariance == Spec => []IInv
  BY InitIInv, NextIInv, PTL DEF Spec

\* The stored token id always belongs to the stored secret
\* (handler_v1.go:305-320).
THEOREM TokensMatch == Spec => []TokenMatchesSecret
<1>1. IInv => TokenMatchesSecret
  BY DEF IInv
<1>2. QED
  BY <1>1, Invariance, PTL

\* The stored row, the rows to be stored and the keys have their types.
THEOREM TypeCorrect == Spec => []TypeOK
<1>1. IInv => TypeOK
  BY DEF IInv
<1>2. QED
  BY <1>1, Invariance, PTL

\* Only an upsert turns a save that writes into a saved one.
LEMMA SavedByUpsert ==
  ASSUME [Next]_vars, NEW s \in Save, stage[s] = "write", stage'[s] = "saved", IInv
  PROVE  Upsert(s)
  BY DEF Next, vars, IInv, TypeOK, RefuseForm, SealSecret, KeepSecret, ReadExisting,
         RefuseExisting, Upsert, Drop, RotateKey, RestartApi

\* A blank save that was not overtaken changes nothing (handler_v1.go:289-341).
THEOREM BlankSavesKeep == Spec => BlankKeepsUnlessRaced
<1>1. ASSUME IInv, [Next]_vars, NEW s \in Save, stage[s] = "write", stage'[s] = "saved",
             form[s].secret = Blank, ~raced[s]
      PROVE  row' = row
  BY <1>1, SavedByUpsert DEF IInv, WriteInv, Upsert
<1>2. IInv /\ [Next]_vars =>
        [\A s \in Save :
            /\ stage[s] = "write" /\ stage'[s] = "saved"
            /\ form[s].secret = Blank /\ ~raced[s]
            => row' = row]_vars
  BY <1>1
<1>3. QED
  BY <1>2, Invariance, PTL DEF Spec, BlankKeepsUnlessRaced

\* A save with a secret is usable by the process that served it, at once
\* (handler_v1.go:181-186, 315-341).
THEOREM FullSavesAreUsable == Spec => FullSaveIsUsable
<1>1. ASSUME IInv, [Next]_vars, NEW s \in Save, stage[s] = "write", stage'[s] = "saved",
             form[s].secret # Blank
      PROVE  Client(via[s])' = {form[s]}
  <2>1. Upsert(s)
    BY <1>1, SavedByUpsert
  <2>2. row' = next[s] /\ row' # NoRow /\ UNCHANGED <<procKey, via, form>>
    BY <1>1, <2>1 DEF Upsert, IInv, TypeOK
  <2>3. /\ row'.enc.key = procKey'[via'[s]]
        /\ row'.enc.token = form[s].token
        /\ row'.enc.secret = form[s].secret
    BY <1>1, <2>2 DEF IInv, WriteInv
  <2>4. form[s] = [token |-> form[s].token, secret |-> form[s].secret]
    BY <1>1 DEF IInv, TypeOK, Form
  <2>5. QED
    BY <2>2, <2>3, <2>4 DEF Client
<1>2. IInv /\ [Next]_vars =>
        [\A s \in Save :
            stage[s] = "write" /\ stage'[s] = "saved" /\ form[s].secret # Blank
            => Client(via[s])' = {form[s]}]_vars
  BY <1>1
<1>3. QED
  BY <1>2, Invariance, PTL DEF Spec, FullSaveIsUsable
=============================================================================
