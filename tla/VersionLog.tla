----------------------------- MODULE VersionLog -----------------------------
(***************************************************************************)
(* What the API promises of the configuration versions of one workspace:   *)
(* no numbers that are read and lost, no paths, no failed inserts.         *)
(*                                                                         *)
(*   - the versions are a log: an accepted upload becomes the next one, and *)
(*     no version is ever taken back or given to another upload;           *)
(*   - the bundle of a version is what was uploaded if nobody else uploaded *)
(*     at the same time;                                                   *)
(*   - whatever it is, it stays as it is once the uploads that were under  *)
(*     way together with its own are over.                                 *)
(*                                                                         *)
(* ConfigBundles implements it.                                            *)
(***************************************************************************)
EXTENDS Naturals, Sequences

CONSTANT Upload

VARIABLES
    open,   \* uploads that are under way
    met,    \* pairs of uploads that were open at the same time
    log,    \* the version numbers 1, 2, ...: whose upload each one is
    whole   \* versions whose bundle is what was uploaded

vars == <<open, met, log, whole>>

Init ==
    /\ open = {}
    /\ met = {}
    /\ log = <<>>
    /\ whole = {}

Begin(u) ==
    /\ u \notin open
    /\ open' = open \cup {u}
    /\ met' = met \cup {{u, x} : x \in open}
    /\ UNCHANGED <<log, whole>>

\* An upload ends without a version.
Withdraw(u) ==
    /\ u \in open
    /\ open' = open \ {u}
    /\ UNCHANGED <<met, log, whole>>

Alone(u) == \A x \in Upload \ {u} : {u, x} \notin met

Accept(u) ==
    /\ u \in open
    /\ open' = open \ {u}
    /\ log' = Append(log, u)
    /\ \/ whole' = whole \cup {Len(log) + 1}
       \/ ~Alone(u) /\ whole' = whole
    /\ UNCHANGED met

\* An upload that was open together with that of version n writes to its bundle.
Disturb(n) ==
    /\ \E x \in open : {log[n], x} \in met
    /\ whole' \in {whole \cup {n}, whole \ {n}}
    /\ UNCHANGED <<open, met, log>>

Next ==
    \/ \E u \in Upload : Begin(u) \/ Withdraw(u) \/ Accept(u)
    \/ \E n \in DOMAIN log : Disturb(n)

Spec == Init /\ [][Next]_vars
=============================================================================
