---------------------------- MODULE PoolContract ----------------------------
(***************************************************************************)
(* What the database pool promises to the rest of the process, with        *)
(* nothing of how it keeps it: calls are admitted while the pool is open,  *)
(* every admitted call reaches one verdict and leaves, success is decided  *)
(* only while the pool is open, and the pool is closed only when no        *)
(* admitted call remains.  PostgresPool implements this module, and        *)
(* ApiProcess is built on it.                                              *)
(***************************************************************************)
CONSTANT Calls

VARIABLES
    phase,      \* open, closing or closed
    admitted,   \* the calls that may use the provider
    verdict     \* what each call has decided to return: none, ok or error

contractVars == <<phase, admitted, verdict>>

TypeOK ==
    /\ phase \in {"open", "closing", "closed"}
    /\ admitted \subseteq Calls
    /\ verdict \in [Calls -> {"none", "ok", "error"}]

Init ==
    /\ phase = "open"
    /\ admitted = {}
    /\ verdict = [c \in Calls |-> "none"]

\* A call begins and forgets the verdict of the one before.
Begin(c) ==
    /\ c \notin admitted
    /\ verdict' = [verdict EXCEPT ![c] = "none"]
    /\ UNCHANGED <<phase, admitted>>

Admit(c) ==
    /\ phase = "open"
    /\ c \notin admitted
    /\ verdict[c] = "none"
    /\ admitted' = admitted \cup {c}
    /\ UNCHANGED <<phase, verdict>>

\* A call that is not admitted fails: the pool is closed or its caller has left.
Refuse(c) ==
    /\ c \notin admitted
    /\ verdict' = [verdict EXCEPT ![c] = "error"]
    /\ UNCHANGED <<phase, admitted>>

Decide(c, v) ==
    /\ c \in admitted
    /\ verdict[c] = "none"
    /\ v = "ok" => phase = "open"
    /\ verdict' = [verdict EXCEPT ![c] = v]
    /\ UNCHANGED <<phase, admitted>>

\* Only a call that has decided leaves.
Leave(c) ==
    /\ c \in admitted
    /\ verdict[c] # "none"
    /\ admitted' = admitted \ {c}
    /\ UNCHANGED <<phase, verdict>>

StartClose ==
    /\ phase = "open"
    /\ phase' = "closing"
    /\ UNCHANGED <<admitted, verdict>>

FinishClose ==
    /\ phase = "closing"
    /\ admitted = {}
    /\ phase' = "closed"
    /\ UNCHANGED <<admitted, verdict>>

Next ==
    \/ \E c \in Calls :
          \/ Begin(c) \/ Admit(c) \/ Refuse(c) \/ Leave(c)
          \/ \E v \in {"ok", "error"} : Decide(c, v)
    \/ StartClose \/ FinishClose

Spec == Init /\ [][Next]_contractVars

=============================================================================
