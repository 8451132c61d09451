--------------------------- MODULE MCPostgresPool ---------------------------
(* Two probes, two closers and two connection slots: enough for two calls to *)
(* compete for a connection while a third construction has lost its caller,  *)
(* and for a late Close to meet an earlier one.                              *)
EXTENDS PostgresPool, TLC

Symmetry == Permutations(Checks) \cup Permutations(Closers) \cup Permutations(Slots)

\* The constructor failed and whatever it left behind is gone: nothing more runs.
Stopped ==
    /\ ctor = "failed"
    /\ finisher \in {"none", "done"}
    /\ UNCHANGED vars

MCNext == Next \/ Stopped
MCSpec == Init /\ [][MCNext]_vars

=============================================================================
